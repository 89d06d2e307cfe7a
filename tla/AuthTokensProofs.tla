-------------------------- MODULE AuthTokensProofs --------------------------
(***************************************************************************)
(* For any people, devices and lifetimes, and however long the clock      *)
(* runs: what a role and a person's presence have to do with the tokens   *)
(* that are accepted.                                                      *)
(***************************************************************************)
EXTENDS AuthTokens, TLAPS

\* What has happened lies in the past.
Clock ==
    /\ 1 <= now
    /\ \A u \in Users : wasAdmin[u] <= now /\ present[u] <= now

Requests ==
    \A d \in Devices :
        request[d].step # "idle" =>
            request[d].since <= now /\ now <= request[d].since + RequestTime

DataSigned ==
    \A d \in Devices :
        data[d].at # 0 =>
            data[d].user \in Users /\ data[d].at <= present[data[d].user]

\* What a login has verified and found, and what a refresh has parsed.
Checked ==
    \A d \in Devices :
        /\ request[d].step \in {"verified", "found"} =>
            /\ data[d].at # 0
            /\ request[d].since <= data[d].at + TelegramExpireDuration
        /\ request[d].step = "found" /\ request[d].role = "admin" =>
            /\ LastAdmin(data[d].user) # 0
            /\ request[d].since <= LastAdmin(data[d].user)
        /\ request[d].step = "parsed" => request[d].since < refresh[d].exp

\* A token of u that ends at exp was given, over requests and tokens that last
\* for l hours in all, to somebody who was there, and to an admin if it says so.
Given(token, l) ==
    /\ token.exp # 0 =>
        /\ token.user \in Users
        /\ present[token.user] # 0
        /\ token.exp <= present[token.user] + TelegramExpireDuration + l
    /\ token.role = "admin" =>
        /\ token.exp # 0
        /\ LastAdmin(token.user) # 0
        /\ token.exp <= LastAdmin(token.user) + l

IInv ==
    /\ TypeOK
    /\ Clock
    /\ Requests
    /\ DataSigned
    /\ Checked
    /\ \A d \in Devices : Given(refresh[d], RequestTime + RefreshTtl)
    /\ \A d \in Devices : Given(access[d], TokensLast)

-----------------------------------------------------------------------------

\* Type correctness is kept by every step.
LEMMA TypeStep ==
    ASSUME TypeOK, Clock, Requests, DataSigned, Checked, [Next]_vars
    PROVE  TypeOK'
<1> USE DurationsAssumption, NobodyAssumption DEF TypeOK, Roles
<1>1. CASE Tick
  BY <1>1 DEF Tick
<1>2. ASSUME NEW d \in Devices, NEW u \in Users, OpenApplication(d, u)
      PROVE  TypeOK'
  <2>1. [user |-> u, at |-> now] \in [user : Users \union {Nobody}, at : Nat]
    OBVIOUS
  <2> QED BY <1>2, <2>1 DEF OpenApplication
<1>3. ASSUME NEW d \in Devices,
             VerifyTelegramInitData(d) \/ ParseRefreshToken(d) \/ Fail(d)
      PROVE  TypeOK'
  <2>1. \E q \in [step : {"idle", "verified", "found", "parsed"},
                  since : Nat, role : Roles] :
            request' = [request EXCEPT ![d] = q]
    BY <1>3
       DEF VerifyTelegramInitData, ParseRefreshToken, Fail, Begins, NoRequest
  <2> QED BY <1>3, <2>1 DEF VerifyTelegramInitData, ParseRefreshToken, Fail
<1>4. ASSUME NEW d \in Devices, GetUserByTelegramId(d) PROVE TypeOK'
  <2>1. data[d].user \in Users
    BY <1>4 DEF GetUserByTelegramId, Checked, DataSigned
  <2>2. role[data[d].user] \in {"user", "admin"}
    BY <1>4, <2>1 DEF GetUserByTelegramId
  <2> QED BY <1>4, <2>2 DEF GetUserByTelegramId
<1>5. ASSUME NEW d \in Devices, LoginByTelegram(d) \/ RefreshAccessToken(d)
      PROVE  TypeOK'
  <2>0. ASSUME NEW u \in Users \union {Nobody}, NEW r \in Roles, NEW ttl \in Nat
        PROVE  GenerateToken(u, r, ttl) \in Token
    BY DEF GenerateToken, Token
  <2>a. /\ data[d].user \in Users \union {Nobody}
        /\ request[d].role \in Roles
        /\ refresh[d].user \in Users \union {Nobody}
        /\ refresh[d].role \in Roles
    BY DEF Token
  <2>1. /\ GenerateToken(data[d].user, request[d].role, AccessTtl) \in Token
        /\ GenerateToken(data[d].user, request[d].role, RefreshTtl) \in Token
        /\ GenerateToken(refresh[d].user, refresh[d].role, AccessTtl) \in Token
    BY <2>0, <2>a
  <2>2. access' \in [Devices -> Token] /\ refresh' \in [Devices -> Token]
    <3>1. access \in [Devices -> Token] /\ refresh \in [Devices -> Token]
      OBVIOUS
    <3>2. CASE LoginByTelegram(d)
      BY <2>1, <3>1, <3>2, Zenon DEF LoginByTelegram
    <3>3. CASE RefreshAccessToken(d)
      BY <2>1, <3>1, <3>3, Zenon DEF RefreshAccessToken
    <3> QED BY <1>5, <3>2, <3>3
  <2>3. request' = [request EXCEPT ![d] = NoRequest]
    BY <1>5 DEF LoginByTelegram, RefreshAccessToken, Ends
  <2> QED BY <1>5, <2>2, <2>3
          DEF LoginByTelegram, RefreshAccessToken, NoRequest
<1>6. ASSUME NEW u \in Users, Register(u) PROVE TypeOK'
  BY <1>6 DEF Register
<1>7. ASSUME NEW u \in Users, NEW r \in Roles, SetUserAdminStatus(u, r)
      PROVE  TypeOK'
  BY <1>7 DEF SetUserAdminStatus
<1>8. CASE UNCHANGED vars
  BY <1>8 DEF vars
<1> QED BY <1>1, <1>2, <1>3, <1>4, <1>5, <1>6, <1>7, <1>8 DEF Next, DeviceStep

\* Time, presence and the last hour as an admin never go back.
LEMMA Onward ==
    ASSUME TypeOK, Clock, [Next]_vars
    PROVE  /\ now' \in Nat /\ now <= now'
           /\ \A u \in Users :
                /\ present'[u] \in Nat /\ present[u] <= present'[u]
                /\ LastAdmin(u) \in Nat /\ LastAdmin(u)' \in Nat
                /\ LastAdmin(u) <= LastAdmin(u)'
                /\ LastAdmin(u) <= now
           /\ Clock'
<1>0. /\ now \in Nat
      /\ wasAdmin \in [Users -> Nat]
      /\ present \in [Users -> Nat]
      /\ role \in [Users -> {"user", "admin", "none"}]
  BY DEF TypeOK, Roles
<1> USE <1>0 DEF Roles, LastAdmin, Clock
<1> DEFINE Goal ==
        /\ now' \in Nat /\ now <= now'
        /\ \A u \in Users :
            /\ present'[u] \in Nat /\ present[u] <= present'[u]
            /\ LastAdmin(u) \in Nat /\ LastAdmin(u)' \in Nat
            /\ LastAdmin(u) <= LastAdmin(u)'
            /\ LastAdmin(u) <= now
        /\ Clock'
<1>1. CASE Tick
  BY <1>1 DEF Tick
<1>3. ASSUME NEW d \in Devices, NEW u \in Users, OpenApplication(d, u)
      PROVE  /\ now' = now /\ role' = role /\ wasAdmin' = wasAdmin
             /\ present' = [present EXCEPT ![u] = now]
  BY <1>3 DEF OpenApplication
<1>4. ASSUME NEW u \in Users, Register(u)
      PROVE  /\ now' = now /\ role[u] = "none"
             /\ role' = [role EXCEPT ![u] = "user"]
             /\ wasAdmin' = wasAdmin /\ present' = present
  BY <1>4 DEF Register
<1>5. ASSUME NEW u \in Users, NEW r \in Roles, SetUserAdminStatus(u, r)
      PROVE  /\ now' = now /\ present' = present
             /\ role' = [role EXCEPT ![u] = r]
             /\ role[u] \in Roles \ {r}
             /\ wasAdmin' = IF r = "user" THEN [wasAdmin EXCEPT ![u] = now]
                                          ELSE wasAdmin
  BY <1>5 DEF SetUserAdminStatus
<1>7. ASSUME NEW d \in Devices, DeviceStep(d)
      PROVE  \/ UNCHANGED <<now, role, wasAdmin, present>>
             \/ \E u \in Users : OpenApplication(d, u)
  BY <1>7
     DEF DeviceStep, VerifyTelegramInitData, GetUserByTelegramId, LoginByTelegram,
         ParseRefreshToken, RefreshAccessToken, Fail
<1>8. CASE UNCHANGED <<now, role, wasAdmin, present>>
  BY <1>8
<1>9. ASSUME NEW d \in Devices, NEW u \in Users, OpenApplication(d, u) PROVE Goal
  BY <1>3, <1>9
<1>10. ASSUME NEW u \in Users, Register(u) PROVE Goal
  BY <1>4, <1>10
<1>11. ASSUME NEW u \in Users, NEW r \in Roles, SetUserAdminStatus(u, r) PROVE Goal
  BY <1>5, <1>11
<1> QED
  BY <1>1, <1>7, <1>8, <1>9, <1>10, <1>11 DEF Next, vars

-----------------------------------------------------------------------------

\* The data and the tokens of a device change by its own steps only.
LEMMA OwnSteps ==
    ASSUME TypeOK, [Next]_vars, NEW d \in Devices
    PROVE  /\ data'[d] = data[d] \/ \E u \in Users : OpenApplication(d, u)
           /\ refresh'[d] = refresh[d] \/ LoginByTelegram(d)
           /\ access'[d] = access[d] \/ LoginByTelegram(d) \/ RefreshAccessToken(d)
           /\ request'[d] = request[d] \/ DeviceStep(d)
<1>0. /\ data = [e \in Devices |-> data[e]]
      /\ refresh = [e \in Devices |-> refresh[e]]
      /\ access = [e \in Devices |-> access[e]]
      /\ request = [e \in Devices |-> request[e]]
  BY DEF TypeOK
<1>1. ASSUME NEW e \in Devices, DeviceStep(e)
      PROVE  /\ data'[d] = data[d] \/ \E u \in Users : OpenApplication(d, u)
             /\ refresh'[d] = refresh[d] \/ LoginByTelegram(d)
             /\ access'[d] = access[d] \/ LoginByTelegram(d) \/ RefreshAccessToken(d)
             /\ request'[d] = request[d] \/ DeviceStep(d)
  <2>1. CASE e = d
    <3>1. LoginByTelegram(d) => data' = data
      BY DEF LoginByTelegram
    <3>2. RefreshAccessToken(d) => data' = data /\ refresh' = refresh
      BY DEF RefreshAccessToken
    <3>3. \A u \in Users : OpenApplication(d, u) =>
                refresh' = refresh /\ access' = access
      BY DEF OpenApplication
    <3>4. \/ VerifyTelegramInitData(d) \/ GetUserByTelegramId(d)
          \/ ParseRefreshToken(d) \/ Fail(d)
          => data' = data /\ refresh' = refresh /\ access' = access
      BY DEF VerifyTelegramInitData, GetUserByTelegramId, ParseRefreshToken, Fail
    <3> QED BY <1>1, <2>1, <3>1, <3>2, <3>3, <3>4 DEF DeviceStep
  <2>2. CASE e # d
    <3>1. data'[d] = data[d]
      BY <1>0, <1>1, <2>2
         DEF DeviceStep, VerifyTelegramInitData, GetUserByTelegramId,
             LoginByTelegram, ParseRefreshToken, RefreshAccessToken, Fail,
             OpenApplication
    <3>2. refresh'[d] = refresh[d]
      BY <1>0, <1>1, <2>2
         DEF DeviceStep, VerifyTelegramInitData, GetUserByTelegramId,
             LoginByTelegram, ParseRefreshToken, RefreshAccessToken, Fail,
             OpenApplication
    <3>3. access'[d] = access[d]
      BY <1>0, <1>1, <2>2
         DEF DeviceStep, VerifyTelegramInitData, GetUserByTelegramId,
             LoginByTelegram, ParseRefreshToken, RefreshAccessToken, Fail,
             OpenApplication
    <3>4. request'[d] = request[d]
      <4>1. CASE GetUserByTelegramId(e)
        BY <1>0, <2>2, <4>1 DEF GetUserByTelegramId
      <4>2. CASE ~GetUserByTelegramId(e)
        BY <1>0, <1>1, <2>2, <4>2
           DEF DeviceStep, VerifyTelegramInitData, LoginByTelegram,
               ParseRefreshToken, RefreshAccessToken, Fail, OpenApplication,
               Begins, Ends
      <4> QED BY <4>1, <4>2
    <3> QED BY <3>1, <3>2, <3>3, <3>4
  <2> QED BY <2>1, <2>2
<1>2. CASE Tick \/ UNCHANGED vars
  BY <1>2 DEF Tick, vars
<1>3. CASE \E u \in Users : Register(u) \/ \E r \in Roles : SetUserAdminStatus(u, r)
  BY <1>3 DEF Register, SetUserAdminStatus
<1> QED BY <1>1, <1>2, <1>3 DEF Next

\* A request began in the past, and time waits for it.
LEMMA RequestsStep ==
    ASSUME TypeOK, Requests, [Next]_vars
    PROVE  Requests'
<1> SUFFICES ASSUME NEW d \in Devices, request'[d].step # "idle"
             PROVE  /\ request'[d].since <= now'
                    /\ now' <= request'[d].since + RequestTime
  BY DEF Requests
<1>0. now \in Nat /\ request[d].since \in Nat
  BY DEF TypeOK
<1>1. CASE DeviceStep(d)
  <2>1. now' = now
    BY <1>1 DEF DeviceStep, VerifyTelegramInitData, GetUserByTelegramId,
                ParseRefreshToken, LoginByTelegram, RefreshAccessToken, Fail,
                OpenApplication
  <2>2. request'[d].since = now
        \/ (request[d].step # "idle" /\ request'[d].since = request[d].since)
    BY <1>1 DEF DeviceStep, VerifyTelegramInitData, GetUserByTelegramId,
                ParseRefreshToken, LoginByTelegram, RefreshAccessToken, Fail,
                OpenApplication, Begins, Ends, NoRequest, TypeOK
  <2> QED BY <1>0, <2>1, <2>2, DurationsAssumption DEF Requests
<1>2. CASE Tick
  BY <1>0, <1>2, DurationsAssumption DEF Tick, Requests
<1>3. CASE ~DeviceStep(d) /\ ~Tick
  <2>1. request'[d] = request[d]
    BY <1>3, OwnSteps
  <2>2. now' = now
    BY <1>3 DEF Next, DeviceStep, vars, VerifyTelegramInitData,
                GetUserByTelegramId, ParseRefreshToken, LoginByTelegram,
                RefreshAccessToken, Fail, OpenApplication, Register,
                SetUserAdminStatus
  <2> QED BY <2>1, <2>2 DEF Requests
<1> QED BY <1>1, <1>2, <1>3

\* What Telegram has signed was so.
LEMMA DataStep ==
    ASSUME TypeOK, Clock, DataSigned, [Next]_vars
    PROVE  DataSigned'
<1> SUFFICES ASSUME NEW d \in Devices, data'[d].at # 0
             PROVE  /\ data'[d].user \in Users
                    /\ data'[d].at <= present'[data'[d].user]
  BY DEF DataSigned
<1>1. CASE data'[d] = data[d]
  <2>1. data[d].user \in Users /\ data[d].at \in Nat
    BY <1>1 DEF DataSigned, TypeOK
  <2>2. present[data[d].user] \in Nat
    BY <2>1 DEF TypeOK
  <2> QED BY <1>1, <2>1, <2>2, Onward DEF DataSigned
<1>2. ASSUME NEW u \in Users, OpenApplication(d, u)
      PROVE  data'[d].user \in Users /\ data'[d].at <= present'[data'[d].user]
  BY <1>2 DEF OpenApplication, TypeOK
<1> QED BY <1>1, <1>2, OwnSteps

\* What a request has checked or read still bounds what it will write.
LEMMA CheckedStep ==
    ASSUME TypeOK, Clock, Requests, DataSigned, Checked, [Next]_vars
    PROVE  Checked'
<1> SUFFICES ASSUME NEW d \in Devices
             PROVE  /\ request'[d].step \in {"verified", "found"} =>
                        /\ data'[d].at # 0
                        /\ request'[d].since <= data'[d].at + TelegramExpireDuration
                    /\ request'[d].step = "found" /\ request'[d].role = "admin" =>
                        /\ LastAdmin(data[d].user)' # 0
                        /\ request'[d].since <= LastAdmin(data[d].user)'
                    /\ request'[d].step = "parsed" =>
                        request'[d].since < refresh'[d].exp
  BY DEF Checked
<1>0. request[d].since \in Nat /\ now \in Nat
  BY DEF TypeOK
<1>1. CASE VerifyTelegramInitData(d)
  <2>1. /\ request'[d].step = "verified" /\ request'[d].since = now
        /\ data' = data
    BY <1>1 DEF VerifyTelegramInitData, Begins, TypeOK
  <2> QED BY <1>1, <2>1 DEF VerifyTelegramInitData
<1>2. CASE ParseRefreshToken(d)
  <2>1. /\ request'[d].step = "parsed" /\ request'[d].since = now
        /\ refresh' = refresh
    BY <1>2 DEF ParseRefreshToken, Begins, TypeOK
  <2> QED BY <1>2, <2>1 DEF ParseRefreshToken, Valid
<1>3. CASE GetUserByTelegramId(d)
  <2>1. /\ request[d].step = "verified" /\ request'[d].step = "found"
        /\ request'[d].since = request[d].since
        /\ request'[d].role = role[data[d].user]
    BY <1>3 DEF GetUserByTelegramId, TypeOK
  <2>2. data' = data /\ role' = role /\ now' = now /\ wasAdmin' = wasAdmin
    BY <1>3 DEF GetUserByTelegramId
  <2>3. /\ data[d].at # 0
        /\ request[d].since <= data[d].at + TelegramExpireDuration
    BY <2>1 DEF Checked
  <2>4. request[d].since <= now /\ 1 <= now
    BY <2>1 DEF Requests, Clock
  <2> QED BY <1>0, <2>1, <2>2, <2>3, <2>4 DEF LastAdmin
<1>4. CASE \/ LoginByTelegram(d) \/ RefreshAccessToken(d) \/ Fail(d)
           \/ \E u \in Users : OpenApplication(d, u)
  <2>1. request'[d].step = "idle"
    BY <1>4 DEF LoginByTelegram, RefreshAccessToken, Fail, OpenApplication, Ends,
                NoRequest, TypeOK
  <2> QED BY <2>1
<1>5. CASE ~DeviceStep(d)
  <2>1. UNCHANGED <<request[d], data[d], refresh[d]>>
    BY <1>5, OwnSteps DEF DeviceStep
  <2>2. PICK u : u = data[d].user
    OBVIOUS
  <2>3. request[d].step = "found" => u \in Users
    BY <2>2 DEF Checked, DataSigned
  <2>4. request[d].step = "found" =>
            /\ LastAdmin(u) \in Nat
            /\ LastAdmin(u)' \in Nat
            /\ LastAdmin(u) <= LastAdmin(u)'
    BY <2>3, Onward
  <2>5. /\ LastAdmin(data[d].user) = LastAdmin(u)
        /\ LastAdmin(data[d].user)' = LastAdmin(u)'
    BY <2>1, <2>2 DEF LastAdmin
  <2> QED BY <1>0, <2>1, <2>4, <2>5 DEF Checked
<1> QED BY <1>1, <1>2, <1>3, <1>4, <1>5 DEF DeviceStep

\* What was true of a token when it was given stays true.
LEMMA GivenStays ==
    ASSUME TypeOK, Clock, [Next]_vars, NEW t \in Token, NEW l \in Nat, Given(t, l)
    PROVE  Given(t, l)'
<1>1. t.exp \in Nat
  BY DEF Token
<1>2. t.role = "admin" => t.exp # 0
  BY DEF Given
<1>3. CASE t.exp = 0
  BY <1>2, <1>3 DEF Given
<1>4. CASE t.exp # 0
  <2>1. t.user \in Users
    BY <1>4 DEF Given
  <2>2. present[t.user] \in Nat
    BY <2>1 DEF TypeOK
  <2>3. /\ present'[t.user] \in Nat /\ present[t.user] <= present'[t.user]
        /\ LastAdmin(t.user) \in Nat /\ LastAdmin(t.user)' \in Nat
        /\ LastAdmin(t.user) <= LastAdmin(t.user)'
    BY <2>1, Onward
  <2> QED BY <1>1, <1>4, <2>1, <2>2, <2>3, DurationsAssumption DEF Given
<1> QED BY <1>3, <1>4

\* The two tokens of a login, and the access token of a refresh.
LEMMA TokensStep ==
    ASSUME IInv, [Next]_vars, NEW d \in Devices
    PROVE  /\ Given(refresh[d], RequestTime + RefreshTtl)'
           /\ Given(access[d], TokensLast)'
<1> USE DurationsAssumption
<1>0. /\ TypeOK /\ Clock /\ Requests /\ DataSigned /\ Checked
      /\ Given(refresh[d], RequestTime + RefreshTtl)
      /\ Given(access[d], TokensLast)
      /\ RequestTime + RefreshTtl \in Nat /\ TokensLast \in Nat
      /\ refresh[d] \in Token /\ access[d] \in Token
  BY DEF IInv, TypeOK, TokensLast
<1>1. CASE LoginByTelegram(d)
  <2>1. /\ request[d].step = "found"
        /\ UNCHANGED <<now, role, data, wasAdmin, present>>
        /\ access'[d] = GenerateToken(data[d].user, request[d].role, AccessTtl)
        /\ refresh'[d] = GenerateToken(data[d].user, request[d].role, RefreshTtl)
    BY <1>0, <1>1 DEF LoginByTelegram, Ends, TypeOK
  <2>2. PICK u : u = data[d].user
    OBVIOUS
  <2>3. /\ u \in Users
        /\ data[d].at \in Nat /\ data[d].at # 0 /\ data[d].at <= present[u]
        /\ request[d].since <= data[d].at + TelegramExpireDuration
        /\ now <= request[d].since + RequestTime
        /\ now \in Nat /\ request[d].since \in Nat /\ 1 <= now
    BY <1>0, <2>1, <2>2 DEF TypeOK, Checked, DataSigned, Requests, Clock
  <2>4. present[u] \in Nat /\ wasAdmin[u] \in Nat
    BY <1>0, <2>3 DEF TypeOK
  <2>5. request[d].role = "admin" =>
            LastAdmin(u) # 0 /\ request[d].since <= LastAdmin(u)
    BY <1>0, <2>1, <2>2 DEF Checked
  <2>6. LastAdmin(u) \in Nat /\ LastAdmin(u)' = LastAdmin(u)
    BY <2>1, <2>3, <2>4 DEF LastAdmin
  <2>7. \A l, ttl \in Nat :
            RequestTime + ttl <= l =>
                LET t == [user |-> u, role |-> request[d].role, exp |-> now + ttl]
                IN  /\ t.exp # 0 /\ t.user \in Users /\ present[u] # 0
                    /\ t.exp <= present[u] + TelegramExpireDuration + l
                    /\ t.role = "admin" =>
                        LastAdmin(u) # 0 /\ t.exp <= LastAdmin(u) + l
    BY <2>3, <2>4, <2>5, <2>6
  <2>8. RequestTime + AccessTtl <= TokensLast
    BY DEF TokensLast
  <2>9. /\ access'[d] =
              [user |-> u, role |-> request[d].role, exp |-> now + AccessTtl]
        /\ refresh'[d] =
              [user |-> u, role |-> request[d].role, exp |-> now + RefreshTtl]
    BY <2>1, <2>2 DEF GenerateToken
  <2> QED BY <1>0, <2>1, <2>6, <2>7, <2>8, <2>9 DEF Given, LastAdmin
<1>2. CASE RefreshAccessToken(d)
  <2>1. PICK t \in Token : t = refresh[d]
    BY <1>0
  <2>2. /\ request[d].step = "parsed"
        /\ UNCHANGED <<now, role, wasAdmin, present>>
        /\ refresh'[d] = t
        /\ access'[d] = [user |-> t.user, role |-> t.role, exp |-> now + AccessTtl]
    BY <1>0, <1>2, <2>1 DEF RefreshAccessToken, Ends, GenerateToken, TypeOK
  <2>3. /\ request[d].since < t.exp
        /\ now <= request[d].since + RequestTime
        /\ now \in Nat /\ request[d].since \in Nat /\ t.exp \in Nat
        /\ 1 <= now
    BY <1>0, <2>1, <2>2 DEF TypeOK, Checked, Requests, Token, Clock
  <2>4. Given(t, RequestTime + RefreshTtl)
    BY <1>0, <2>1
  <2>5. /\ t.user \in Users /\ present[t.user] # 0
        /\ t.exp <= present[t.user] + TelegramExpireDuration
                       + (RequestTime + RefreshTtl)
        /\ t.role = "admin" =>
              /\ LastAdmin(t.user) # 0
              /\ t.exp <= LastAdmin(t.user) + (RequestTime + RefreshTtl)
    BY <2>3, <2>4 DEF Given
  <2>6. present[t.user] \in Nat /\ wasAdmin[t.user] \in Nat
    BY <1>0, <2>5 DEF TypeOK
  <2>7. LastAdmin(t.user) \in Nat /\ LastAdmin(t.user)' = LastAdmin(t.user)
    BY <2>2, <2>3, <2>6 DEF LastAdmin
  <2>8. /\ now + AccessTtl # 0
        /\ now + AccessTtl <= present[t.user] + TelegramExpireDuration + TokensLast
        /\ t.role = "admin" => now + AccessTtl <= LastAdmin(t.user) + TokensLast
    BY <2>3, <2>5, <2>6, <2>7 DEF TokensLast
  <2>9. Given(access[d], TokensLast)'
    BY <2>2, <2>5, <2>7, <2>8 DEF Given, LastAdmin
  <2>10. Given(t, RequestTime + RefreshTtl)'
    BY <1>0, <2>4, GivenStays
  <2> QED BY <2>2, <2>9, <2>10 DEF Given, LastAdmin
<1>3. CASE ~LoginByTelegram(d) /\ ~RefreshAccessToken(d)
  <2>1. PICK t \in Token : t = refresh[d]
    BY <1>0
  <2>2. PICK a \in Token : a = access[d]
    BY <1>0
  <2>3. refresh'[d] = t /\ access'[d] = a
    BY <1>0, <1>3, <2>1, <2>2, OwnSteps
  <2>4. Given(t, RequestTime + RefreshTtl)' /\ Given(a, TokensLast)'
    BY <1>0, <2>1, <2>2, GivenStays
  <2> QED BY <2>3, <2>4 DEF Given, LastAdmin
<1> QED BY <1>1, <1>2, <1>3

\* The invariant holds at first: nobody holds a token.
LEMMA InitIInv == Init => IInv
<1> SUFFICES ASSUME Init PROVE IInv
  OBVIOUS
<1>1. NoToken \in Token
  BY DEF NoToken, Token, Roles
<1>2. TypeOK
  BY <1>1 DEF Init, TypeOK, NoRequest, Roles
<1>3. Clock /\ Requests /\ DataSigned /\ Checked
  BY DEF Init, Clock, Requests, DataSigned, Checked, NoRequest
<1>4. \A l : Given(NoToken, l)
  BY DEF NoToken, Given
<1>5. \A d \in Devices : refresh[d] = NoToken /\ access[d] = NoToken
  BY DEF Init
<1> QED BY <1>2, <1>3, <1>4, <1>5 DEF IInv

\* The invariant the properties follow from: a token bears the role and the
\* presence that its login saw (service/auth.go:79-131).
THEOREM Invariance == Spec => []IInv
<1>1. ASSUME IInv, [Next]_vars PROVE IInv'
  <2>1. TypeOK /\ Clock /\ Requests /\ DataSigned /\ Checked
    BY <1>1 DEF IInv
  <2>2. TypeOK' /\ Clock' /\ Requests' /\ DataSigned' /\ Checked'
    BY <1>1, <2>1, TypeStep, Onward, RequestsStep, DataStep, CheckedStep
  <2>3. \A d \in Devices : /\ Given(refresh[d], RequestTime + RefreshTtl)'
                            /\ Given(access[d], TokensLast)'
    BY <1>1, TokensStep
  <2> QED BY <2>2, <2>3 DEF IInv
<1> QED BY InitIInv, <1>1, PTL DEF Spec

\* Every variable keeps its type.
THEOREM TypeCorrect == Spec => []TypeOK
<1>1. IInv => TypeOK
  BY DEF IInv
<1> QED BY Invariance, <1>1, PTL

\* A refresh prolongs no role (service/auth.go:115-131).
THEOREM RolesExpire == Spec => []AdminsWereAdmins
<1>1. ASSUME IInv PROVE AdminsWereAdmins
  <2> SUFFICES ASSUME NEW d \in Devices, AdminAuthToken(d)
               PROVE  /\ LastAdmin(access[d].user) # 0
                      /\ now < LastAdmin(access[d].user) + TokensLast
    BY DEF AdminsWereAdmins
  <2>1. /\ now < access[d].exp
        /\ access[d].role = "admin"
    BY DEF AdminAuthToken, AuthToken, Valid
  <2>2. /\ access[d].exp # 0
        /\ access[d].user \in Users
        /\ LastAdmin(access[d].user) # 0
        /\ access[d].exp <= LastAdmin(access[d].user) + TokensLast
    BY <1>1, <2>1 DEF IInv, Given
  <2>3. /\ now \in Nat /\ access[d].exp \in Nat /\ TokensLast \in Nat
        /\ LastAdmin(access[d].user) \in Nat
    BY <1>1, <2>2, DurationsAssumption
       DEF IInv, TypeOK, Token, TokensLast, LastAdmin
  <2> QED BY <2>1, <2>2, <2>3
<1> QED BY Invariance, <1>1, PTL

\* No chain of logins and refreshes outlasts the person's last visit by more than
\* the lifetimes of what it was made of (service/auth.go:62-131).
THEOREM VisitsExpire == Spec => []PersonWasThere
<1>1. ASSUME IInv PROVE PersonWasThere
  <2> SUFFICES ASSUME NEW d \in Devices, UserAuthToken(d)
               PROVE  /\ present[access[d].user] # 0
                      /\ now < present[access[d].user] + TelegramExpireDuration
                                 + TokensLast
    BY DEF PersonWasThere
  <2>1. now < access[d].exp
    BY DEF UserAuthToken, AuthToken, Valid
  <2>2. now \in Nat /\ access[d].exp \in Nat /\ TokensLast \in Nat
    BY <1>1, DurationsAssumption DEF IInv, TypeOK, Token, TokensLast
  <2>3. /\ access[d].user \in Users
        /\ present[access[d].user] # 0
        /\ access[d].exp
              <= present[access[d].user] + TelegramExpireDuration + TokensLast
    BY <1>1, <2>1, <2>2 DEF IInv, Given
  <2>4. present[access[d].user] \in Nat
    BY <1>1, <2>3 DEF IInv, TypeOK
  <2> QED BY <2>1, <2>2, <2>3, <2>4, DurationsAssumption
<1> QED BY Invariance, <1>1, PTL
=============================================================================
