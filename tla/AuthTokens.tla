----------------------------- MODULE AuthTokens -----------------------------
(***************************************************************************)
(* How long a role outlives its change.  A login reads the role from the  *)
(* database once and signs it into an access token and a refresh token; a *)
(* refresh copies it from the refresh token, and the middlewares look at  *)
(* the access token alone.                                                 *)
(*                                                                         *)
(* A device keeps what it was last given and has one request under way; a *)
(* client that keeps more is several devices.  Time is counted in hours,  *)
(* from 1; signatures cannot be forged and are left out.                   *)
(***************************************************************************)
EXTENDS Naturals

CONSTANTS
    Users, Nobody,
    Devices,
    AccessTtl, RefreshTtl, TelegramExpireDuration,  \* conf.Auth
    RequestTime,    \* what a login or a refresh takes at most
    MaxTime         \* bound on the clock

ASSUME NobodyAssumption == Nobody \notin Users
ASSUME DurationsAssumption ==
    /\ AccessTtl \in Nat /\ RefreshTtl \in Nat
    /\ TelegramExpireDuration \in Nat \ {0} /\ RequestTime \in Nat
    /\ MaxTime \in Nat

VARIABLES
    now,
    role,       \* users.admin, or "none" for a person without a row
    data,       \* the signed data of Telegram that a device holds
    access,     \* its access token
    refresh,    \* its refresh token
    request,    \* its request: how far it has come, when it began, the role found
    wasAdmin,   \* when a user last stopped being an admin, or 0 (history)
    present     \* when a person last opened the application, or 0 (history)

vars == <<now, role, data, access, refresh, request, wasAdmin, present>>

Roles == {"user", "admin"}

Token == [user : Users \union {Nobody}, role : Roles, exp : Nat]

NoToken == [user |-> Nobody, role |-> "user", exp |-> 0]

NoRequest == [step |-> "idle", since |-> 0, role |-> "user"]

TypeOK ==
    /\ now \in Nat
    /\ role \in [Users -> Roles \union {"none"}]
    /\ data \in [Devices -> [user : Users \union {Nobody}, at : Nat]]
    /\ access \in [Devices -> Token]
    /\ refresh \in [Devices -> Token]
    /\ request \in [Devices -> [step : {"idle", "verified", "found", "parsed"},
                                since : Nat, role : Roles]]
    /\ wasAdmin \in [Users -> Nat]
    /\ present \in [Users -> Nat]

Init ==
    /\ now = 1
    /\ role = [u \in Users |-> "none"]
    /\ data = [d \in Devices |-> [user |-> Nobody, at |-> 0]]
    /\ access = [d \in Devices |-> NoToken]
    /\ refresh = [d \in Devices |-> NoToken]
    /\ request = [d \in Devices |-> NoRequest]
    /\ wasAdmin = [u \in Users |-> 0]
    /\ present = [u \in Users |-> 0]

Begins(d, s) ==
    /\ request[d].step = "idle"
    /\ request' = [request EXCEPT
                    ![d] = [step |-> s, since |-> now, role |-> "user"]]

Ends(d, s) ==
    /\ request[d].step = s
    /\ request' = [request EXCEPT ![d] = NoRequest]

\* jwt.ParseToken refuses an expired token.
Valid(token) == now < token.exp

\* jwt.GenerateToken.
GenerateToken(u, r, ttl) == [user |-> u, role |-> r, exp |-> now + ttl]

-----------------------------------------------------------------------------
(* People and admins. *)

\* Telegram signs who opens the application, and when.
OpenApplication(d, u) ==
    /\ request[d].step = "idle"
    /\ data' = [data EXCEPT ![d] = [user |-> u, at |-> now]]
    /\ present' = [present EXCEPT ![u] = now]
    /\ UNCHANGED <<now, role, access, refresh, request, wasAdmin>>

Register(u) ==
    /\ role[u] = "none"
    /\ role' = [role EXCEPT ![u] = "user"]
    /\ UNCHANGED <<now, data, access, refresh, request, wasAdmin, present>>

SetUserAdminStatus(u, r) ==
    /\ role[u] \in Roles \ {r}
    /\ role' = [role EXCEPT ![u] = r]
    /\ wasAdmin' = IF r = "user" THEN [wasAdmin EXCEPT ![u] = now] ELSE wasAdmin
    /\ UNCHANGED <<now, data, access, refresh, request, present>>

\* An hour passes; no request takes longer than RequestTime.
Tick ==
    /\ now < MaxTime
    /\ \A d \in Devices :
        request[d].step # "idle" => now < request[d].since + RequestTime
    /\ now' = now + 1
    /\ UNCHANGED <<role, data, access, refresh, request, wasAdmin, present>>

-----------------------------------------------------------------------------
(* LoginByTelegram. *)

\* Mutant: nobody looks at the age of the data.
BugNoAuthDate(d) ==
    /\ Begins(d, "verified")
    /\ data[d].at # 0
    /\ UNCHANGED <<now, role, data, access, refresh, wasAdmin, present>>

\* The age is looked at since the configuration demands a lifetime.
VerifyTelegramInitData(d) ==
    /\ Begins(d, "verified")
    /\ data[d].at # 0
    /\ now <= data[d].at + TelegramExpireDuration
    /\ UNCHANGED <<now, role, data, access, refresh, wasAdmin, present>>

\* Mutant: a person without a row is taken for a user.
BugNoRow(d) ==
    /\ request[d].step = "verified"
    /\ request' = [request EXCEPT ![d].step = "found",
                                  ![d].role = role[data[d].user]]
    /\ UNCHANGED <<now, role, data, access, refresh, wasAdmin, present>>

GetUserByTelegramId(d) ==
    /\ request[d].step = "verified"
    /\ role[data[d].user] # "none"
    /\ request' = [request EXCEPT ![d].step = "found",
                                  ![d].role = role[data[d].user]]
    /\ UNCHANGED <<now, role, data, access, refresh, wasAdmin, present>>

\* Both tokens are generated, one right after the other.
LoginByTelegram(d) ==
    /\ Ends(d, "found")
    /\ access' = [access EXCEPT ![d] =
                    GenerateToken(data[d].user, request[d].role, AccessTtl)]
    /\ refresh' = [refresh EXCEPT ![d] =
                    GenerateToken(data[d].user, request[d].role, RefreshTtl)]
    /\ UNCHANGED <<now, role, data, wasAdmin, present>>

-----------------------------------------------------------------------------
(* RefreshAccessToken. *)

ParseRefreshToken(d) ==
    /\ Begins(d, "parsed")
    /\ Valid(refresh[d])
    /\ UNCHANGED <<now, role, data, access, refresh, wasAdmin, present>>

\* Mutant: the refresh token is renewed as well.
BugRenewBoth(d) ==
    /\ Ends(d, "parsed")
    /\ access' = [access EXCEPT ![d] =
                    GenerateToken(refresh[d].user, refresh[d].role, AccessTtl)]
    /\ refresh' = [refresh EXCEPT ![d].exp = now + RefreshTtl]
    /\ UNCHANGED <<now, role, data, wasAdmin, present>>

\* The role is the one of the refresh token; the database is not asked.
RefreshAccessToken(d) ==
    /\ Ends(d, "parsed")
    /\ access' = [access EXCEPT ![d] =
                    GenerateToken(refresh[d].user, refresh[d].role, AccessTtl)]
    /\ UNCHANGED <<now, role, data, refresh, wasAdmin, present>>

\* Data that do not parse, a user who is not there, a statement that fails, or
\* an answer that is lost.
Fail(d) ==
    /\ request[d].step # "idle"
    /\ request' = [request EXCEPT ![d] = NoRequest]
    /\ UNCHANGED <<now, role, data, access, refresh, wasAdmin, present>>

-----------------------------------------------------------------------------
(* The middlewares. *)

AuthToken(d, roles) == Valid(access[d]) /\ access[d].role \in roles

AdminAuthToken(d) == AuthToken(d, {"admin"})

UserAuthToken(d) == AuthToken(d, {"user", "admin"})

-----------------------------------------------------------------------------

DeviceStep(d) ==
    \/ VerifyTelegramInitData(d) \/ GetUserByTelegramId(d) \/ LoginByTelegram(d)
    \/ ParseRefreshToken(d) \/ RefreshAccessToken(d) \/ Fail(d)
    \/ \E u \in Users : OpenApplication(d, u)

Next ==
    \/ Tick
    \/ \E d \in Devices : DeviceStep(d)
    \/ \E u \in Users : Register(u) \/ \E r \in Roles : SetUserAdminStatus(u, r)

Spec == Init /\ [][Next]_vars

-----------------------------------------------------------------------------
(* Properties. *)

\* A role read in one request and copied in another lives through both tokens
\* and both requests.
TokensLast == RefreshTtl + AccessTtl + 2 * RequestTime

LastAdmin(u) == IF role[u] = "admin" THEN now ELSE wasAdmin[u]

\* Whoever the admins' middleware lets through is an admin or was one within the
\* lifetimes of the two tokens: a refresh can be repeated, but does not prolong
\* the role that the login read (service/auth.go:79-131).
AdminsWereAdmins ==
    \A d \in Devices :
        AdminAuthToken(d) =>
            /\ LastAdmin(access[d].user) # 0
            /\ now < LastAdmin(access[d].user) + TokensLast

\* Whoever is let through at all opened the application within the lifetimes of
\* the data and of the two tokens (service/auth.go:62-131,
\* 162-201).
PersonWasThere ==
    \A d \in Devices :
        UserAuthToken(d) =>
            /\ present[access[d].user] # 0
            /\ now < present[access[d].user] + TelegramExpireDuration + TokensLast
=============================================================================
