-------------------------- MODULE UserAdminProofs --------------------------
(***************************************************************************)
(* Proofs for UserAdmin.  A chat belongs to one user for ever, which makes *)
(* roles personal; and unless another command about the same user, or a   *)
(* registration of the routes, is under way, a call knows the role it has *)
(* just set, and gives the chat the menu of that role.                     *)
(***************************************************************************)
EXTENDS UserAdmin, TLAPS

\* Who has a chat is a user.
ChatsOfUsers == \A n \in Names : chat[n] # "nobody" => n \in users

\* A chat is the chat of one user.
OneUserPerChat ==
    \A m, n \in Names : chat[m] = chat[n] /\ chat[m] # "nobody" => m = n

\* The chat that a call has found is still that of its user.
FoundChat ==
    \A c \in Calls : call[c].step = "found" =>
        /\ call[c].found = chat[call[c].about]
        /\ call[c].found # "nobody"

Chats == TypeOK /\ ChatsOfUsers /\ OneUserPerChat /\ FoundChat

\* The history variables tell of every overlap, and there are no calls while
\* the process is down.
Apart ==
    /\ \A c, d \in Calls :
        /\ c # d
        /\ call[c].step \in InProgress
        /\ call[d].step \in InProgress
        /\ call[c].about = call[d].about
        => call[c].about \in tangled
    /\ \A c \in Calls : call[c].step \in InProgress =>
        /\ serving
        /\ routes # "idle" => call[c].about \in crossed

\* A call that has set a role finds it as it set it.
RoleAsSet ==
    \A c \in Calls : call[c].about \notin tangled =>
        /\ call[c].step = "set" =>
            call[c].kind # "secret" /\ (call[c].about \in admin <=> call[c].kind = "add")
        /\ call[c].step = "found" =>
            (call[c].about \in admin <=> call[c].kind # "remove")

\* Nobody else has the menu, whatever the process is doing.
MenuOfAdmins ==
    \A p \in menu : IsAdmin(p) \/ Unsettled(p) \/ p \in Of(tangled)

\* Every admin has the menu, or will have it when the routes are registered.
AdminsHaveMenu ==
    /\ \A p \in People : IsAdmin(p) =>
        /\ routes = "read" => p \in todo \/ p \in Of(crossed)
        /\ routes = "setting" => p \in menu \union todo \/ p \in Of(crossed)
        /\ serving /\ routes = "idle" => p \in menu \/ Unsettled(p) \/ p \in Of(tangled)
    /\ \A p \in todo : IsAdmin(p) \/ p \in Of(crossed)
    /\ routes = "idle" => todo = {}

Orderly == Apart /\ RoleAsSet /\ MenuOfAdmins /\ AdminsHaveMenu

IInv == Chats /\ Orderly

-----------------------------------------------------------------------------
LEMMA InitIsGood == ASSUME Init PROVE IInv
BY NamesAssumption DEF Init, IInv, Chats, TypeOK, ChatsOfUsers, OneUserPerChat,
    FoundChat, Orderly, Apart, RoleAsSet, MenuOfAdmins, AdminsHaveMenu, AtRest,
    InProgress, IsAdmin, Of

LEMMA TypeStep == ASSUME Chats, [Next]_vars PROVE TypeOK'
<1>0. TypeOK
    BY DEF Chats
<1>1. CASE UNCHANGED vars
    BY <1>0, <1>1 DEF vars, TypeOK
<1>2. ASSUME NEW c \in Calls, NEW k \in {"add", "remove", "secret"}, NEW n \in Names,
             Issue(c, k, n)
      PROVE  TypeOK'
    BY <1>0, <1>2, NamesAssumption DEF Issue, TypeOK, InProgress, AtRest,
        process, tables
<1>3. ASSUME NEW c \in Calls, SetUserAdminStatus(c)
      PROVE  TypeOK'
    BY <1>0, <1>3, NamesAssumption DEF SetUserAdminStatus, TypeOK, InProgress,
        process, Unchanged, overlaps
<1>4. ASSUME NEW c \in Calls, AddAdminChatId(c)
      PROVE  TypeOK'
  <2>1. call[c].about \in Names /\ chat[call[c].about] \in People \union {"nobody"}
    BY <1>0 DEF TypeOK
  <2>2. call' \in [Calls -> [step : {"rest", "failed"} \union InProgress,
                           kind : {"add", "remove", "secret"},
                           about : Names,
                           found : People \union {"nobody"}]]
    BY <1>0, <1>4, <2>1 DEF AddAdminChatId, ChatFound, TypeOK, InProgress,
        overlaps
  <2>3. QED
    BY <1>0, <1>4, <2>1, <2>2 DEF AddAdminChatId, TypeOK, ChatsOfUsers, Chats,
        process, Unchanged, overlaps
<1>5. ASSUME NEW c \in Calls, GetUserChatIdByUsername(c)
      PROVE  TypeOK'
  <2>1. call[c].about \in Names /\ chat[call[c].about] \in People \union {"nobody"}
    BY <1>0 DEF TypeOK
  <2>2. call' \in [Calls -> [step : {"rest", "failed"} \union InProgress,
                           kind : {"add", "remove", "secret"},
                           about : Names,
                           found : People \union {"nobody"}]]
    BY <1>0, <1>5, <2>1 DEF GetUserChatIdByUsername, ChatFound, TypeOK,
        InProgress, overlaps
  <2>3. QED
    BY <1>0, <1>5, <2>1, <2>2 DEF GetUserChatIdByUsername, TypeOK, process,
        Unchanged, overlaps
<1>6. ASSUME NEW c \in Calls, UserNotFound(c)
      PROVE  TypeOK'
    BY <1>0, <1>6, NamesAssumption DEF UserNotFound, TypeOK, AtRest, process,
        Unchanged, overlaps
<1>7. ASSUME NEW c \in Calls, ChangeMenu(c)
      PROVE  TypeOK'
    BY <1>0, <1>7, NamesAssumption DEF ChangeMenu, Chats, FoundChat, TypeOK,
        AtRest, process, Unchanged, overlaps
<1>8. ASSUME NEW c \in Calls, Fail(c)
      PROVE  TypeOK'
    BY <1>0, <1>8, NamesAssumption DEF Fail, TypeOK, AtRest, Fails, process,
        Unchanged, overlaps
<1>9. ASSUME NEW p \in People, NEW n \in Names, Register(p, n)
      PROVE  TypeOK'
    BY <1>0, <1>9, NamesAssumption DEF Register, TypeOK, process, overlaps
<1>10. CASE GetTelegramUsersInfo
    BY <1>0, <1>10, NamesAssumption DEF GetTelegramUsersInfo, TypeOK, tables,
        AdminsChatsIds, overlaps, About
<1>11. CASE ClearAllCommands
    BY <1>0, <1>11, NamesAssumption DEF ClearAllCommands, TypeOK, tables,
        overlaps
<1>12. ASSUME NEW p \in People, SetAdminCommands(p)
      PROVE  TypeOK'
    BY <1>0, <1>12, NamesAssumption DEF SetAdminCommands, TypeOK, tables,
        overlaps
<1>13. CASE RoutesRegistered
    BY <1>0, <1>13, NamesAssumption DEF RoutesRegistered, TypeOK, tables,
        overlaps
<1>14. CASE Crash
    BY <1>0, <1>14, NamesAssumption DEF Crash, TypeOK, AtRest, Fails, tables,
        overlaps
<1>15. QED
    BY <1>1, <1>2, <1>3, <1>4, <1>5, <1>6, <1>7, <1>8, <1>9, <1>10,
        <1>11, <1>12, <1>13, <1>14 DEF Next, CallStep, RoutesStep

LEMMA ChatsStep == ASSUME Chats, [Next]_vars PROVE Chats'
<1> DEFINE Rest == ChatsOfUsers /\ OneUserPerChat /\ FoundChat
<1>0. TypeOK /\ ChatsOfUsers /\ OneUserPerChat /\ FoundChat
    BY DEF Chats
<1>t. TypeOK'
    BY TypeStep
<1>1. ASSUME UNCHANGED vars PROVE Rest'
    BY <1>0, <1>1 DEF vars, ChatsOfUsers, OneUserPerChat, FoundChat
<1>2. ASSUME NEW c \in Calls, NEW k \in {"add", "remove", "secret"}, NEW n \in Names,
             Issue(c, k, n)
      PROVE  Rest'
  <2>1. ChatsOfUsers' /\ OneUserPerChat'
    BY <1>0, <1>2 DEF Issue, ChatsOfUsers, OneUserPerChat, tables, process
  <2>2. FoundChat'
    BY <1>0, <1>2 DEF Issue, FoundChat, tables, process
  <2>3. QED
    BY <2>1, <2>2
<1>3. ASSUME NEW c \in Calls, SetUserAdminStatus(c)
      PROVE  Rest'
  <2>1. ChatsOfUsers' /\ OneUserPerChat'
    BY <1>0, <1>3 DEF SetUserAdminStatus, Unchanged, ChatsOfUsers,
        OneUserPerChat, overlaps
  <2>2. FoundChat'
    BY <1>0, <1>3 DEF SetUserAdminStatus, Unchanged, FoundChat, overlaps
  <2>3. QED
    BY <2>1, <2>2
<1>4. ASSUME NEW c \in Calls, AddAdminChatId(c)
      PROVE  Rest'
  <2>1. ChatsOfUsers' /\ OneUserPerChat'
    BY <1>0, <1>4 DEF AddAdminChatId, Unchanged, ChatsOfUsers, OneUserPerChat,
        overlaps
  <2>2. FoundChat'
    BY <1>0, <1>4 DEF AddAdminChatId, ChatFound, Unchanged, FoundChat, overlaps
  <2>3. QED
    BY <2>1, <2>2
<1>5. ASSUME NEW c \in Calls, GetUserChatIdByUsername(c)
      PROVE  Rest'
  <2>1. ChatsOfUsers' /\ OneUserPerChat'
    BY <1>0, <1>5 DEF GetUserChatIdByUsername, Unchanged, ChatsOfUsers,
        OneUserPerChat, overlaps
  <2>2. FoundChat'
    BY <1>0, <1>5 DEF GetUserChatIdByUsername, ChatFound, Unchanged, FoundChat,
        overlaps
  <2>3. QED
    BY <2>1, <2>2
<1>6. ASSUME NEW c \in Calls, UserNotFound(c)
      PROVE  Rest'
  <2>1. ChatsOfUsers' /\ OneUserPerChat'
    BY <1>0, <1>6 DEF UserNotFound, Unchanged, ChatsOfUsers, OneUserPerChat,
        overlaps
  <2>2. FoundChat'
    BY <1>0, <1>6 DEF UserNotFound, AtRest, Unchanged, FoundChat
  <2>3. QED
    BY <2>1, <2>2
<1>7. ASSUME NEW c \in Calls, ChangeMenu(c)
      PROVE  Rest'
  <2>1. ChatsOfUsers' /\ OneUserPerChat'
    BY <1>0, <1>7 DEF ChangeMenu, Unchanged, ChatsOfUsers, OneUserPerChat,
        overlaps
  <2>2. FoundChat'
    BY <1>0, <1>7 DEF ChangeMenu, AtRest, Unchanged, FoundChat, overlaps
  <2>3. QED
    BY <2>1, <2>2
<1>8. ASSUME NEW c \in Calls, Fail(c)
      PROVE  Rest'
  <2>1. ChatsOfUsers' /\ OneUserPerChat'
    BY <1>0, <1>8 DEF Fail, Unchanged, ChatsOfUsers, OneUserPerChat, overlaps
  <2>2. FoundChat'
    BY <1>0, <1>8 DEF Fail, Fails, Unchanged, FoundChat, overlaps
  <2>3. QED
    BY <2>1, <2>2
<1>9. ASSUME NEW p \in People, NEW n \in Names, Register(p, n)
      PROVE  Rest'
  <2>1. ChatsOfUsers' /\ OneUserPerChat'
    BY <1>0, <1>9 DEF Register, Registered, ChatsOfUsers, OneUserPerChat,
        overlaps
  <2>2. FoundChat'
    BY <1>0, <1>9 DEF Register, TypeOK, ChatsOfUsers, FoundChat, overlaps
  <2>3. QED
    BY <2>1, <2>2
<1>10. ASSUME GetTelegramUsersInfo PROVE Rest'
    BY <1>0, <1>10 DEF GetTelegramUsersInfo, tables, ChatsOfUsers,
        OneUserPerChat, FoundChat, overlaps, About
<1>11. ASSUME ClearAllCommands PROVE Rest'
    BY <1>0, <1>11 DEF ClearAllCommands, tables, ChatsOfUsers, OneUserPerChat,
        FoundChat, overlaps
<1>12. ASSUME NEW p \in People, SetAdminCommands(p)
      PROVE  Rest'
    BY <1>0, <1>12 DEF SetAdminCommands, tables, ChatsOfUsers, OneUserPerChat,
        FoundChat, overlaps
<1>13. ASSUME RoutesRegistered PROVE Rest'
    BY <1>0, <1>13 DEF RoutesRegistered, tables, ChatsOfUsers, OneUserPerChat,
        FoundChat, overlaps
<1>14. ASSUME Crash PROVE Rest'
  <2>1. ChatsOfUsers' /\ OneUserPerChat'
    BY <1>0, <1>14 DEF Crash, tables, ChatsOfUsers, OneUserPerChat, overlaps
  <2>2. FoundChat'
    BY <1>0, <1>14 DEF Crash, AtRest, Fails, TypeOK, FoundChat, overlaps
  <2>3. QED
    BY <2>1, <2>2
<1>15. QED
    BY <1>t, <1>1, <1>2, <1>3, <1>4, <1>5, <1>6, <1>7, <1>8, <1>9, <1>10,
        <1>11, <1>12, <1>13, <1>14 DEF Next, CallStep, RoutesStep,
        Chats

LEMMA RoleKept ==
    ASSUME Chats, [Next]_vars, NEW who \in People,
           ~\E c \in Calls : chat[call[c].about] = who /\ call[c].step = "issued"
    PROVE  IsAdmin(who)' <=> IsAdmin(who)
<1>0. /\ TypeOK /\ ChatsOfUsers /\ OneUserPerChat
      /\ \A c \in Calls : call[c].step = "issued" => chat[call[c].about] # who
      /\ who # "nobody"
    BY NamesAssumption DEF Chats
<1>1. ASSUME UNCHANGED vars PROVE (IsAdmin(who)' <=> IsAdmin(who))
    BY <1>0, <1>1 DEF vars, IsAdmin
<1>2. ASSUME NEW c \in Calls, NEW k \in {"add", "remove", "secret"}, NEW n \in Names,
             Issue(c, k, n)
      PROVE  (IsAdmin(who)' <=> IsAdmin(who))
    BY <1>0, <1>2 DEF Issue, IsAdmin, tables, process
<1>3. ASSUME NEW c \in Calls, SetUserAdminStatus(c)
      PROVE  (IsAdmin(who)' <=> IsAdmin(who))
    BY <1>0, <1>3 DEF SetUserAdminStatus, Unchanged, IsAdmin, overlaps
<1>4. ASSUME NEW c \in Calls, AddAdminChatId(c)
      PROVE  (IsAdmin(who)' <=> IsAdmin(who))
    BY <1>0, <1>4 DEF AddAdminChatId, Unchanged, IsAdmin, overlaps
<1>5. ASSUME NEW c \in Calls, GetUserChatIdByUsername(c)
      PROVE  (IsAdmin(who)' <=> IsAdmin(who))
    BY <1>0, <1>5 DEF GetUserChatIdByUsername, Unchanged, IsAdmin, overlaps
<1>6. ASSUME NEW c \in Calls, UserNotFound(c)
      PROVE  (IsAdmin(who)' <=> IsAdmin(who))
    BY <1>0, <1>6 DEF UserNotFound, Unchanged, IsAdmin, overlaps
<1>7. ASSUME NEW c \in Calls, ChangeMenu(c)
      PROVE  (IsAdmin(who)' <=> IsAdmin(who))
    BY <1>0, <1>7 DEF ChangeMenu, Unchanged, IsAdmin, overlaps
<1>8. ASSUME NEW c \in Calls, Fail(c)
      PROVE  (IsAdmin(who)' <=> IsAdmin(who))
    BY <1>0, <1>8 DEF Fail, Unchanged, IsAdmin, overlaps
<1>9. ASSUME NEW p \in People, NEW n \in Names, Register(p, n)
      PROVE  (IsAdmin(who)' <=> IsAdmin(who))
    BY <1>0, <1>9 DEF Register, TypeOK, IsAdmin, overlaps
<1>10. ASSUME GetTelegramUsersInfo PROVE (IsAdmin(who)' <=> IsAdmin(who))
    BY <1>0, <1>10 DEF GetTelegramUsersInfo, tables, IsAdmin, overlaps, About
<1>11. ASSUME ClearAllCommands PROVE (IsAdmin(who)' <=> IsAdmin(who))
    BY <1>0, <1>11 DEF ClearAllCommands, tables, IsAdmin, overlaps
<1>12. ASSUME NEW p \in People, SetAdminCommands(p)
      PROVE  (IsAdmin(who)' <=> IsAdmin(who))
    BY <1>0, <1>12 DEF SetAdminCommands, tables, IsAdmin, overlaps
<1>13. ASSUME RoutesRegistered PROVE (IsAdmin(who)' <=> IsAdmin(who))
    BY <1>0, <1>13 DEF RoutesRegistered, tables, IsAdmin, overlaps
<1>14. ASSUME Crash PROVE (IsAdmin(who)' <=> IsAdmin(who))
    BY <1>0, <1>14 DEF Crash, tables, IsAdmin, overlaps
<1>15. QED
    BY <1>1, <1>2, <1>3, <1>4, <1>5, <1>6, <1>7, <1>8, <1>9, <1>10,
        <1>11, <1>12, <1>13, <1>14 DEF Next, CallStep, RoutesStep

LEMMA OrderlyStep ==
    ASSUME Chats, Orderly, [Next]_vars
    PROVE  Orderly'
<1> DEFINE Kept == Apart /\ RoleAsSet /\ MenuOfAdmins /\ AdminsHaveMenu
<1>0. /\ TypeOK /\ ChatsOfUsers /\ OneUserPerChat /\ FoundChat
      /\ Kept
      /\ "nobody" \notin People
    BY NamesAssumption DEF Chats, Orderly
<1>1. ASSUME UNCHANGED vars PROVE Kept'
    BY <1>0, <1>1 DEF vars, Apart, RoleAsSet, MenuOfAdmins, AdminsHaveMenu,
        IsAdmin, Of, Unsettled
<1>2. ASSUME NEW c \in Calls, NEW k \in {"add", "remove", "secret"}, NEW n \in Names,
             Issue(c, k, n)
      PROVE  Kept'
  <2>1. Apart'
    BY <1>0, <1>2 DEF Issue, About, AtRest, InProgress, overlaps, process,
        Apart, tables
  <2>2. RoleAsSet'
    BY <1>0, <1>2 DEF Issue, About, AtRest, InProgress, RoleAsSet, tables,
        process
  <2>3. MenuOfAdmins'
    BY <1>0, <1>2 DEF Issue, About, AtRest, InProgress, overlaps, MenuOfAdmins,
        IsAdmin, Of, Unsettled, tables, process
  <2>4. AdminsHaveMenu'
    BY <1>0, <1>2 DEF Issue, About, AtRest, InProgress, overlaps, process,
        AdminsHaveMenu, IsAdmin, Of, Unsettled, tables
  <2>5. QED
    BY <2>1, <2>2, <2>3, <2>4
<1>3. ASSUME NEW c \in Calls, SetUserAdminStatus(c)
      PROVE  Kept'
  <2>1. Apart'
    BY <1>0, <1>3 DEF SetUserAdminStatus, Unchanged, overlaps, process, Apart,
        InProgress
  <2>2. RoleAsSet'
    BY <1>0, <1>3 DEF SetUserAdminStatus, Apart, RoleAsSet, InProgress,
        Unchanged, overlaps, TypeOK
  <2>3. ASSUME NEW p \in People, chat[call[c].about] # p
        PROVE  (IsAdmin(p)' <=> IsAdmin(p)) /\ (Unsettled(p) => Unsettled(p)')
    <3>1. IsAdmin(p)' <=> IsAdmin(p)
      BY <1>0, <1>3, <2>3 DEF SetUserAdminStatus, Unchanged, IsAdmin
    <3>2. Unsettled(p) => Unsettled(p)'
      BY <1>0, <1>3, <2>3 DEF SetUserAdminStatus, Unchanged, Unsettled
    <3>3. QED
      BY <3>1, <3>2
  <2>4. ASSUME NEW p \in People, chat[call[c].about] = p
        PROVE  Unsettled(p)' /\ (routes # "idle" => p \in Of(crossed))
    <3>1. call'[c].step = "set" /\ chat'[call'[c].about] = p
      BY <1>0, <1>3, <2>4 DEF SetUserAdminStatus, Unchanged, TypeOK
    <3>2. routes # "idle" => call[c].about \in crossed
      BY <1>0, <1>3 DEF SetUserAdminStatus, Apart, InProgress
    <3>3. QED
      BY <2>4, <3>1, <3>2 DEF Unsettled, Of
  <2>5. /\ menu' = menu /\ todo' = todo /\ serving' = serving /\ routes' = routes
        /\ Of(tangled)' = Of(tangled) /\ Of(crossed)' = Of(crossed)
    BY <1>3 DEF SetUserAdminStatus, Unchanged, process, overlaps, Of
  <2>6. MenuOfAdmins'
    BY <1>0, <2>3, <2>4, <2>5 DEF TypeOK, MenuOfAdmins
  <2>7. AdminsHaveMenu'
    BY <1>0, <2>3, <2>4, <2>5 DEF TypeOK, AdminsHaveMenu
  <2>8. QED
    BY <2>1, <2>2, <2>6, <2>7
<1>4. ASSUME NEW c \in Calls, AddAdminChatId(c)
      PROVE  Kept'
  <2>1. Apart'
    BY <1>0, <1>4 DEF AddAdminChatId, ChatFound, Unchanged, overlaps, process,
        Apart, InProgress
  <2>2. RoleAsSet'
    BY <1>0, <1>4 DEF AddAdminChatId, ChatFound, Apart, RoleAsSet, InProgress,
        Unchanged, overlaps, TypeOK
  <2>3. MenuOfAdmins'
    BY <1>0, <1>4 DEF AddAdminChatId, Unchanged, overlaps, MenuOfAdmins,
        IsAdmin, Of, Unsettled
  <2>4. AdminsHaveMenu'
    BY <1>0, <1>4 DEF AddAdminChatId, ChatFound, Unchanged, overlaps, process,
        TypeOK, Apart, AdminsHaveMenu, IsAdmin, Of, Unsettled
  <2>5. QED
    BY <2>1, <2>2, <2>3, <2>4
<1>5. ASSUME NEW c \in Calls, GetUserChatIdByUsername(c)
      PROVE  Kept'
  <2>1. Apart'
    BY <1>0, <1>5 DEF GetUserChatIdByUsername, ChatFound, Unchanged, overlaps,
        process, Apart, InProgress
  <2>2. RoleAsSet'
    BY <1>0, <1>5 DEF GetUserChatIdByUsername, ChatFound, TypeOK, RoleAsSet,
        Unchanged, overlaps
  <2>3. MenuOfAdmins'
    BY <1>0, <1>5 DEF GetUserChatIdByUsername, ChatFound, Unchanged, overlaps,
        MenuOfAdmins, IsAdmin, Of, Unsettled
  <2>4. AdminsHaveMenu'
    BY <1>0, <1>5 DEF GetUserChatIdByUsername, ChatFound, Unchanged, overlaps,
        process, AdminsHaveMenu, IsAdmin, Of, Unsettled
  <2>5. QED
    BY <2>1, <2>2, <2>3, <2>4
<1>6. ASSUME NEW c \in Calls, UserNotFound(c)
      PROVE  Kept'
  <2>1. Apart'
    BY <1>0, <1>6 DEF UserNotFound, AtRest, Unchanged, overlaps, process,
        Apart, InProgress
  <2>2. RoleAsSet'
    BY <1>0, <1>6 DEF UserNotFound, AtRest, Unchanged, overlaps, RoleAsSet
  <2>3. MenuOfAdmins'
    BY <1>0, <1>6 DEF UserNotFound, Unchanged, overlaps, TypeOK, MenuOfAdmins,
        IsAdmin, Of, Unsettled
  <2>4. AdminsHaveMenu'
    BY <1>0, <1>6 DEF UserNotFound, Unchanged, overlaps, process,
        AdminsHaveMenu, IsAdmin, Of, Unsettled
  <2>5. QED
    BY <2>1, <2>2, <2>3, <2>4
<1>7. ASSUME NEW c \in Calls, ChangeMenu(c)
      PROVE  Kept'
  <2>1. Apart'
    BY <1>0, <1>7 DEF ChangeMenu, AtRest, Unchanged, overlaps, process, Apart,
        InProgress
  <2>2. RoleAsSet'
    BY <1>0, <1>7 DEF ChangeMenu, AtRest, Unchanged, overlaps, RoleAsSet
  <2>3. /\ todo' = todo /\ serving' = serving /\ routes' = routes
        /\ Of(tangled)' = Of(tangled) /\ Of(crossed)' = Of(crossed)
    BY <1>7 DEF ChangeMenu, Unchanged, process, overlaps, Of
  <2>4. ASSUME NEW p \in People PROVE IsAdmin(p)' <=> IsAdmin(p)
    BY <1>7 DEF ChangeMenu, Unchanged, IsAdmin
  <2>5. ASSUME NEW p \in People, p # call[c].found
        PROVE  (p \in menu' <=> p \in menu) /\ (Unsettled(p) => Unsettled(p)')
    <3>1. p \in menu' <=> p \in menu
      BY <1>7, <2>5 DEF ChangeMenu
    <3>2. chat[call[c].about] # p
      BY <1>0, <1>7, <2>5 DEF ChangeMenu, FoundChat
    <3>3. Unsettled(p) => Unsettled(p)'
      BY <1>7, <3>2 DEF ChangeMenu, Unchanged, Unsettled
    <3>4. QED
      BY <3>1, <3>3
  <2>6. ASSUME NEW p \in People, p = call[c].found
        PROVE  /\ p \in Of(tangled) \/ (p \in menu' <=> IsAdmin(p))
               /\ routes # "idle" => p \in Of(crossed)
    <3>1. /\ call[c].step = "found" /\ call[c].about \in Names
          /\ chat[call[c].about] = p /\ p # "nobody"
      BY <1>0, <1>7, <2>6 DEF ChangeMenu, FoundChat, TypeOK
    <3>2. p \in menu' <=> call[c].kind # "remove"
      BY <1>7, <2>6 DEF ChangeMenu
    <3>3. IsAdmin(p) <=> call[c].about \in admin
      BY <1>0, <3>1 DEF IsAdmin, OneUserPerChat, TypeOK
    <3>4. call[c].about \in tangled \/ (p \in menu' <=> IsAdmin(p))
      BY <1>0, <3>1, <3>2, <3>3 DEF RoleAsSet
    <3>5. routes # "idle" => call[c].about \in crossed
      BY <1>0, <3>1 DEF Apart, InProgress
    <3>6. QED
      BY <3>1, <3>4, <3>5 DEF Of
  <2>7. menu' \subseteq People
    BY TypeStep DEF TypeOK
  <2>8. MenuOfAdmins'
    BY <1>0, <2>3, <2>4, <2>5, <2>6, <2>7 DEF MenuOfAdmins
  <2>9. AdminsHaveMenu'
    BY <1>0, <2>3, <2>4, <2>5, <2>6 DEF TypeOK, AdminsHaveMenu
  <2>10. QED
    BY <2>1, <2>2, <2>8, <2>9
<1>8. ASSUME NEW c \in Calls, Fail(c)
      PROVE  Kept'
  <2>1. Apart'
    BY <1>0, <1>8 DEF Fail, Fails, Unchanged, overlaps, process, Apart
  <2>2. RoleAsSet'
    BY <1>0, <1>8 DEF Fail, Fails, Unchanged, overlaps, RoleAsSet
  <2>3. MenuOfAdmins'
    BY <1>0, <1>8 DEF Fail, Fails, Unchanged, overlaps, process, MenuOfAdmins,
        IsAdmin, Of, Unsettled
  <2>4. AdminsHaveMenu'
    BY <1>0, <1>8 DEF Fail, Fails, Unchanged, overlaps, process,
        AdminsHaveMenu, IsAdmin, Of, Unsettled
  <2>5. QED
    BY <2>1, <2>2, <2>3, <2>4
<1>9. ASSUME NEW p \in People, NEW n \in Names, Register(p, n)
      PROVE  Kept'
  <2>1. Apart'
    BY <1>0, <1>9 DEF Register, overlaps, process, Apart
  <2>2. RoleAsSet'
    BY <1>0, <1>9 DEF Register, overlaps, RoleAsSet
  <2>3. MenuOfAdmins'
    BY <1>0, <1>9 DEF Register, overlaps, TypeOK, ChatsOfUsers, MenuOfAdmins,
        IsAdmin, Of, Unsettled
  <2>4. AdminsHaveMenu'
    BY <1>0, <1>9 DEF Register, overlaps, process, TypeOK, ChatsOfUsers,
        AdminsHaveMenu, IsAdmin, Of, Unsettled
  <2>5. QED
    BY <2>1, <2>2, <2>3, <2>4
<1>10. ASSUME GetTelegramUsersInfo PROVE Kept'
  <2>1. Apart'
    BY <1>0, <1>10 DEF GetTelegramUsersInfo, About, Apart, overlaps
  <2>2. RoleAsSet'
    BY <1>0, <1>10 DEF GetTelegramUsersInfo, About, tables, RoleAsSet, overlaps
  <2>3. MenuOfAdmins'
    BY <1>0, <1>10 DEF GetTelegramUsersInfo, About, tables, MenuOfAdmins,
        IsAdmin, Of, Unsettled, overlaps
  <2>4. AdminsHaveMenu'
    BY <1>0, <1>10 DEF GetTelegramUsersInfo, About, AdminsChatsIds, tables,
        AdminsHaveMenu, IsAdmin, Of, overlaps
  <2>5. QED
    BY <2>1, <2>2, <2>3, <2>4
<1>11. ASSUME ClearAllCommands PROVE Kept'
  <2>1. Apart'
    BY <1>0, <1>11 DEF ClearAllCommands, overlaps, Apart
  <2>2. RoleAsSet'
    BY <1>0, <1>11 DEF ClearAllCommands, overlaps, tables, RoleAsSet
  <2>3. MenuOfAdmins'
    BY <1>0, <1>11 DEF ClearAllCommands, overlaps, tables, MenuOfAdmins,
        IsAdmin, Of, Unsettled
  <2>4. AdminsHaveMenu'
    BY <1>0, <1>11 DEF ClearAllCommands, overlaps, tables, AdminsHaveMenu,
        IsAdmin, Of
  <2>5. QED
    BY <2>1, <2>2, <2>3, <2>4
<1>12. ASSUME NEW p \in People, SetAdminCommands(p)
      PROVE  Kept'
  <2>1. Apart'
    BY <1>0, <1>12 DEF SetAdminCommands, overlaps, Apart
  <2>2. RoleAsSet'
    BY <1>0, <1>12 DEF SetAdminCommands, overlaps, tables, RoleAsSet
  <2>3. MenuOfAdmins'
    BY <1>0, <1>12 DEF SetAdminCommands, overlaps, tables, TypeOK, MenuOfAdmins,
        AdminsHaveMenu, IsAdmin, Of, Unsettled
  <2>4. AdminsHaveMenu'
    BY <1>0, <1>12 DEF SetAdminCommands, overlaps, tables, AdminsHaveMenu,
        IsAdmin, Of
  <2>5. QED
    BY <2>1, <2>2, <2>3, <2>4
<1>13. ASSUME RoutesRegistered PROVE Kept'
  <2>1. Apart'
    BY <1>0, <1>13 DEF RoutesRegistered, overlaps, Apart
  <2>2. RoleAsSet'
    BY <1>0, <1>13 DEF RoutesRegistered, overlaps, tables, RoleAsSet
  <2>3. MenuOfAdmins'
    BY <1>0, <1>13 DEF RoutesRegistered, overlaps, tables, MenuOfAdmins,
        IsAdmin, Of, Unsettled
  <2>4. AdminsHaveMenu'
    BY <1>0, <1>13 DEF RoutesRegistered, overlaps, tables, TypeOK, AdminsHaveMenu,
        IsAdmin, Of
  <2>5. QED
    BY <2>1, <2>2, <2>3, <2>4
<1>14. ASSUME Crash PROVE Kept'
  <2>1. Apart'
    BY <1>0, <1>14 DEF Crash, overlaps, AtRest, Fails, Apart, InProgress
  <2>2. RoleAsSet'
    BY <1>0, <1>14 DEF Crash, overlaps, AtRest, Fails, RoleAsSet, InProgress
  <2>3. MenuOfAdmins'
    BY <1>0, <1>14 DEF Crash, overlaps, AtRest, Fails, tables, MenuOfAdmins,
        IsAdmin, Of, Unsettled
  <2>4. AdminsHaveMenu'
    BY <1>0, <1>14 DEF Crash, overlaps, AdminsHaveMenu
  <2>5. QED
    BY <2>1, <2>2, <2>3, <2>4
<1>15. QED
    BY <1>1, <1>2, <1>3, <1>4, <1>5, <1>6, <1>7, <1>8, <1>9, <1>10,
        <1>11, <1>12, <1>13, <1>14 DEF Next, CallStep, RoutesStep,
        Orderly

LEMMA Inductive == Spec => []IInv
<1>1. Init => IInv
    BY InitIsGood
<1>2. IInv /\ [Next]_vars => IInv'
    BY ChatsStep, OrderlyStep DEF IInv
<1>3. QED
    BY <1>1, <1>2, PTL DEF Spec

-----------------------------------------------------------------------------
\* Each variable has its type: an admin is a user, and the menus are those of
\* chats that the calls have found, never of usernames (all actions).
THEOREM TypeCorrect == Spec => []TypeOK
<1>1. IInv => TypeOK
    BY DEF IInv, Chats
<1>2. QED
    BY <1>1, Inductive, PTL

\* The admins and nobody else have the menu, up to the calls that failed and the
\* users about whom commands overlapped (service/user.go:127-195).
THEOREM MenusFollowRoles == Spec => []MenuFollowsRole
<1>1. IInv => MenuFollowsRole
    BY DEF IInv, Chats, TypeOK, Orderly, MenuOfAdmins, AdminsHaveMenu,
        MenuFollowsRole, Of
<1>2. QED
    BY <1>1, Inductive, PTL

\* A registration or a change of username moves no role from one person to
\* another, whatever overlaps (repository/user.go:24-44, :118-146).
THEOREM RolesPersonal == Spec => RolesStayPersonal
<1>1. ASSUME IInv, [Next]_vars, NEW p \in People, IsAdmin(p) # IsAdmin(p)'
      PROVE  \E c \in Calls : chat[call[c].about] = p /\ call[c].step = "issued"
  <2>1. ~(IsAdmin(p)' <=> IsAdmin(p))
    BY <1>1 DEF IsAdmin
  <2>2. QED
    BY <1>1, <2>1, RoleKept DEF IInv
<1>2. IInv /\ [Next]_vars =>
        [\A p \in People :
            IsAdmin(p) # IsAdmin(p)' =>
                \E c \in Calls : chat[call[c].about] = p /\ call[c].step = "issued"]_vars
    BY <1>1
<1>3. QED
    BY <1>2, Inductive, PTL DEF Spec, RolesStayPersonal

\* Every admin has the menu when the routes are registered, whatever had failed
\* or overlapped before (bot/routes/register.go:16-41).
THEOREM RestartsRepair == Spec => RestartRepairsMenus
<1>1. ASSUME IInv, Next, routes = "setting", serving', routes' = "idle"
      PROVE  AdminsChatsIds \ Of(crossed) \subseteq menu'
  <2>1. AdminsHaveMenu /\ TypeOK
    BY <1>1 DEF IInv, Chats, Orderly
  <2>2. RoutesRegistered
    BY <1>1, <2>1 DEF Next, CallStep, RoutesStep,
        Issue, SetUserAdminStatus, AddAdminChatId, GetUserChatIdByUsername,
        UserNotFound, ChangeMenu, Fail, Register, process, Unchanged,
        GetTelegramUsersInfo, ClearAllCommands, SetAdminCommands, Crash
  <2>3. QED
    BY <1>1, <2>1, <2>2 DEF RoutesRegistered, AdminsHaveMenu, AdminsChatsIds
<1>2. IInv /\ [Next]_vars =>
        [routes = "setting" /\ serving' /\ routes' = "idle" =>
            AdminsChatsIds \ Of(crossed) \subseteq menu']_vars
    BY <1>1
<1>3. QED
    BY <1>2, Inductive, PTL DEF Spec, RestartRepairsMenus
=============================================================================
