----------------------------- MODULE UserAdmin -----------------------------
(***************************************************************************)
(* Who is an admin, and what Telegram shows him.  A user is a row named   *)
(* by the username its person had when registering, with at most one chat *)
(* behind it; the role is a column of that row; the menu of admin         *)
(* commands is kept by Telegram, chat by chat.  A command that gives or   *)
(* takes the role changes the row, looks the chat up and changes the menu,*)
(* one after the other.  A start, or a new configuration, clears the      *)
(* menus and sets those of the admins anew.                               *)
(***************************************************************************)
CONSTANTS
    People,     \* Telegram accounts, each with its private chat
    Names,      \* Telegram usernames, the empty one too
    Deleted,    \* the username of the user that the migration inserts
    Calls       \* handlers of the commands that give or take the role

ASSUME NamesAssumption == Deleted \in Names /\ "nobody" \notin People

VARIABLES
    users,      \* users.username
    chat,       \* users_telegrams: whose chat belongs to the user
    admin,      \* users.admin
    menu,       \* the people whose chat has the admin commands
    call,       \* what a handler does, about which user, and how far it is
    serving,    \* has the bot a mux?
    routes,     \* how far RegisterRoutes has come
    todo,       \* the chats whose menu it still has to set
    crossed,    \* the users that commands were about meanwhile (history)
    tangled     \* the users about whom two commands, or a command and a
                \* registration of the routes, were ever under way (history)

vars == <<users, chat, admin, menu, call, serving, routes, todo, crossed, tangled>>

tables == <<users, chat, admin>>
process == <<serving, routes, todo>>
overlaps == <<crossed, tangled>>

\* A handler at rest; one that answers is at rest again.
AtRest == [step |-> "rest", kind |-> "add", about |-> Deleted, found |-> "nobody"]

InProgress == {"issued", "set", "found"}

TypeOK ==
    /\ users \subseteq Names
    /\ chat \in [Names -> People \union {"nobody"}]
    /\ admin \subseteq users
    /\ menu \subseteq People
    /\ call \in [Calls -> [step : {"rest", "failed"} \union InProgress,
                          kind : {"add", "remove", "secret"},
                          about : Names,
                          found : People \union {"nobody"}]]
    /\ serving \in BOOLEAN
    /\ routes \in {"idle", "read", "setting"}
    /\ todo \subseteq People
    /\ crossed \subseteq tangled
    /\ tangled \subseteq Names

Init ==
    /\ users = {Deleted}
    /\ chat = [n \in Names |-> "nobody"]
    /\ admin = {}
    /\ menu = {}
    /\ call = [c \in Calls |-> AtRest]
    /\ serving = FALSE
    /\ routes = "idle"
    /\ todo = {}
    /\ crossed = {}
    /\ tangled = {}

Registered(p) == \E n \in Names : chat[n] = p

IsAdmin(p) == \E n \in admin : chat[n] = p

AdminsChatsIds == {p \in People : IsAdmin(p)}

\* The users that commands under way are about.
About == {call[c].about : c \in {d \in Calls : call[d].step \in InProgress}}

\* Whose user is in a set.
Of(S) == {p \in People : \E n \in S : chat[n] = p}

Unchanged == UNCHANGED <<users, chat, process, overlaps>>

-----------------------------------------------------------------------------
\* Mutant: a conflict on the chat takes it away from its old user.
BugMoveChat(p, n) ==
    /\ serving
    /\ n \notin users
    /\ users' = users \union {n}
    /\ chat' = [m \in Names |-> IF m = n THEN p
                                ELSE IF chat[m] = p THEN "nobody" ELSE chat[m]]
    /\ UNCHANGED <<admin, menu, call, process, overlaps>>

\* One transaction, for p under the username that Telegram says he has: he may
\* change or drop it, and take one that is free.  A username that is taken is
\* refused; a chat that is taken is not an error, and leaves the new user
\* without one.
Register(p, n) ==
    /\ serving
    /\ n \notin users
    /\ users' = users \union {n}
    /\ chat' = IF Registered(p) THEN chat ELSE [chat EXCEPT ![n] = p]
    /\ UNCHANGED <<admin, menu, call, process, overlaps>>

-----------------------------------------------------------------------------
\* The admin's middleware looks at the role when the command comes in; the
\* secret is known to whoever uses it.  A command is handled by the mux of the
\* last configuration, maybe while the next one is received.
Issue(c, k, n) ==
    /\ serving
    /\ k = "secret" \/ AdminsChatsIds # {}
    /\ call[c].step = "rest"
    /\ call' = [call EXCEPT ![c] =
                    [AtRest EXCEPT !.step = "issued", !.kind = k, !.about = n]]
    /\ crossed' = IF routes # "idle" THEN crossed \union {n} ELSE crossed
    /\ tangled' = IF n \in About \/ routes # "idle" THEN tangled \union {n} ELSE tangled
    /\ UNCHANGED <<tables, menu, process>>

SetUserAdminStatus(c) ==
    /\ call[c].step = "issued" /\ call[c].kind # "secret"
    /\ call[c].about \in users
    /\ call' = [call EXCEPT ![c].step = "set"]
    /\ admin' = IF call[c].kind = "add" THEN admin \union {call[c].about}
                                        ELSE admin \ {call[c].about}
    /\ UNCHANGED menu /\ Unchanged

ChatFound(r) ==
    [step |-> "found", kind |-> r.kind, about |-> r.about, found |-> chat[r.about]]

\* Whoever sends the secret from the chat of a user makes him an admin.
AddAdminChatId(c) ==
    /\ call[c].step = "issued" /\ call[c].kind = "secret"
    /\ chat[call[c].about] # "nobody"
    /\ call' = [call EXCEPT ![c] = ChatFound(call[c])]
    /\ admin' = admin \union {call[c].about}
    /\ UNCHANGED menu /\ Unchanged

GetUserChatIdByUsername(c) ==
    /\ call[c].step = "set"
    /\ chat[call[c].about] # "nobody"
    /\ call' = [call EXCEPT ![c] = ChatFound(call[c])]
    /\ UNCHANGED <<admin, menu>> /\ Unchanged

\* ErrUserNotFound: from the update, or from the lookup of the chat.
UserNotFound(c) ==
    /\ \/ call[c].step = "issued" /\ call[c].kind # "secret" /\ call[c].about \notin users
       \/ call[c].step = "issued" /\ call[c].kind = "secret" /\ chat[call[c].about] = "nobody"
       \/ call[c].step = "set" /\ chat[call[c].about] = "nobody"
    /\ call' = [call EXCEPT ![c] = AtRest]
    /\ UNCHANGED <<admin, menu>> /\ Unchanged

\* Mutant: the menu is set for a removed admin as for an added one.
BugAlwaysAdded(c) ==
    /\ call[c].step = "found"
    /\ call' = [call EXCEPT ![c] = AtRest]
    /\ menu' = menu \union {call[c].found}
    /\ UNCHANGED admin /\ Unchanged

\* Mutant: the menu is set for the username, not for the chat.
BugMenuOfName(c) ==
    /\ call[c].step = "found"
    /\ call' = [call EXCEPT ![c] = AtRest]
    /\ menu' = menu \union {call[c].about}
    /\ UNCHANGED admin /\ Unchanged

\* AdminAdded and AdminRemoved.
ChangeMenu(c) ==
    /\ call[c].step = "found"
    /\ call' = [call EXCEPT ![c] = AtRest]
    /\ menu' = IF call[c].kind = "remove" THEN menu \ {call[c].found}
                                          ELSE menu \union {call[c].found}
    /\ UNCHANGED admin /\ Unchanged

\* A handler that fails is not used again: what it left is to be seen.
Fails(r) == [AtRest EXCEPT !.step = "failed", !.about = r.about]

Fail(c) ==
    /\ call[c].step \in InProgress
    /\ call' = [call EXCEPT ![c] = Fails(call[c])]
    /\ UNCHANGED <<admin, menu>> /\ Unchanged

-----------------------------------------------------------------------------
\* RegisterRoutes, at the start and whenever a configuration arrives.
GetTelegramUsersInfo ==
    /\ routes = "idle"
    /\ routes' = "read"
    /\ todo' = AdminsChatsIds
    /\ crossed' = About
    /\ tangled' = tangled \union About
    /\ UNCHANGED <<tables, menu, call, serving>>

\* The bot library clears the commands; whether those of single chats are
\* among them cannot be seen from here.
ClearAllCommands ==
    /\ routes = "read"
    /\ routes' = "setting"
    /\ menu' \in {menu, {}}
    /\ UNCHANGED <<tables, call, serving, todo, overlaps>>

SetAdminCommands(p) ==
    /\ routes = "setting"
    /\ p \in todo
    /\ menu' = menu \union {p}
    /\ todo' = todo \ {p}
    /\ UNCHANGED <<tables, call, serving, routes, overlaps>>

\* Mutant: the commands are cleared last.
BugClearLast ==
    /\ routes = "setting"
    /\ todo = {}
    /\ routes' = "idle"
    /\ serving' = TRUE
    /\ menu' = {}
    /\ crossed' = {}
    /\ UNCHANGED <<tables, call, todo, tangled>>

RoutesRegistered ==
    /\ routes = "setting"
    /\ todo = {}
    /\ routes' = "idle"
    /\ serving' = TRUE
    /\ crossed' = {}
    /\ UNCHANGED <<tables, menu, call, todo, tangled>>

\* An error of RegisterRoutes ends the process, and so may anything else.
Crash ==
    /\ serving \/ routes # "idle"
    /\ serving' = FALSE
    /\ routes' = "idle"
    /\ todo' = {}
    /\ crossed' = {}
    /\ call' = [c \in Calls |->
                    IF call[c].step \in InProgress THEN Fails(call[c]) ELSE call[c]]
    /\ UNCHANGED <<tables, menu, tangled>>

CallStep(c) ==
    \/ \E k \in {"add", "remove", "secret"}, n \in Names : Issue(c, k, n)
    \/ SetUserAdminStatus(c) \/ AddAdminChatId(c) \/ GetUserChatIdByUsername(c)
    \/ UserNotFound(c) \/ ChangeMenu(c) \/ Fail(c)

RoutesStep ==
    \/ GetTelegramUsersInfo \/ ClearAllCommands
    \/ \E p \in People : SetAdminCommands(p)
    \/ RoutesRegistered \/ Crash

Next ==
    \/ \E c \in Calls : CallStep(c)
    \/ \E p \in People, n \in Names : Register(p, n)
    \/ RoutesStep

Spec == Init /\ [][Next]_vars

-----------------------------------------------------------------------------
(* Properties. *)

\* A call about p is under way, or failed after it may have changed the role.
Unsettled(p) ==
    \E c \in Calls :
        /\ chat[call[c].about] = p
        /\ call[c].step \in {"set", "found", "failed"}

\* The admins and nobody else have the admin's menu, up to the calls that
\* failed half-way and the users about whom commands overlapped: no crash,
\* command about another user, change of username, second registration or new
\* configuration gets in between (service/user.go:127-141, :179-195).
MenuFollowsRole ==
    serving /\ routes = "idle" =>
        \A p \in People \ Of(tangled) : (p \in menu <=> IsAdmin(p)) \/ Unsettled(p)

\* A restart repairs the menus: whatever failed or overlapped before it, every
\* admin has the admin's menu when the routes are registered, unless a command
\* about him was under way meanwhile (bot/routes/register.go:16-41).
RestartRepairsMenus ==
    [][routes = "setting" /\ serving' /\ routes' = "idle" =>
            AdminsChatsIds \ Of(crossed) \subseteq menu']_vars

\* A role is that of the same person for ever: neither a changed username nor
\* a registration moves it to another person, or to nobody, however the calls
\* overlap (repository/user.go:25, :38).
RolesStayPersonal ==
    [][\A p \in People :
        IsAdmin(p) # IsAdmin(p)' =>
            \E c \in Calls : chat[call[c].about] = p /\ call[c].step = "issued"]_vars

=============================================================================
