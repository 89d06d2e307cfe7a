--------------------------- MODULE CategoryNames ---------------------------
(***************************************************************************)
(* A table of rows with unique names: categories and restaurants, whose   *)
(* code is the same.  Rows are added, renamed and deleted by single        *)
(* statements, each a transaction of its own.  To add a name is             *)
(*                                                                         *)
(*   WITH e AS (INSERT ... ON CONFLICT DO NOTHING RETURNING id)            *)
(*   SELECT * FROM e UNION SELECT id FROM categories WHERE name = $1       *)
(*                                                                         *)
(* The INSERT meets the rows that are there when it runs and waits for      *)
(* whoever is about to take or to give up the name; the second SELECT sees  *)
(* the rows that were there when the statement began.                       *)
(***************************************************************************)
EXTENDS Naturals, FiniteSets

CONSTANTS
    Calls,
    Names,
    NoName,     \* the name of what is not there
    MaxId       \* bound on the ids that the sequence gives

ASSUME NameAssumption == NoName \notin Names
ASSUME IdAssumption == MaxId \in Nat

Ids == 1 .. MaxId
NoId == 0

VARIABLES
    name,       \* the rows, as committed
    nextId,     \* the sequence of ids
    request,    \* what a call is to do
    step,
    row,        \* the row that a call has locked or inserted
    snapshot,   \* add: the rows that bore the name when the statement began
    result,
    answer,     \* add: the id of the result
    borne       \* the rows that bore the name since then (history)

vars == <<name, nextId, request, step, row, snapshot, result, answer, borne>>

Requests == [kind : {"add", "rename", "delete"}, id : Ids \union {NoId},
             name : Names \union {NoName}]

NoRequest == [kind |-> "delete", id |-> NoId, name |-> NoName]

\* An id that is asked for was given to a row, which may be gone.
Asked ==
    {r \in Requests :
        /\ r.kind = "add" <=> r.id = NoId
        /\ r.kind = "delete" <=> r.name = NoName
        /\ r.id < nextId}

Results == {"none", "ok", "noRows", "conflict", "failed"}

Bearers(table, n) == {i \in Ids : table[i] = n}

NamesUnique ==
    \A i, j \in Ids : name[i] = name[j] /\ name[i] # NoName => i = j

TypeOK ==
    /\ name \in [Ids -> Names \union {NoName}]
    /\ nextId \in 1 .. MaxId + 1
    /\ request \in [Calls -> Requests]
    /\ step \in [Calls -> {"new", "running", "locked", "ready", "done"}]
    /\ row \in [Calls -> Ids \union {NoId}]
    /\ snapshot \in [Calls -> SUBSET Ids]
    /\ result \in [Calls -> Results]
    /\ answer \in [Calls -> Ids \union {NoId}]
    /\ borne \in [Calls -> SUBSET Ids]
    /\ \A i \in Ids : i >= nextId => name[i] = NoName

Init ==
    /\ nextId \in 1 .. MaxId + 1
    /\ name \in [Ids -> Names \union {NoName}]
    /\ NamesUnique
    /\ \A i \in Ids : i >= nextId => name[i] = NoName
    /\ request = [c \in Calls |-> NoRequest]
    /\ step = [c \in Calls |-> "new"]
    /\ row = [c \in Calls |-> NoId]
    /\ snapshot = [c \in Calls |-> {}]
    /\ result = [c \in Calls |-> "none"]
    /\ answer = [c \in Calls |-> NoId]
    /\ borne = [c \in Calls |-> {}]

-----------------------------------------------------------------------------
(* What a statement waits for. *)

\* Who has the row that c is to rename or delete.
RowHolders(c) ==
    {y \in Calls \ {c} : request[y].kind # "add" /\ row[y] = request[c].id}

\* Who has written the name that c is to write, or is about to give it up.
Takers(c) ==
    {y \in Calls \ {c} : row[y] # NoId /\
        \/ step[y] = "ready" /\ request[y].name = request[c].name
        \/ request[y].kind # "add" /\ name[row[y]] = request[c].name}

WaitsFor(x, y) ==
    \/ step[x] = "running" /\ request[x].kind # "add" /\ y \in RowHolders(x)
    \/ step[x] = "running" /\ request[x].kind = "add" /\ y \in Takers(x)
    \/ step[x] = "locked" /\ y \in Takers(x)

Circle(S) == S # {} /\ \A x \in S : \E y \in S : WaitsFor(x, y)

-----------------------------------------------------------------------------
(* The statements. *)

\* Mutant: the second SELECT has no condition.
BugSeen(n) == {i \in Ids : name[i] # NoName}

\* What the second SELECT of an add finds, as of the beginning.
Seen(n) == {i \in Ids : name[i] = n}

Begin(c) ==
    /\ step[c] = "new"
    /\ \E r \in Asked :
        /\ request' = [request EXCEPT ![c] = r]
        /\ snapshot' = [snapshot EXCEPT ![c] =
                            IF r.kind = "add" THEN Seen(r.name) ELSE {}]
        /\ borne' = [borne EXCEPT ![c] =
                            IF r.kind = "delete" THEN {} ELSE Bearers(name, r.name)]
    /\ step' = [step EXCEPT ![c] = "running"]
    /\ UNCHANGED <<name, nextId, row, result, answer>>

Answer(c, v, i) ==
    /\ step' = [step EXCEPT ![c] = "done"]
    /\ row' = [row EXCEPT ![c] = NoId]
    /\ result' = [result EXCEPT ![c] = v]
    /\ answer' = [answer EXCEPT ![c] = i]

\* UPDATE and DELETE: a row that is not there is not changed, which is no error.
LockRow(c) ==
    /\ step[c] = "running"
    /\ request[c].kind \in {"rename", "delete"}
    /\ RowHolders(c) = {}
    /\ \/ /\ name[request[c].id] = NoName
          /\ step' = [step EXCEPT ![c] = "ready"]
          /\ UNCHANGED row
       \/ /\ name[request[c].id] # NoName
          /\ step' = [step EXCEPT ![c] =
                        IF request[c].kind = "rename" THEN "locked" ELSE "ready"]
          /\ row' = [row EXCEPT ![c] = request[c].id]
    /\ UNCHANGED <<name, nextId, request, snapshot, result, answer, borne>>

\* UPDATE: the new name, unless another row has it.
WriteName(c) ==
    /\ step[c] = "locked"
    /\ Takers(c) = {}
    /\ \/ /\ Bearers(name, request[c].name) \subseteq {row[c]}
          /\ step' = [step EXCEPT ![c] = "ready"]
          /\ UNCHANGED <<row, result, answer>>
       \/ /\ ~ Bearers(name, request[c].name) \subseteq {row[c]}
          /\ Answer(c, "conflict", NoId)
    /\ UNCHANGED <<name, nextId, request, snapshot, borne>>

\* Mutant: the id is the next number, which stays the next one.
BugInsertRow(c) ==
    /\ step[c] = "running"
    /\ request[c].kind = "add"
    /\ Takers(c) = {}
    /\ nextId <= MaxId
    /\ step' = [step EXCEPT ![c] = "ready"]
    /\ row' = [row EXCEPT ![c] =
                IF Bearers(name, request[c].name) = {} THEN nextId ELSE NoId]
    /\ UNCHANGED <<name, nextId, request, snapshot, result, answer, borne>>

\* Mutant: the migration leaves UNIQUE out, so there is never a conflict.
BugNotUnique(c) ==
    /\ step[c] = "running"
    /\ request[c].kind = "add"
    /\ nextId <= MaxId
    /\ nextId' = nextId + 1
    /\ step' = [step EXCEPT ![c] = "ready"]
    /\ row' = [row EXCEPT ![c] = nextId]
    /\ UNCHANGED <<name, request, snapshot, result, answer, borne>>

\* INSERT: a new row, unless a row has the name; an id is used in both cases.
InsertRow(c) ==
    /\ step[c] = "running"
    /\ request[c].kind = "add"
    /\ Takers(c) = {}
    /\ nextId <= MaxId
    /\ nextId' = nextId + 1
    /\ step' = [step EXCEPT ![c] = "ready"]
    /\ row' = [row EXCEPT ![c] =
                IF Bearers(name, request[c].name) = {} THEN nextId ELSE NoId]
    /\ UNCHANGED <<name, request, snapshot, result, answer, borne>>

\* Mutant: without the second SELECT.
BugFound(c) == {row[c]} \ {NoId}

\* The ids that an add selects; the first one, in no order, is the answer.
Found(c) == snapshot[c] \union ({row[c]} \ {NoId})

StoreName(c) ==
    /\ name' = [i \in Ids |->
                    IF i # row[c] THEN name[i]
                    ELSE IF request[c].kind = "delete" THEN NoName
                    ELSE request[c].name]
    /\ borne' = [y \in Calls |->
                    IF step[y] \in {"running", "locked", "ready"}
                        /\ request[y].kind # "delete"
                    THEN borne[y] \union Bearers(name', request[y].name)
                    ELSE borne[y]]

\* The answer may be lost after the commit.
Commit(c) ==
    /\ step[c] = "ready"
    /\ StoreName(c)
    /\ \/ /\ request[c].kind = "add"
          /\ \/ \E i \in Found(c) : Answer(c, "ok", i)
             \/ Found(c) = {} /\ Answer(c, "noRows", NoId)
       \/ request[c].kind \in {"rename", "delete"} /\ Answer(c, "ok", NoId)
       \/ Answer(c, "failed", NoId)
    /\ UNCHANGED <<nextId, request, snapshot>>

\* The statement fails or its client is gone.
Fail(c) ==
    /\ step[c] \in {"running", "locked", "ready"}
    /\ Answer(c, "failed", NoId)
    /\ UNCHANGED <<name, nextId, request, snapshot, borne>>

\* PostgreSQL ends a transaction of a circle.
EndDeadlock(c) ==
    /\ \E S \in SUBSET Calls : c \in S /\ Circle(S)
    /\ Answer(c, "failed", NoId)
    /\ UNCHANGED <<name, nextId, request, snapshot, borne>>

CallStep(c) ==
    \/ Begin(c) \/ LockRow(c) \/ WriteName(c) \/ InsertRow(c)
    \/ Commit(c) \/ Fail(c) \/ EndDeadlock(c)

Next == \E c \in Calls : CallStep(c)

Spec == Init /\ [][Next]_vars

-----------------------------------------------------------------------------
(* Properties. *)

\* Who adds a name gets the id of a row that bore it at some moment of the
\* call, though the two SELECTs may find two rows and the row of the answer may
\* be gone by then (repository/dish_category.go:58-73,
\* repository/restaurant.go:46-61).
AnswerWasTrue ==
    \A c \in Calls : request[c].kind = "add" /\ result[c] = "ok" =>
        answer[c] \in borne[c]

\* An add finds no id only if the name was free when it began and another call
\* gave it to a row before it was done; a rename is refused only if another row
\* bore the name meanwhile, never for a name that was not committed
\* (repository/dish_category.go:58-86).
ErrorsExplained ==
    \A c \in Calls :
        /\ result[c] = "noRows" => snapshot[c] = {} /\ borne[c] # {}
        /\ result[c] = "conflict" => borne[c] \ {request[c].id} # {}

\* Two clients that were answered with different ids for the same name cannot
\* both find it there: names stay unique while adds and renames interleave
\* (repository/dish_category.go:58-86, migrations/20240627085804_initial.sql:38).
AddsAgree ==
    \A c, y \in Calls :
        /\ request[c].kind = "add" /\ request[y].kind = "add"
        /\ result[c] = "ok" /\ name[answer[c]] = request[c].name
        /\ result[y] = "ok" /\ name[answer[y]] = request[y].name
        /\ request[c].name = request[y].name
        => answer[c] = answer[y]
=============================================================================
