------------------------ MODULE CategoryNamesProofs ------------------------
(***************************************************************************)
(* Proofs about CategoryNames, for any number of calls, names and ids.    *)
(***************************************************************************)
EXTENDS CategoryNames, TLAPS

Active == {c \in Calls : step[c] \in {"running", "locked", "ready"}}

Naming == {c \in Calls : step[c] = "ready" /\ row[c] # NoId /\ request[c].kind # "delete"}

RequestsFit ==
    \A c \in Calls : step[c] # "new" =>
        /\ request[c].kind = "add" <=> request[c].id = NoId
        /\ request[c].kind = "delete" <=> request[c].name = NoName
        /\ request[c].id < nextId

\* A row is held by one call: one that is there, or one that is to be added.
RowsHeld ==
    /\ \A c \in Calls :
        /\ step[c] \notin {"locked", "ready"} => row[c] = NoId
        /\ step[c] = "locked" => request[c].kind = "rename" /\ row[c] # NoId
        /\ row[c] # NoId /\ request[c].kind # "add" =>
            row[c] = request[c].id /\ name[row[c]] # NoName
        /\ row[c] # NoId /\ request[c].kind = "add" =>
            row[c] < nextId /\ name[row[c]] = NoName
    /\ \A c, y \in Calls : c # y /\ row[c] = row[y] => row[c] = NoId

\* Nobody else has the name that a call has written.
NamesTaken ==
    \A c \in Naming :
        /\ \A i \in Ids : name[i] = request[c].name => i = row[c]
        /\ \A y \in Naming : y # c => request[y].name # request[c].name

\* The history has what the table has now, and what it had in the beginning.
BorneNow ==
    \A c \in Calls :
        /\ snapshot[c] \subseteq borne[c]
        /\ c \in Active /\ request[c].kind # "delete" =>
            \A i \in Ids : name[i] = request[c].name => i \in borne[c]

\* An add that has not inserted a row has met one.
RowMet ==
    \A c \in Calls : step[c] = "ready" /\ request[c].kind = "add" /\ row[c] = NoId =>
        borne[c] # {}

AnswersLast == \A c \in Calls : step[c] # "done" => result[c] = "none"

IInv ==
    /\ TypeOK
    /\ NamesUnique
    /\ RequestsFit
    /\ RowsHeld
    /\ NamesTaken
    /\ BorneNow
    /\ RowMet
    /\ AnswersLast
    /\ AnswerWasTrue
    /\ ErrorsExplained

-----------------------------------------------------------------------------
LEMMA InitHolds == Init => IInv
<1> SUFFICES ASSUME Init
             PROVE  IInv
  OBVIOUS
<1>1. NoRequest \in Requests
  BY DEF NoRequest, Requests
<1>2. TypeOK
  BY <1>1 DEF Init, TypeOK, Results
<1>3. NamesUnique /\ RequestsFit /\ RowsHeld
  BY DEF Init, RequestsFit, RowsHeld
<1>4. NamesTaken /\ BorneNow /\ RowMet
  BY DEF Init, NamesTaken, Naming, BorneNow, Active, RowMet
<1>5. AnswersLast /\ AnswerWasTrue /\ ErrorsExplained
  BY DEF Init, AnswersLast, AnswerWasTrue, ErrorsExplained
<1> QED
  BY <1>2, <1>3, <1>4, <1>5 DEF IInv

LEMMA Types ==
    ASSUME IInv
    PROVE  /\ name \in [Ids -> Names \union {NoName}]
           /\ nextId \in Nat /\ nextId \in 1 .. MaxId + 1 /\ MaxId \in Nat
           /\ request \in [Calls -> Requests]
           /\ step \in [Calls -> {"new", "running", "locked", "ready", "done"}]
           /\ row \in [Calls -> Ids \union {NoId}]
           /\ snapshot \in [Calls -> SUBSET Ids]
           /\ result \in [Calls -> Results]
           /\ answer \in [Calls -> Ids \union {NoId}]
           /\ borne \in [Calls -> SUBSET Ids]
           /\ \A i \in Ids : i >= nextId => name[i] = NoName
  BY IdAssumption DEF IInv, TypeOK

LEMMA BeginKeeps ==
    ASSUME IInv, NEW c \in Calls, Begin(c)
    PROVE  IInv'
<1>1. PICK r \in Asked :
        /\ request' = [request EXCEPT ![c] = r]
        /\ snapshot' = [snapshot EXCEPT ![c] =
                            IF r.kind = "add" THEN Seen(r.name) ELSE {}]
        /\ borne' = [borne EXCEPT ![c] =
                            IF r.kind = "delete" THEN {} ELSE Bearers(name, r.name)]
  BY DEF Begin
<1>2. /\ step[c] = "new" /\ step' = [step EXCEPT ![c] = "running"]
      /\ name' = name /\ nextId' = nextId /\ row' = row
      /\ result' = result /\ answer' = answer
  BY DEF Begin
<1>3. /\ r \in Requests /\ r.id < nextId
      /\ r.kind = "add" <=> r.id = NoId
      /\ r.kind = "delete" <=> r.name = NoName
  BY DEF Asked
<1>4. Seen(r.name) = Bearers(name, r.name) /\ Bearers(name, r.name) \in SUBSET Ids
  BY DEF Seen, Bearers
<1>5. /\ request'[c] = r /\ step'[c] = "running"
      /\ snapshot'[c] \subseteq borne'[c] /\ snapshot'[c] \in SUBSET Ids
      /\ borne'[c] = IF r.kind = "delete" THEN {} ELSE Bearers(name, r.name)
      /\ \A y \in Calls \ {c} :
            /\ request'[y] = request[y] /\ step'[y] = step[y]
            /\ snapshot'[y] = snapshot[y] /\ borne'[y] = borne[y]
  BY <1>1, <1>2, <1>3, <1>4, Types DEF Requests
<1>6. /\ request' \in [Calls -> Requests] /\ snapshot' \in [Calls -> SUBSET Ids]
      /\ borne' \in [Calls -> SUBSET Ids]
      /\ step' \in [Calls -> {"new", "running", "locked", "ready", "done"}]
  BY <1>1, <1>2, <1>3, <1>4, Types
<1>7. TypeOK'
  BY <1>2, <1>6 DEF IInv, TypeOK
<1>8. NamesUnique' /\ RequestsFit'
  BY <1>2, <1>3, <1>5 DEF IInv, NamesUnique, RequestsFit
<1>9. row[c] = NoId /\ result[c] = "none"
  BY <1>2 DEF IInv, RowsHeld, AnswersLast
<1>10. RowsHeld'
  BY <1>2, <1>5, <1>9 DEF IInv, RowsHeld
<1>11. NamesTaken'
  BY <1>2, <1>5, <1>9 DEF IInv, NamesTaken, Naming
<1>12. BorneNow'
  BY <1>2, <1>5 DEF IInv, BorneNow, Active, Bearers
<1>13. RowMet' /\ AnswersLast'
  BY <1>2, <1>5, <1>9 DEF IInv, RowMet, AnswersLast
<1>14. AnswerWasTrue' /\ ErrorsExplained'
  BY <1>2, <1>5, <1>9 DEF IInv, AnswerWasTrue, ErrorsExplained
<1> QED
  BY <1>7, <1>8, <1>10, <1>11, <1>12, <1>13, <1>14 DEF IInv

LEMMA LockRowKeeps ==
    ASSUME IInv, NEW c \in Calls, LockRow(c)
    PROVE  IInv'
<1>1. /\ step[c] = "running" /\ request[c].kind \in {"rename", "delete"}
      /\ name' = name /\ nextId' = nextId /\ request' = request
      /\ snapshot' = snapshot /\ result' = result /\ answer' = answer
      /\ borne' = borne
  BY DEF LockRow
<1>2. PICK s \in {"locked", "ready"}, i \in Ids \union {NoId} :
        /\ step' = [step EXCEPT ![c] = s] /\ row' = [row EXCEPT ![c] = i]
        /\ \/ s = "ready" /\ i = NoId
           \/ /\ i = request[c].id /\ i # NoId /\ name[i] # NoName
              /\ s = IF request[c].kind = "rename" THEN "locked" ELSE "ready"
  <2>1. request[c].id \in Ids \union {NoId} /\ row[c] = NoId
    BY <1>1, Types DEF Requests, IInv, RowsHeld
  <2>2. request[c].id # NoId
    BY <1>1 DEF IInv, RequestsFit
  <2>3. CASE /\ step' = [step EXCEPT ![c] = "ready"]
             /\ UNCHANGED row
    <3>1. row' = [row EXCEPT ![c] = NoId]
      BY <2>1, <2>3, Types
    <3> QED
      BY <2>3, <3>1
  <2>4. CASE /\ name[request[c].id] # NoName
             /\ step' = [step EXCEPT ![c] =
                        IF request[c].kind = "rename" THEN "locked" ELSE "ready"]
             /\ row' = [row EXCEPT ![c] = request[c].id]
    BY <2>1, <2>2, <2>4
  <2> QED
    BY <2>3, <2>4 DEF LockRow
<1>3. /\ \A y \in Calls : /\ row'[y] = IF y = c THEN i ELSE row[y]
                          /\ step'[y] = IF y = c THEN s ELSE step[y]
      /\ row' \in [Calls -> Ids \union {NoId}]
      /\ step' \in [Calls -> {"new", "running", "locked", "ready", "done"}]
  BY <1>2, Types
<1>4. \A y \in Calls \ {c} : request[y].kind # "add" => row[y] # request[c].id
  BY DEF LockRow, RowHolders
<1>5. TypeOK'
  BY <1>1, <1>3 DEF IInv, TypeOK
<1>6. NamesUnique' /\ RequestsFit'
  BY <1>1, <1>3 DEF IInv, NamesUnique, RequestsFit
<1>7. RowsHeld'
  <2>1. \A y \in Calls \ {c} : row[y] = i => i = NoId
    <3> SUFFICES ASSUME NEW y \in Calls \ {c}, row[y] = i, i # NoId
                 PROVE  FALSE
      OBVIOUS
    <3>1. i = request[c].id /\ name[i] # NoName
      BY <1>2
    <3>2. request[y].kind = "add"
      BY <1>4, <3>1
    <3> QED
      BY <3>1, <3>2 DEF IInv, RowsHeld
  <2>2. /\ s = "locked" => request[c].kind = "rename" /\ i # NoId
        /\ i # NoId => i = request[c].id /\ name[i] # NoName
    BY <1>2
  <2> QED
    BY <1>1, <1>2, <1>3, <2>1, <2>2 DEF IInv, RowsHeld
<1>8. Naming' = Naming
  BY <1>1, <1>2, <1>3 DEF Naming
<1>9. NamesTaken'
  <2>1. \A y \in Naming : row'[y] = row[y]
    BY <1>1, <1>3 DEF Naming
  <2> QED
    BY <1>1, <1>8, <2>1 DEF IInv, NamesTaken
<1>10. BorneNow'
  BY <1>1, <1>2, <1>3 DEF IInv, BorneNow, Active
<1>11. RowMet' /\ AnswersLast'
  BY <1>1, <1>2, <1>3 DEF IInv, RowMet, AnswersLast
<1>12. AnswerWasTrue' /\ ErrorsExplained'
  BY <1>1 DEF IInv, AnswerWasTrue, ErrorsExplained
<1> QED
  BY <1>5, <1>6, <1>7, <1>9, <1>10, <1>11, <1>12 DEF IInv

\* A call is done without a change of the table.
LEMMA AnswerKeeps ==
    ASSUME IInv, NEW c \in Calls, NEW v \in {"conflict", "failed"},
           step[c] \in {"running", "locked", "ready"}, Answer(c, v, NoId),
           UNCHANGED <<name, nextId, request, snapshot, borne>>,
           v = "conflict" => borne[c] \ {request[c].id} # {}
    PROVE  IInv'
<1>1. /\ name' = name /\ nextId' = nextId /\ request' = request
      /\ snapshot' = snapshot /\ borne' = borne
  OBVIOUS
<1>2. /\ \A y \in Calls : /\ row'[y] = IF y = c THEN NoId ELSE row[y]
                          /\ step'[y] = IF y = c THEN "done" ELSE step[y]
                          /\ result'[y] = IF y = c THEN v ELSE result[y]
                          /\ answer'[y] = IF y = c THEN NoId ELSE answer[y]
      /\ row' \in [Calls -> Ids \union {NoId}]
      /\ step' \in [Calls -> {"new", "running", "locked", "ready", "done"}]
      /\ result' \in [Calls -> Results]
      /\ answer' \in [Calls -> Ids \union {NoId}]
  BY Types DEF Answer, Results
<1>3. TypeOK'
  BY <1>1, <1>2 DEF IInv, TypeOK
<1>4. NamesUnique' /\ RequestsFit' /\ RowsHeld'
  BY <1>1, <1>2 DEF IInv, NamesUnique, RequestsFit, RowsHeld
<1>5. NamesTaken'
  BY <1>1, <1>2 DEF IInv, NamesTaken, Naming
<1>6. BorneNow' /\ RowMet' /\ AnswersLast'
  BY <1>1, <1>2 DEF IInv, BorneNow, Active, RowMet, AnswersLast
<1>7. AnswerWasTrue' /\ ErrorsExplained'
  BY <1>1, <1>2 DEF IInv, AnswerWasTrue, ErrorsExplained
<1> QED
  BY <1>3, <1>4, <1>5, <1>6, <1>7 DEF IInv

LEMMA NobodyElseTakes ==
    ASSUME NEW c \in Calls, Takers(c) = {}
    PROVE  \A y \in Naming \ {c} : request[y].name # request[c].name
  BY DEF Takers, Naming

LEMMA WriteNameKeeps ==
    ASSUME IInv, NEW c \in Calls, WriteName(c)
    PROVE  IInv'
<1>1. /\ step[c] = "locked" /\ Takers(c) = {}
      /\ name' = name /\ nextId' = nextId /\ request' = request
      /\ snapshot' = snapshot /\ borne' = borne
  BY DEF WriteName
<1>2. request[c].kind = "rename" /\ row[c] # NoId /\ row[c] = request[c].id
  BY <1>1 DEF IInv, RowsHeld
<1>3. CASE /\ Bearers(name, request[c].name) \subseteq {row[c]}
           /\ step' = [step EXCEPT ![c] = "ready"]
           /\ UNCHANGED <<row, result, answer>>
  <2>1. /\ \A y \in Calls : step'[y] = IF y = c THEN "ready" ELSE step[y]
        /\ step' \in [Calls -> {"new", "running", "locked", "ready", "done"}]
        /\ row' = row /\ result' = result /\ answer' = answer
    BY <1>3, Types
  <2>2. TypeOK'
    BY <1>1, <2>1 DEF IInv, TypeOK
  <2>3. NamesUnique' /\ RequestsFit' /\ RowsHeld'
    BY <1>1, <1>2, <2>1 DEF IInv, NamesUnique, RequestsFit, RowsHeld
  <2>4. Naming' = Naming \union {c}
    BY <1>1, <1>2, <2>1 DEF Naming
  <2>5. \A k \in Ids : name[k] = request[c].name => k = row[c]
    BY <1>3 DEF Bearers
  <2>6. NamesTaken'
    BY <1>1, <2>1, <2>4, <2>5, NobodyElseTakes DEF IInv, NamesTaken
  <2>7. BorneNow' /\ RowMet' /\ AnswersLast'
    BY <1>1, <1>2, <2>1 DEF IInv, BorneNow, Active, RowMet, AnswersLast
  <2>8. AnswerWasTrue' /\ ErrorsExplained'
    BY <1>1, <2>1 DEF IInv, AnswerWasTrue, ErrorsExplained
  <2> QED
    BY <2>2, <2>3, <2>6, <2>7, <2>8 DEF IInv
<1>4. CASE /\ ~ Bearers(name, request[c].name) \subseteq {row[c]}
           /\ Answer(c, "conflict", NoId)
  <2>1. PICK k \in Ids : name[k] = request[c].name /\ k # row[c]
    BY <1>4 DEF Bearers
  <2>2. k \in borne[c]
    BY <1>1, <1>2, <2>1 DEF IInv, BorneNow, Active
  <2>3. borne[c] \ {request[c].id} # {}
    BY <1>2, <2>1, <2>2
  <2> QED
    BY <1>1, <1>4, <2>3, AnswerKeeps
<1> QED
  BY <1>3, <1>4 DEF WriteName

LEMMA InsertRowKeeps ==
    ASSUME IInv, NEW c \in Calls, InsertRow(c)
    PROVE  IInv'
<1>1. /\ step[c] = "running" /\ request[c].kind = "add" /\ Takers(c) = {}
      /\ nextId <= MaxId /\ nextId' = nextId + 1
      /\ name' = name /\ request' = request /\ snapshot' = snapshot
      /\ result' = result /\ answer' = answer /\ borne' = borne
  BY DEF InsertRow
<1> DEFINE i == IF Bearers(name, request[c].name) = {} THEN nextId ELSE NoId
<1>2. nextId \in Ids /\ nextId # NoId /\ name[nextId] = NoName
  BY <1>1, Types DEF Ids, NoId
<1>3. /\ \A y \in Calls : /\ row'[y] = IF y = c THEN i ELSE row[y]
                          /\ step'[y] = IF y = c THEN "ready" ELSE step[y]
      /\ row' \in [Calls -> Ids \union {NoId}]
      /\ step' \in [Calls -> {"new", "running", "locked", "ready", "done"}]
  BY <1>2, Types DEF InsertRow
<1>4. \A y \in Calls : row[y] # nextId
  <2> SUFFICES ASSUME NEW y \in Calls, row[y] = nextId
               PROVE  FALSE
    OBVIOUS
  <2>1. CASE request[y].kind = "add"
    BY <1>2, <2>1, Types DEF IInv, RowsHeld
  <2>2. CASE request[y].kind # "add"
    BY <1>2, <2>2 DEF IInv, RowsHeld
  <2> QED
    BY <2>1, <2>2
<1>5. TypeOK'
  <2>1. nextId' \in 1 .. MaxId + 1
    BY <1>1, Types
  <2>2. \A k \in Ids : k >= nextId' => name'[k] = NoName
    BY <1>1, Types DEF Ids
  <2> QED
    BY <1>1, <1>3, <2>1, <2>2 DEF IInv, TypeOK
<1>6. NamesUnique'
  BY <1>1 DEF IInv, NamesUnique
<1>7. RequestsFit'
  <2>1. \A y \in Calls : request[y].id \in Nat
    BY Types DEF Requests, Ids, NoId
  <2>2. \A y \in Calls : request[y].id < nextId => request[y].id < nextId'
    BY <1>1, <2>1, Types
  <2> QED
    BY <1>1, <1>3, <2>2 DEF IInv, RequestsFit
<1>8. RowsHeld'
  <2>1. \A y \in Calls : row[y] \in Nat
    BY Types DEF Ids, NoId
  <2>2. \A y \in Calls : row[y] < nextId => row[y] < nextId'
    BY <1>1, <2>1, Types
  <2>3. nextId < nextId'
    BY <1>1, Types
  <2> QED
    BY <1>1, <1>2, <1>3, <1>4, <2>2, <2>3 DEF IInv, RowsHeld
<1>9. NamesTaken'
  <2>1. CASE Bearers(name, request[c].name) = {}
    <3>1. Naming' \subseteq Naming \union {c}
      BY <1>1, <1>3 DEF Naming
    <3>2. \A k \in Ids : name[k] # request[c].name
      BY <2>1 DEF Bearers
    <3>3. \A y \in Naming : row'[y] = row[y]
      BY <1>1, <1>3 DEF Naming
    <3> QED
      BY <1>1, <3>1, <3>2, <3>3, NobodyElseTakes DEF IInv, NamesTaken
  <2>2. CASE Bearers(name, request[c].name) # {}
    <3>1. Naming' \subseteq Naming /\ \A y \in Naming : row'[y] = row[y]
      BY <1>1, <1>3, <2>2 DEF Naming
    <3> QED
      BY <1>1, <3>1 DEF IInv, NamesTaken
  <2> QED
    BY <2>1, <2>2
<1>10. BorneNow'
  BY <1>1, <1>3 DEF IInv, BorneNow, Active
<1>11. RowMet'
  <2>1. i = NoId => borne[c] # {}
    <3> SUFFICES ASSUME i = NoId
                 PROVE  borne[c] # {}
      OBVIOUS
    <3>1. PICK k \in Ids : name[k] = request[c].name
      BY <1>2 DEF Bearers
    <3> QED
      BY <1>1, <3>1 DEF IInv, BorneNow, Active
  <2> QED
    BY <1>1, <1>3, <2>1 DEF IInv, RowMet
<1>12. AnswersLast' /\ AnswerWasTrue' /\ ErrorsExplained'
  BY <1>1, <1>3 DEF IInv, AnswersLast, AnswerWasTrue, ErrorsExplained
<1> QED
  BY <1>5, <1>6, <1>7, <1>8, <1>9, <1>10, <1>11, <1>12 DEF IInv

LEMMA CommitKeeps ==
    ASSUME IInv, NEW c \in Calls, Commit(c)
    PROVE  IInv'
<1>1. /\ step[c] = "ready" /\ StoreName(c)
      /\ nextId' = nextId /\ request' = request /\ snapshot' = snapshot
  BY DEF Commit
<1>2. PICK v \in {"ok", "noRows", "failed"}, a \in Ids \union {NoId} :
        /\ Answer(c, v, a)
        /\ v = "ok" /\ request[c].kind = "add" => a \in Found(c)
        /\ v = "noRows" => request[c].kind = "add" /\ Found(c) = {}
  <2>1. Found(c) \subseteq Ids
    BY Types DEF Found
  <2>2. CASE \E k \in Found(c) : Answer(c, "ok", k)
    BY <2>1, <2>2
  <2>3. CASE /\ request[c].kind = "add" /\ Found(c) = {}
             /\ Answer(c, "noRows", NoId)
    BY <2>3
  <2>4. CASE request[c].kind \in {"rename", "delete"} /\ Answer(c, "ok", NoId)
    BY <2>4
  <2>5. CASE Answer(c, "failed", NoId)
    BY <2>5
  <2> QED
    BY <2>2, <2>3, <2>4, <2>5 DEF Commit
<1>3. /\ \A y \in Calls : /\ row'[y] = IF y = c THEN NoId ELSE row[y]
                          /\ step'[y] = IF y = c THEN "done" ELSE step[y]
                          /\ result'[y] = IF y = c THEN v ELSE result[y]
                          /\ answer'[y] = IF y = c THEN a ELSE answer[y]
      /\ row' \in [Calls -> Ids \union {NoId}]
      /\ step' \in [Calls -> {"new", "running", "locked", "ready", "done"}]
      /\ result' \in [Calls -> Results]
      /\ answer' \in [Calls -> Ids \union {NoId}]
  BY <1>2, Types DEF Answer, Results
<1>4. /\ \A k \in Ids : k # row[c] => name'[k] = name[k]
      /\ row[c] \in Ids => name'[row[c]] = IF request[c].kind = "delete" THEN NoName
                                           ELSE request[c].name
      /\ name' \in [Ids -> Names \union {NoName}]
  BY <1>1, Types DEF StoreName, Requests
<1>5. /\ \A y \in Calls : borne[y] \subseteq borne'[y] /\ borne'[y] \in SUBSET Ids
      /\ \A y \in Active : request[y].kind # "delete" =>
            borne'[y] = borne[y] \union Bearers(name', request[y].name)
      /\ borne' \in [Calls -> SUBSET Ids]
  BY <1>1, Types DEF StoreName, Active, Bearers
<1>6. /\ request[c].kind = "delete" <=> request[c].name = NoName
      /\ row[c] # NoId => row[c] < nextId
  <2>1. request[c].kind = "delete" <=> request[c].name = NoName
    BY <1>1 DEF IInv, RequestsFit
  <2>2. row[c] # NoId => row[c] < nextId
    BY <1>1 DEF IInv, RequestsFit, RowsHeld
  <2> QED
    BY <2>1, <2>2
<1>7. TypeOK'
  <2>1. \A k \in Ids : k >= nextId => name'[k] = NoName
    BY <1>4, <1>6, Types DEF Ids, NoId
  <2> QED
    BY <1>1, <1>3, <1>4, <1>5, <2>1 DEF IInv, TypeOK
<1>8. \A k \in Ids : name'[k] = name[k] \/ k = row[c]
  BY <1>4
<1>9. row[c] # NoId /\ request[c].kind # "delete" => c \in Naming
  BY <1>1 DEF Naming
<1>10. NamesUnique'
  <2> SUFFICES ASSUME NEW k \in Ids, NEW j \in Ids,
                      name'[k] = name'[j], name'[k] # NoName, k # j
               PROVE  FALSE
    BY DEF NamesUnique
  <2>1. CASE k # row[c] /\ j # row[c]
    BY <1>4, <2>1 DEF IInv, NamesUnique
  <2>2. ASSUME NEW x \in Ids, NEW z \in Ids, x # z, x = row[c],
               name'[x] = name'[z], name'[x] # NoName
        PROVE  FALSE
    <3>1. row[c] # NoId
      BY <2>2 DEF Ids, NoId
    <3>2. request[c].kind # "delete" /\ name'[x] = request[c].name
      BY <1>4, <2>2
    <3>3. name[z] = request[c].name
      BY <1>4, <2>2, <3>2
    <3> QED
      BY <1>9, <2>2, <3>1, <3>2, <3>3 DEF IInv, NamesTaken
  <2> QED
    BY <2>1, <2>2
<1>11. RequestsFit'
  BY <1>1, <1>3 DEF IInv, RequestsFit
<1>12. RowsHeld'
  <2>1. \A y \in Calls \ {c} : row[y] # NoId => name'[row[y]] = name[row[y]]
    BY <1>4, Types DEF IInv, RowsHeld
  <2> QED
    BY <1>1, <1>3, <2>1 DEF IInv, RowsHeld
<1>13. NamesTaken'
  <2>1. Naming' = Naming \ {c} /\ \A y \in Naming' : row'[y] = row[y] /\ step[y] = "ready"
    BY <1>1, <1>3 DEF Naming
  <2>2. ASSUME NEW y \in Naming', NEW k \in Ids, name'[k] = request[y].name
        PROVE  k = row[y]
    <3>1. y \in Naming /\ y # c /\ y \in Calls
      BY <2>1 DEF Naming
    <3>2. CASE k # row[c]
      BY <1>4, <2>2, <3>1, <3>2 DEF IInv, NamesTaken
    <3>3. CASE k = row[c]
      <4>1. row[c] # NoId
        BY <3>3 DEF Ids, NoId
      <4>2. request[y].name # NoName
        BY <3>1 DEF Naming, IInv, RequestsFit
      <4>3. request[c].kind # "delete" /\ request[c].name = request[y].name
        BY <1>4, <2>2, <3>3, <4>2
      <4> QED
        BY <1>9, <3>1, <4>1, <4>3 DEF IInv, NamesTaken
    <3> QED
      BY <3>2, <3>3
  <2> QED
    BY <1>1, <2>1, <2>2 DEF IInv, NamesTaken
<1>14. BorneNow'
  <2>1. Active' \subseteq Active
    BY <1>3 DEF Active
  <2> QED
    BY <1>1, <1>5, <2>1 DEF IInv, BorneNow, Bearers
<1>15. RowMet' /\ AnswersLast'
  BY <1>1, <1>3, <1>5 DEF IInv, RowMet, AnswersLast
<1>16. AnswerWasTrue'
  <2>1. request[c].kind = "add" => Found(c) \subseteq borne'[c]
    <3> SUFFICES ASSUME request[c].kind = "add", NEW k \in Found(c)
                 PROVE  k \in borne'[c]
      OBVIOUS
    <3>1. CASE k \in snapshot[c]
      BY <1>5, <3>1 DEF IInv, BorneNow
    <3>2. CASE k = row[c] /\ k # NoId
      <4>1. k \in Ids /\ name'[k] = request[c].name
        BY <1>4, <3>2, Types
      <4> QED
        BY <1>1, <1>5, <4>1 DEF Active, Bearers
    <3> QED
      BY <3>1, <3>2 DEF Found
  <2> QED
    BY <1>1, <1>2, <1>3, <1>5, <2>1 DEF IInv, AnswerWasTrue
<1>17. ErrorsExplained'
  <2>1. v = "noRows" => snapshot[c] = {} /\ borne'[c] # {}
    BY <1>1, <1>2, <1>5 DEF Found, IInv, RowMet
  <2> QED
    BY <1>1, <1>2, <1>3, <1>5, <2>1 DEF IInv, ErrorsExplained
<1> QED
  BY <1>7, <1>10, <1>11, <1>12, <1>13, <1>14, <1>15, <1>16, <1>17 DEF IInv

LEMMA IInvHolds == Spec => []IInv
<1>1. IInv /\ [Next]_vars => IInv'
  <2> SUFFICES ASSUME IInv, [Next]_vars
               PROVE  IInv'
    OBVIOUS
  <2>1. CASE UNCHANGED vars
    <3>1. /\ name' = name /\ nextId' = nextId /\ request' = request /\ step' = step
          /\ row' = row /\ snapshot' = snapshot /\ result' = result
          /\ answer' = answer /\ borne' = borne
      BY <2>1 DEF vars
    <3>2. TypeOK' /\ NamesUnique' /\ RequestsFit' /\ RowsHeld'
      BY <3>1 DEF IInv, TypeOK, NamesUnique, RequestsFit, RowsHeld
    <3>3. NamesTaken' /\ BorneNow' /\ RowMet'
      BY <3>1 DEF IInv, NamesTaken, Naming, BorneNow, Active, RowMet
    <3>4. AnswersLast' /\ AnswerWasTrue' /\ ErrorsExplained'
      BY <3>1 DEF IInv, AnswersLast, AnswerWasTrue, ErrorsExplained
    <3> QED
      BY <3>2, <3>3, <3>4 DEF IInv
  <2>2. ASSUME NEW c \in Calls, CallStep(c)
        PROVE  IInv'
    <3>1. CASE Begin(c) \/ LockRow(c) \/ WriteName(c) \/ InsertRow(c) \/ Commit(c)
      BY <3>1, BeginKeeps, LockRowKeeps, WriteNameKeeps, InsertRowKeeps, CommitKeeps
    <3>2. CASE Fail(c)
      BY <3>2, AnswerKeeps DEF Fail
    <3>3. CASE EndDeadlock(c)
      <4>1. step[c] \in {"running", "locked", "ready"}
        BY <3>3 DEF EndDeadlock, Circle, WaitsFor
      <4> QED
        BY <3>3, <4>1, AnswerKeeps DEF EndDeadlock
    <3> QED
      BY <2>2, <3>1, <3>2, <3>3 DEF CallStep
  <2> QED
    BY <2>1, <2>2 DEF Next
<1> QED
  BY <1>1, InitHolds, PTL DEF Spec

-----------------------------------------------------------------------------
\* Every variable has values of its type, and ids that the sequence has not
\* given have no row.
THEOREM TypeCorrect == Spec => []TypeOK
<1>1. IInv => TypeOK
  BY DEF IInv
<1> QED
  BY <1>1, IInvHolds, PTL

\* The id that an add is answered with bore the name during the call.
THEOREM AnswersWereTrue == Spec => []AnswerWasTrue
<1>1. IInv => AnswerWasTrue
  BY DEF IInv
<1> QED
  BY <1>1, IInvHolds, PTL

\* An add without an id was overtaken, and a rename is refused only for a name
\* that another row bore.
THEOREM ErrorsAreExplained == Spec => []ErrorsExplained
<1>1. IInv => ErrorsExplained
  BY DEF IInv
<1> QED
  BY <1>1, IInvHolds, PTL

\* Two adds of a name do not leave two rows that bear it.
THEOREM AddsDoAgree == Spec => []AddsAgree
<1>1. IInv => AddsAgree
  <2> SUFFICES ASSUME IInv, NEW c \in Calls, NEW y \in Calls,
                      request[c].kind = "add", request[y].kind = "add",
                      result[c] = "ok", result[y] = "ok",
                      request[c].name = request[y].name,
                      name[answer[c]] = request[c].name,
                      name[answer[y]] = request[y].name
               PROVE  answer[c] = answer[y]
    BY DEF AddsAgree
  <2>1. request[c].name # NoName
    BY DEF IInv, AnswersLast, RequestsFit
  <2>2. answer[c] \in Ids /\ answer[y] \in Ids
    BY Types DEF IInv, AnswerWasTrue
  <2> QED
    BY <2>1, <2>2 DEF IInv, NamesUnique
<1> QED
  BY <1>1, IInvHolds, PTL
=============================================================================
