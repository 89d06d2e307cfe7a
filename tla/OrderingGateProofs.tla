------------------------- MODULE OrderingGateProofs -------------------------
(***************************************************************************)
(* For any number of calls and of periods: the switch as long as calls do *)
(* not overlap, and as long as no two calls open it against each other.    *)
(***************************************************************************)
EXTENDS OrderingGate, TLAPS

\* Without overlap a call is alone, so what it read still holds when it writes.
Alone ==
    \A c, d \in Calls : step[c] # "idle" /\ step[d] # "idle" => c = d

ReadStillHolds ==
    \A c \in Calls :
        /\ step[c] = "opening" => want[c] /\ ~IsOrderingAllowed
        /\ step[c] \in {"closing", "chosen"} => ~want[c]
        /\ step[c] = "chosen" => rows[c] = Open

\* Without a race the switch is closed as long as a call is about to open it, and
\* a call that is about to close the periods it chose has seen it closed, or
\* leaves none open.
OpensAlone ==
    /\ \A c, d \in Calls : step[c] = "opening" /\ step[d] = "opening" => c = d
    /\ \A c \in Calls : step[c] = "opening" => Open = {}
    /\ \A p, q \in Open : p = q

WatchKeeps ==
    \A c \in Calls :
        /\ step[c] # "idle" => IsOrderingAllowed \in seen[c]
        /\ step[c] = "chosen" => FALSE \in seen[c] \/ rows[c] = Open

IInv ==
    /\ TypeOK
    /\ ~raced => OpensAlone /\ WatchKeeps
    /\ ~overlapped =>
        /\ Alone
        /\ ReadStillHolds
        /\ answer # "error" => IsOrderingAllowed = (answer = "open")

-----------------------------------------------------------------------------
USE DEF Periods

\* Type correctness is kept by every step.
LEMMA TypeStep ==
    ASSUME TypeOK, [Next]_vars
    PROVE  TypeOK'
<1> USE GateAssumption DEF TypeOK, StepGoes
<1>0. Watch => seen' \in [Calls -> SUBSET BOOLEAN]
  <2> SUFFICES ASSUME Watch, NEW c \in Calls
               PROVE  (IF step'[c] = "idle" THEN {} ELSE seen[c] \union {IsOrderingAllowed'})
                        \in SUBSET BOOLEAN
    BY DEF Watch
  <2>1. IsOrderingAllowed' \in BOOLEAN
    BY DEF IsOrderingAllowed
  <2> QED BY <2>1
<1>1. ASSUME NEW c \in Calls, CallStep(c), Watch PROVE TypeOK'
  <2>1. CASE NothingToDo(c) \/ ReadSwitch(c) \/ Fail(c)
    BY <1>0, <1>1, <2>1 DEF NothingToDo, ReadSwitch, Fail
  <2>2. CASE InsertAllowOrderingAudit(c)
    BY <1>0, <1>1, <2>2 DEF InsertAllowOrderingAudit
  <2>3. CASE ChooseOpenPeriods(c)
    BY <1>0, <1>1, <2>3 DEF ChooseOpenPeriods, Open
  <2>4. CASE SetOrderingAuditEndPeriod(c)
    BY <1>0, <1>1, <2>4 DEF SetOrderingAuditEndPeriod
  <2> QED BY <1>1, <2>1, <2>2, <2>3, <2>4 DEF CallStep
<1>2. ASSUME NEW c \in Calls, NEW b \in BOOLEAN, SetOrderingAllowed(c, b), Watch
      PROVE  TypeOK'
  BY <1>0, <1>2 DEF SetOrderingAllowed
<1>3. CASE UNCHANGED vars
  BY <1>3 DEF vars
<1> QED BY <1>1, <1>2, <1>3 DEF Next

\* The invariant holds at first: no period, no call.
LEMMA InitIInv == Init => IInv
BY GateAssumption
   DEF Init, IInv, TypeOK, Alone, ReadStillHolds, OpensAlone, WatchKeeps, Open,
       IsOrderingAllowed

\* What the steps do to the set of open periods.
LEMMA OpenAfter ==
    ASSUME TypeOK, NEW c \in Calls
    PROVE  /\ UNCHANGED period => Open' = Open
           /\ InsertAllowOrderingAudit(c) =>
                \E p \in Periods : p \notin Open /\ Open' = Open \union {p}
           /\ SetOrderingAuditEndPeriod(c) => Open' = Open \ rows[c]
<1>1. UNCHANGED period => Open' = Open
  BY DEF Open
<1>2. ASSUME InsertAllowOrderingAudit(c)
      PROVE  \E p \in Periods : p \notin Open /\ Open' = Open \union {p}
  BY <1>2 DEF InsertAllowOrderingAudit, Open, TypeOK
<1>3. ASSUME SetOrderingAuditEndPeriod(c)
      PROVE  Open' = Open \ rows[c]
  BY <1>3 DEF SetOrderingAuditEndPeriod, Open, TypeOK
<1> QED BY <1>1, <1>2, <1>3

\* As long as calls do not open the switch against each other.
LEMMA RaceFreeStep ==
    ASSUME IInv, [Next]_vars, ~raced'
    PROVE  ~raced /\ OpensAlone' /\ WatchKeeps'
<1>0. TypeOK /\ TypeOK'
  BY TypeStep DEF IInv
<1> USE DEF StepGoes
<1>a. ~raced
  BY <1>0 DEF Next, CallStep, NothingToDo, ReadSwitch, InsertAllowOrderingAudit,
              ChooseOpenPeriods, SetOrderingAuditEndPeriod, Fail,
              SetOrderingAllowed, vars, TypeOK
<1>b. OpensAlone /\ WatchKeeps
  BY <1>a DEF IInv
<1>1. CASE UNCHANGED vars
  BY <1>1, <1>b DEF vars, OpensAlone, WatchKeeps, Open, IsOrderingAllowed
<1>2. CASE Next
  <2>1. PICK c \in Calls :
            CallStep(c) \/ \E b \in BOOLEAN : SetOrderingAllowed(c, b)
    BY <1>2 DEF Next
  <2>2. \A d \in Calls : d # c => step'[d] = step[d]
    BY <1>0, <2>1
       DEF CallStep, NothingToDo, ReadSwitch, InsertAllowOrderingAudit,
           ChooseOpenPeriods, SetOrderingAuditEndPeriod, Fail,
           SetOrderingAllowed, TypeOK
  <2>3. \A d \in Calls : step'[d] # "idle" =>
            IsOrderingAllowed' \in seen'[d] /\ seen[d] \subseteq seen'[d]
    <3>1. \A d \in Calls : step'[d] # "idle" =>
            seen'[d] = seen[d] \union {IsOrderingAllowed'}
      BY <1>2, Zenon DEF Next, Watch
    <3> QED BY <3>1, Zenon
\* Whether the set of open periods stays, grows or shrinks.
  <2>4. CASE /\ Open' = Open
             /\ step'[c] = "opening" =>
                    Open = {} /\ \A d \in Calls : step[d] # "opening"
             /\ step'[c] = "chosen" => rows'[c] = Open
             /\ \A d \in Calls : d # c => rows'[d] = rows[d]
    <3>1. OpensAlone'
      BY <1>b, <2>2, <2>4 DEF OpensAlone
    <3>2. ASSUME NEW d \in Calls, step'[d] = "chosen"
          PROVE  FALSE \in seen'[d] \/ rows'[d] = Open'
      BY <1>b, <2>2, <2>3, <2>4, <3>2 DEF WatchKeeps
    <3> QED BY <1>a, <2>3, <3>1, <3>2, Zenon DEF WatchKeeps
  <2>5. CASE InsertAllowOrderingAudit(c)
    <3>1. Open = {} /\ step[c] = "opening" /\ step'[c] = "idle" /\ rows' = rows
      BY <1>0, <1>b, <2>5 DEF InsertAllowOrderingAudit, OpensAlone, TypeOK
    <3>2. PICK p \in Periods : Open' = {p}
      BY <1>0, <2>5, <3>1, OpenAfter
    <3>3. \A d \in Calls : step'[d] # "opening"
      BY <1>b, <2>2, <3>1 DEF OpensAlone
    <3>4. OpensAlone'
      BY <3>2, <3>3 DEF OpensAlone
    <3>5. ASSUME NEW d \in Calls, step'[d] = "chosen"
          PROVE  FALSE \in seen'[d]
      <4>1. d # c /\ step[d] = "chosen"
        BY <2>2, <3>1, <3>5
      <4>2. FALSE \in seen[d]
        BY <1>b, <3>1, <4>1 DEF WatchKeeps, IsOrderingAllowed
      <4> QED BY <2>3, <3>5, <4>2
    <3> QED BY <1>a, <2>3, <3>4, <3>5, Zenon DEF WatchKeeps
  <2>6. CASE SetOrderingAuditEndPeriod(c)
    <3>1. Open' = Open \ rows[c] /\ step'[c] = "idle" /\ rows' = rows
      BY <1>0, <2>6, OpenAfter DEF SetOrderingAuditEndPeriod, TypeOK
    <3>2. OpensAlone'
      BY <1>b, <2>2, <3>1 DEF OpensAlone
    <3>3. Open' = Open \/ Open' = {}
      BY <1>b, <3>1 DEF OpensAlone
    <3>4. ASSUME NEW d \in Calls, step'[d] = "chosen"
          PROVE  FALSE \in seen'[d] \/ rows'[d] = Open'
      <4>1. d # c /\ step[d] = "chosen"
        BY <2>2, <3>1, <3>4
      <4>2. CASE Open' = {}
        BY <2>3, <3>4, <4>2 DEF IsOrderingAllowed
      <4>3. CASE Open' = Open
        BY <1>b, <2>3, <3>1, <3>4, <4>1, <4>3 DEF WatchKeeps
      <4> QED BY <3>3, <4>2, <4>3
    <3> QED BY <1>a, <2>3, <3>2, <3>4, Zenon DEF WatchKeeps
  <2>7. CASE ReadSwitch(c)
    <3>1. want[c] => ~(\E d \in Calls : step[d] = "opening")
      BY <2>7 DEF ReadSwitch
    <3>2. step'[c] = IF want[c] THEN "opening" ELSE "closing"
      BY <1>0, <2>7 DEF ReadSwitch, TypeOK
    <3>3. want[c] => Open = {}
      BY <1>0, <2>7 DEF ReadSwitch, IsOrderingAllowed, TypeOK
    <3>4. Open' = Open /\ rows' = rows
      BY <1>0, <2>7, OpenAfter DEF ReadSwitch
    <3> QED BY <2>4, <3>1, <3>2, <3>3, <3>4
  <2>8. CASE ChooseOpenPeriods(c)
    <3>1. /\ step'[c] = "chosen" /\ Open' = Open
          /\ \A d \in Calls : rows'[d] = IF d = c THEN Open ELSE rows[d]
      BY <1>0, <2>8, OpenAfter DEF ChooseOpenPeriods, TypeOK
    <3> QED BY <2>4, <3>1
  <2>9. CASE \/ NothingToDo(c) \/ Fail(c)
             \/ \E b \in BOOLEAN : SetOrderingAllowed(c, b)
    <3>1. step'[c] \in {"idle", "called"} /\ Open' = Open /\ rows' = rows
      BY <1>0, <2>9, OpenAfter DEF NothingToDo, Fail, SetOrderingAllowed, TypeOK
    <3> QED BY <2>4, <3>1
  <2> QED BY <2>1, <2>5, <2>6, <2>7, <2>8, <2>9 DEF CallStep
<1> QED BY <1>1, <1>2, <1>a

\* Without overlap there is no race.
LEMMA AloneStep ==
    ASSUME IInv, [Next]_vars, ~overlapped'
    PROVE  /\ Alone'
           /\ ReadStillHolds'
           /\ answer' # "error" => IsOrderingAllowed' = (answer' = "open")
<1>0. TypeOK /\ TypeOK'
  BY TypeStep DEF IInv
<1> USE DEF StepGoes
<1>b. ~overlapped
  BY DEF Next, CallStep, NothingToDo, ReadSwitch,
         InsertAllowOrderingAudit, ChooseOpenPeriods, SetOrderingAuditEndPeriod,
         Fail, SetOrderingAllowed, vars
<1>a. /\ Alone
      /\ ReadStillHolds
      /\ answer # "error" => IsOrderingAllowed = (answer = "open")
  BY <1>b DEF IInv
<1>1. ASSUME NEW c \in Calls, CallStep(c)
      PROVE  /\ Alone'
             /\ ReadStillHolds'
             /\ answer' # "error" => IsOrderingAllowed' = (answer' = "open")
  <2>1. Alone'
    BY <1>0, <1>1, <1>a
       DEF CallStep, NothingToDo, ReadSwitch, InsertAllowOrderingAudit,
           ChooseOpenPeriods, SetOrderingAuditEndPeriod, Fail, Alone, TypeOK
  <2>2. CASE NothingToDo(c) \/ ReadSwitch(c) \/ Fail(c)
    BY <1>0, <1>a, <2>1, <2>2
       DEF NothingToDo, ReadSwitch, Fail, ReadStillHolds, Open,
           IsOrderingAllowed, TypeOK
  <2>3. CASE ChooseOpenPeriods(c)
    BY <1>0, <1>a, <2>1, <2>3
       DEF ChooseOpenPeriods, ReadStillHolds, Open, IsOrderingAllowed, TypeOK
  <2>4. CASE InsertAllowOrderingAudit(c)
    <3>1. \A d \in Calls : step'[d] = "idle"
      BY <1>0, <1>a, <2>4 DEF InsertAllowOrderingAudit, Alone, TypeOK
    <3>2. Open' # {}
      BY <1>0, <2>4, OpenAfter
    <3>3. answer' \in {"open", "error"}
      BY <2>4 DEF InsertAllowOrderingAudit
    <3> QED BY <1>0, <2>1, <3>1, <3>2, <3>3
            DEF ReadStillHolds, IsOrderingAllowed, TypeOK
  <2>5. CASE SetOrderingAuditEndPeriod(c)
    <3>1. \A d \in Calls : step'[d] = "idle"
      BY <1>0, <1>a, <2>5 DEF SetOrderingAuditEndPeriod, Alone, TypeOK
    <3>2. rows[c] = Open
      BY <1>a, <2>5 DEF SetOrderingAuditEndPeriod, ReadStillHolds
    <3>3. Open' = {}
      BY <1>0, <2>5, <3>2, OpenAfter
    <3>4. answer' \in {"closed", "error"}
      BY <2>5 DEF SetOrderingAuditEndPeriod
    <3> QED BY <1>0, <2>1, <3>1, <3>3, <3>4
            DEF ReadStillHolds, IsOrderingAllowed, TypeOK
  <2> QED BY <1>1, <2>2, <2>3, <2>4, <2>5 DEF CallStep
<1>2. ASSUME NEW c \in Calls, NEW b \in BOOLEAN, SetOrderingAllowed(c, b)
      PROVE  /\ Alone'
             /\ ReadStillHolds'
             /\ answer' # "error" => IsOrderingAllowed' = (answer' = "open")
  <2>1. \A d \in Calls : step[d] = "idle"
    BY <1>2 DEF SetOrderingAllowed, Idle
  <2>2. Open' = Open /\ answer' = answer
    BY <1>2 DEF SetOrderingAllowed, Open
  <2>3. \A d \in Calls : step'[d] # "idle" => d = c /\ step'[d] = "called"
    BY <1>0, <1>2, <2>1 DEF SetOrderingAllowed, TypeOK
  <2> QED BY <1>a, <2>2, <2>3 DEF Alone, ReadStillHolds, IsOrderingAllowed
<1>3. CASE UNCHANGED vars
  BY <1>3, <1>a DEF vars, Alone, ReadStillHolds, Open, IsOrderingAllowed
<1> QED BY <1>1, <1>2, <1>3 DEF Next

\* The invariant the properties follow from: what a call read of the periods
\* (service/order.go:99) holds when it writes, without overlap; and the switch
\* stays closed until it is opened, without a race.
THEOREM Invariance == Spec => []IInv
<1>1. IInv /\ [Next]_vars => IInv'
  BY TypeStep, RaceFreeStep, AloneStep DEF IInv
<1> QED BY InitIInv, <1>1, PTL DEF Spec

\* Every variable keeps its type.
THEOREM TypeCorrect == Spec => []TypeOK
<1>1. IInv => TypeOK
  BY DEF IInv
<1> QED BY Invariance, <1>1, PTL

\* A second period takes two calls that both found ordering closed before
\* either had opened it (service/order.go:99-115).
THEOREM OnePeriod == Spec => []AtMostOneOpen
<1>1. IInv => AtMostOneOpen
  BY DEF IInv, OpensAlone, AtMostOneOpen
<1> QED BY Invariance, <1>1, PTL

\* What calls that do not overlap answered stands until the next call
\* (bot/controller/order.go:163-176).
THEOREM AnswersStand == Spec => []AnswerStands
<1>1. IInv => AnswerStands
  BY DEF IInv, AnswerStands
<1> QED BY Invariance, <1>1, PTL

\* However calls overlap, and whichever of them fail, an answer is true at some
\* time between the call and the answer (service/order.go:85-118).
THEOREM AnswersTrue == Spec => AnswersWereTrue
<1> DEFINE A ==
    \A c \in Calls :
        ~raced /\ step[c] # "idle" /\ step'[c] = "idle" /\ answer' # "error"
        => (answer' = "open") \in seen[c] \union {IsOrderingAllowed'}
<1>1. ASSUME IInv, [Next]_vars PROVE [A]_vars
  <2> SUFFICES ASSUME NEW c \in Calls, ~raced, step[c] # "idle",
                      step'[c] = "idle", answer' # "error"
               PROVE  (answer' = "open") \in seen[c] \union {IsOrderingAllowed'}
    OBVIOUS
  <2>0. TypeOK /\ OpensAlone /\ WatchKeeps
    BY <1>1 DEF IInv
  <2> USE DEF StepGoes
  <2>1. NothingToDo(c) \/ InsertAllowOrderingAudit(c) \/ SetOrderingAuditEndPeriod(c)
    BY <1>1, <2>0
       DEF Next, CallStep, NothingToDo, ReadSwitch, InsertAllowOrderingAudit,
           ChooseOpenPeriods, SetOrderingAuditEndPeriod, Fail,
           SetOrderingAllowed, vars, TypeOK
  <2>2. CASE NothingToDo(c)
    <3>1. IsOrderingAllowed \in seen[c] /\ IsOrderingAllowed \in BOOLEAN
      BY <2>0 DEF WatchKeeps, IsOrderingAllowed
    <3>2. want[c] \in BOOLEAN /\ IsOrderingAllowed = want[c]
      BY <2>0, <2>2 DEF NothingToDo, TypeOK
    <3>3. answer' = IF want[c] THEN "open" ELSE "closed"
      BY <2>2 DEF NothingToDo
    <3> QED BY <3>1, <3>2, <3>3
  <2>3. CASE InsertAllowOrderingAudit(c)
    <3>1. IsOrderingAllowed' = TRUE
      BY <2>0, <2>3, OpenAfter DEF IsOrderingAllowed
    <3>2. answer' = "open"
      BY <2>3 DEF InsertAllowOrderingAudit
    <3> QED BY <3>1, <3>2
  <2>4. CASE SetOrderingAuditEndPeriod(c)
    <3>1. step[c] = "chosen" /\ answer' = "closed" /\ Open' = Open \ rows[c]
      BY <2>0, <2>4, OpenAfter DEF SetOrderingAuditEndPeriod
    <3>2. FALSE \in seen[c] \/ Open' = {}
      BY <2>0, <3>1 DEF WatchKeeps
    <3> QED BY <3>1, <3>2 DEF IsOrderingAllowed
  <2> QED BY <2>1, <2>2, <2>3, <2>4
<1> QED BY Invariance, <1>1, PTL DEF Spec, AnswersWereTrue
=============================================================================
