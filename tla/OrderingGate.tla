---------------------------- MODULE OrderingGate ----------------------------
(***************************************************************************)
(* The switch the admins open and close ordering with.  Ordering is       *)
(* allowed while a row of allow_ordering_audit has no end_period.  A call *)
(* of SetOrderingAllowed reads the switch, then opens a period or closes  *)
(* those it finds, in one transaction under READ COMMITTED: what it reads *)
(* is committed, and may be out of date when it writes.                   *)
(*                                                                         *)
(* An UPDATE chooses its rows when it starts and writes those that still  *)
(* match; nothing of it is visible before the commit.  So the search for  *)
(* open periods is a step of its own, and the write takes effect together *)
(* with the commit.                                                        *)
(*                                                                         *)
(* Whether two calls can be under way at once depends on the bot library. *)
(***************************************************************************)
EXTENDS Naturals

CONSTANTS
    Calls,          \* calls of SetOrderingAllowed that can be under way
    MaxPeriods      \* bound: rows ever inserted

ASSUME GateAssumption == MaxPeriods \in Nat

Periods == 1 .. MaxPeriods

VARIABLES
    period,     \* the rows: "none" (not inserted), "open", or "closed"
    step,       \* how far a call has come
    want,       \* what it was called with
    rows,       \* the periods its UPDATE chose
    answer,     \* what the last call came to: ordering is open, closed, or an error
    overlapped, \* have two calls ever been under way at once? (history)
    raced,      \* has a call found it closed before another one that had opened
                \* it? (history)
    seen        \* how the switch has stood since a call began (history)

vars == <<period, step, want, rows, answer, overlapped, raced, seen>>

Open == {p \in Periods : period[p] = "open"}

IsOrderingAllowed == Open # {}

TypeOK ==
    /\ period \in [Periods -> {"none", "open", "closed"}]
    /\ step \in [Calls -> {"idle", "called", "opening", "closing", "chosen"}]
    /\ want \in [Calls -> BOOLEAN]
    /\ rows \in [Calls -> SUBSET Periods]
    /\ answer \in {"open", "closed", "error"}
    /\ overlapped \in BOOLEAN
    /\ raced \in BOOLEAN
    /\ seen \in [Calls -> SUBSET BOOLEAN]

Init ==
    /\ period = [p \in Periods |-> "none"]
    /\ step = [c \in Calls |-> "idle"]
    /\ want = [c \in Calls |-> FALSE]
    /\ rows = [c \in Calls |-> {}]
    /\ answer = "closed"
    /\ overlapped = FALSE
    /\ raced = FALSE
    /\ seen = [c \in Calls |-> {}]

Idle == \A c \in Calls : step[c] = "idle"

StepGoes(c, from, to) ==
    /\ step[c] = from
    /\ step' = [step EXCEPT ![c] = to]

SetOrderingAllowed(c, isAllowed) ==
    /\ StepGoes(c, "idle", "called")
    /\ want' = [want EXCEPT ![c] = isAllowed]
    /\ overlapped' = (overlapped \/ ~Idle)
    /\ UNCHANGED <<period, rows, answer, raced>>

\* Mutant: the early return is taken when the switch stands the other way.
BugInvertedReturn(c) ==
    /\ IsOrderingAllowed # want[c]
    /\ StepGoes(c, "called", "idle")
    /\ answer' = IF want[c] THEN "open" ELSE "closed"
    /\ UNCHANGED <<period, want, rows, overlapped, raced>>

\* The early return: the switch already stands as wanted.
NothingToDo(c) ==
    /\ IsOrderingAllowed = want[c]
    /\ StepGoes(c, "called", "idle")
    /\ answer' = IF want[c] THEN "open" ELSE "closed"
    /\ UNCHANGED <<period, want, rows, overlapped, raced>>

\* Mutant: a period is opened without looking whether one is open.
BugAlwaysOpen(c) ==
    /\ want[c] \/ IsOrderingAllowed
    /\ StepGoes(c, "called", IF want[c] THEN "opening" ELSE "closing")
    /\ raced' = (raced \/ (want[c] /\ \E d \in Calls : step[d] = "opening"))
    /\ UNCHANGED <<period, want, rows, answer, overlapped>>

ReadSwitch(c) ==
    /\ IsOrderingAllowed # want[c]
    /\ StepGoes(c, "called", IF want[c] THEN "opening" ELSE "closing")
    /\ raced' = (raced \/ (want[c] /\ \E d \in Calls : step[d] = "opening"))
    /\ UNCHANGED <<period, want, rows, answer, overlapped>>

\* A serial id: the first one not used yet.
InsertAllowOrderingAudit(c) ==
    /\ StepGoes(c, "opening", "idle")
    /\ \E p \in Periods :
        /\ period[p] = "none"
        /\ \A q \in Periods : q < p => period[q] # "none"
        /\ period' = [period EXCEPT ![p] = "open"]
    /\ answer' \in {"open", "error"}
    /\ UNCHANGED <<want, rows, overlapped, raced>>

ChooseOpenPeriods(c) ==
    /\ StepGoes(c, "closing", "chosen")
    /\ rows' = [rows EXCEPT ![c] = Open]
    /\ UNCHANGED <<period, want, answer, overlapped, raced>>

\* Mutant: every row is given a state the schema does not know.
BugEndedPeriod(c) ==
    /\ \A p, q \in rows[c] \intersect Open : p = q
    /\ StepGoes(c, "chosen", "idle")
    /\ period' = [p \in Periods |->
                    IF p \in rows[c] \intersect Open THEN "ended"
                                                     ELSE period[p]]
    /\ answer' \in {"closed", "error"}
    /\ UNCHANGED <<want, rows, overlapped, raced>>

\* One timestamp goes to every row, and end_period is UNIQUE: two rows at once
\* are an error of the statement.
SetOrderingAuditEndPeriod(c) ==
    /\ \A p, q \in rows[c] \intersect Open : p = q
    /\ StepGoes(c, "chosen", "idle")
    /\ period' = [p \in Periods |->
                    IF p \in rows[c] \intersect Open THEN "closed"
                                                     ELSE period[p]]
    /\ answer' \in {"closed", "error"}
    /\ UNCHANGED <<want, rows, overlapped, raced>>

\* Mutant: the error of the transaction is dropped.
BugSwallowedError(c) ==
    /\ step[c] # "idle"
    /\ step' = [step EXCEPT ![c] = "idle"]
    /\ answer' = IF want[c] THEN "open" ELSE "closed"
    /\ UNCHANGED <<period, want, rows, overlapped, raced>>

\* The statement or the commit fails, and the transaction rolls back.  (When
\* only the database's answer to the commit is lost, the writes above end in
\* an error as well.)
Fail(c) ==
    /\ step[c] # "idle"
    /\ step' = [step EXCEPT ![c] = "idle"]
    /\ answer' = "error"
    /\ UNCHANGED <<period, want, rows, overlapped, raced>>

CallStep(c) ==
    \/ NothingToDo(c) \/ ReadSwitch(c) \/ InsertAllowOrderingAudit(c)
    \/ ChooseOpenPeriods(c) \/ SetOrderingAuditEndPeriod(c) \/ Fail(c)

\* What the calls under way have seen of the switch.
Watch ==
    seen' = [c \in Calls |->
                IF step'[c] = "idle" THEN {} ELSE seen[c] \union {IsOrderingAllowed'}]

Next ==
    /\ \E c \in Calls :
        \/ CallStep(c)
        \/ \E isAllowed \in BOOLEAN : SetOrderingAllowed(c, isAllowed)
    /\ Watch

Spec == Init /\ [][Next]_vars

-----------------------------------------------------------------------------
(* Properties. *)

\* What keeps ForbidOrdering working: a second period is open only if two calls
\* both found ordering closed before either had opened it.  Calls that overlap in
\* any other way, or fail, do no harm (service/order.go:99-115).
AtMostOneOpen == ~raced => \A p, q \in Open : p = q

\* Between calls, ordering stands as the admins were last told
\* (bot/controller/order.go:163-176), unless the last call failed or calls have
\* overlapped; a call after any number of failed ones finds its way back.
AnswerStands ==
    ~overlapped /\ Idle /\ answer # "error"
        => IsOrderingAllowed = (answer = "open")

\* Calls may overlap and close what another one has just opened.  Still nobody is
\* told that ordering is open, or closed, if it has not been so at any time since
\* the call began, or is so now; two open periods excepted, of which a close
\* may have chosen one (service/order.go:85-118).
AnswersWereTrue ==
    [][\A c \in Calls :
        ~raced /\ step[c] # "idle" /\ step'[c] = "idle" /\ answer' # "error"
        => (answer' = "open") \in seen[c] \union {IsOrderingAllowed'}]_vars
=============================================================================
