---------------------------- MODULE OrderStatus ----------------------------
(***************************************************************************)
(* What the service promises about one row of the orders table, whatever  *)
(* workers, bot handlers and retries lie behind it.  An order is placed   *)
(* once, is paid only after its customer was charged, is received only    *)
(* after it was paid, and can be canceled until it is received.  The      *)
(* status names are the constants of entity/order.go.                     *)
(*                                                                         *)
(* Overridable is the set of statuses that, beyond PROCESS and PAID, a    *)
(* cancellation may overwrite.  It is empty in the promise a reader of    *)
(* the conditional updates would expect.                                  *)
(***************************************************************************)
CONSTANTS Orders, Overridable

VARIABLES
    status,     \* orders.status, "NONE" while there is no committed row
    charged     \* the orders whose customer was charged at least once

vars == <<status, charged>>

Init ==
    /\ status = [o \in Orders |-> "NONE"]
    /\ charged = {}

Move(o, new) == status' = [status EXCEPT ![o] = new]

Place(o) ==
    /\ status[o] = "NONE"
    /\ Move(o, "PROCESS")
    /\ UNCHANGED charged

\* Money is only ever taken for an order that was placed.
Charge(o) ==
    /\ status[o] # "NONE"
    /\ charged' = charged \union {o}
    /\ UNCHANGED status

Pay(o) ==
    /\ status[o] = "PROCESS"
    /\ o \in charged
    /\ Move(o, "PAID")
    /\ UNCHANGED charged

Cancel(o) ==
    /\ status[o] \in {"PROCESS", "PAID"} \union Overridable
    /\ Move(o, "CANCELED")
    /\ UNCHANGED charged

Receive(o) ==
    /\ status[o] = "PAID"
    /\ Move(o, "SUCCESS")
    /\ UNCHANGED charged

Next ==
    \E o \in Orders :
        Place(o) \/ Charge(o) \/ Pay(o) \/ Cancel(o) \/ Receive(o)

Spec == Init /\ [][Next]_vars

\* A placed order does not stay open: it is paid or canceled.
Settles == \A o \in Orders : status[o] = "PROCESS" ~> status[o] # "PROCESS"
=============================================================================
