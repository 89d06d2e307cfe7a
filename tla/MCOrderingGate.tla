--------------------------- MODULE MCOrderingGate ---------------------------
(* Values for TLC: calls are interchangeable. *)
EXTENDS OrderingGate, TLC

AnyCall == Permutations(Calls)
=============================================================================
