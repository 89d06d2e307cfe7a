-------------------------- MODULE MCCategoryNames --------------------------
(* Values for TLC: calls are interchangeable, and so are names. *)
EXTENDS CategoryNames, TLC

AnyCallAnyName == Permutations(Calls) \union Permutations(Names)
=============================================================================
