---------------------------- MODULE MCDishImages ----------------------------
(* Values for TLC: calls are interchangeable, and so are dishes. *)
EXTENDS DishImages, TLC

AnyCallAnyDish == Permutations(Calls) \union Permutations(Dishes)
=============================================================================
