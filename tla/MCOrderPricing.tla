--------------------------- MODULE MCOrderPricing ---------------------------
(* Values for TLC: dishes are interchangeable. *)
EXTENDS OrderPricing, TLC

AnyDish == Permutations(Dishes)
=============================================================================
