----------------------- MODULE MCCatalogTransactions -----------------------
(* Values for TLC: ids of one table are interchangeable, and so are names and calls. *)
EXTENDS CatalogTransactions, TLC

AnyId ==
    Permutations(Calls) \union Permutations(Dishes) \union Permutations(Names)
        \union Permutations(Categories) \union Permutations(Restaurants)
=============================================================================
