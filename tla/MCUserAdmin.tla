---------------------------- MODULE MCUserAdmin ----------------------------
(* Values for TLC: people are interchangeable, and so are calls and names.  *)
EXTENDS UserAdmin, TLC

AnyPersonAnyName ==
    Permutations(People) \union Permutations(Calls)
        \union Permutations(Names \ {Deleted})
=============================================================================
