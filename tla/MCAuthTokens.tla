---------------------------- MODULE MCAuthTokens ----------------------------
(* Values for TLC: people are interchangeable. *)
EXTENDS AuthTokens, TLC

AnyUser == Permutations(Users)
=============================================================================
