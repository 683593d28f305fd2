--------------------------- MODULE MCAccessTokens ---------------------------
(* A small instance of AccessTokens for TLC. *)
EXTENDS AccessTokens, TLC

Interchangeable ==
  Permutations(Users) \cup Permutations(Workers) \cup Permutations(Sessions)
=============================================================================
