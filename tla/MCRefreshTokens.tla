--------------------------- MODULE MCRefreshTokens ---------------------------
(* Three requests at a time: two that race for one token and a logout.       *)
EXTENDS RefreshTokens, TLC

MCSymmetry == Permutations(Handler)
=============================================================================
