--------------------------- MODULE MCRefreshTokens ---------------------------
(* Instances of RefreshTokens for TLC.                                     *)
EXTENDS RefreshTokens, TLC

Interchangeable == Permutations(Token) \cup Permutations(Proc) \cup Permutations(Client)

=============================================================================
