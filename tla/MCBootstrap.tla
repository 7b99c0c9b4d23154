----------------------------- MODULE MCBootstrap -----------------------------
(* Instances of Bootstrap for TLC.                                         *)
EXTENDS Bootstrap, TLC

Interchangeable == Permutations(Proc) \cup Permutations(Token)

=============================================================================
