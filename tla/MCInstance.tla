----------------------------- MODULE MCInstance ------------------------------
(* Instance of InstanceAdmins for TLC.                                     *)
EXTENDS InstanceAdmins, TLC

(* Proc and Operator are the same set.                                     *)
Interchangeable == Permutations(Proc) \cup Permutations(Token)

=============================================================================
