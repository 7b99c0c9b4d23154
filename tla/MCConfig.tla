------------------------------ MODULE MCConfig -------------------------------
(***************************************************************************)
(* Signing keys and the master key, for TLC.  The modules share no         *)
(* variable, so one moves while the other is in an initial state.          *)
(***************************************************************************)
EXTENDS SigningKeys, MasterKeyRotation, TLC

ConfigInit == Init /\ MKInit

ConfigNext ==
    \/ Present = {} /\ MKInit /\ Next /\ UNCHANGED mkvars
    \/ Init /\ MKNext /\ UNCHANGED vars

ConfigSpec == ConfigInit /\ [][ConfigNext]_<<vars, mkvars>>

TwoColumns == <<{1, 2}, {3}>>

(* Proc and Rotator are the same set.                                      *)
Interchangeable == Permutations(Proc)

=============================================================================
