------------------------------ MODULE MCSignIn -------------------------------
(***************************************************************************)
(* What signs a user in, what limits the attempts, and the page and the    *)
(* connections that offer it, for TLC.  The modules share no variable, so  *)
(* one moves while the others are in their initial state.                  *)
(***************************************************************************)
EXTENDS Passwords, MagicLinks, BackupCodes, Factors, RateLimit, Connections, TLC

signInVars == <<pwvars, mlvars, bcvars, fvars, rlvars, connvars>>

Init == PWInit /\ MLInit /\ BCInit /\ FInit /\ RLInit /\ ConnInit

Next ==
    \/ /\ ConnInit /\ FInit /\ MLInit /\ BCInit /\ RLInit /\ PWNext
       /\ UNCHANGED <<mlvars, bcvars, fvars, rlvars, connvars>>
    \/ /\ ConnInit /\ FInit /\ PWInit /\ BCInit /\ RLInit /\ MLNext
       /\ UNCHANGED <<pwvars, bcvars, fvars, rlvars, connvars>>
    \/ /\ ConnInit /\ FInit /\ PWInit /\ MLInit /\ RLInit /\ BCNext
       /\ UNCHANGED <<pwvars, mlvars, fvars, rlvars, connvars>>
    \/ /\ ConnInit /\ PWInit /\ MLInit /\ BCInit /\ RLInit /\ FNext
       /\ UNCHANGED <<pwvars, mlvars, bcvars, rlvars, connvars>>
    \/ /\ ConnInit /\ FInit /\ PWInit /\ MLInit /\ BCInit /\ RLNext
       /\ UNCHANGED <<pwvars, mlvars, bcvars, fvars, connvars>>
    \/ /\ FInit /\ PWInit /\ MLInit /\ BCInit /\ RLInit /\ ConnNext
       /\ UNCHANGED <<pwvars, mlvars, bcvars, fvars, rlvars>>

Spec == Init /\ [][Next]_signInVars

(* Handler, Sender, Client, Browser and Request are the same set.          *)
Interchangeable == Permutations(Handler)

=============================================================================
