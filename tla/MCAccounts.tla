----------------------------- MODULE MCAccounts ------------------------------
(***************************************************************************)
(* Members, Sessions, Registration and TenantLogo for TLC.  They share no  *)
(* variable, so one moves while the others are in an initial state.        *)
(***************************************************************************)
EXTENDS Members, Sessions, Registration, TenantLogo, TLC

Init == MInit /\ SInit /\ RegInit /\ LInit

(* One initial state of Members and one of Sessions.                       *)
MRests == MInit /\ Owners = User
SRests == SInit /\ \A t \in Bearer : bearerOf[t] = CHOOSE u \in Person : TRUE

Next ==
    \/ SRests /\ RegInit /\ LInit /\ MNext /\ UNCHANGED <<svars, regvars, lvars>>
    \/ MRests /\ RegInit /\ LInit /\ SNext /\ UNCHANGED <<mvars, regvars, lvars>>
    \/ MRests /\ SRests /\ LInit /\ RegNext /\ UNCHANGED <<mvars, svars, lvars>>
    \/ MRests /\ SRests /\ RegInit /\ LNext /\ UNCHANGED <<mvars, svars, regvars>>

Spec == Init /\ [][Next]_<<mvars, svars, regvars, lvars>>

(* Proc, Visitor and Editor are the same set; User and Invite are, too.    *)
Interchangeable == Permutations(Proc) \cup Permutations(User)

=============================================================================
