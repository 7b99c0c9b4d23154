--------------------------- MODULE MCTokenEndpoint ---------------------------
(***************************************************************************)
(* From the authorization request to the tokens, for TLC.  TokenEndpoint   *)
(* and Consent share no variable, so one moves while the other is in its   *)
(* initial state.                                                          *)
(***************************************************************************)
EXTENDS TokenEndpoint, Consent, TLC

GrantInit == TEInit /\ CInit

GrantNext ==
    \/ CInit /\ TENext /\ UNCHANGED cvars
    \/ TEInit /\ CNext /\ UNCHANGED allVars

GrantSpec == GrantInit /\ [][GrantNext]_<<allVars, cvars>>

(* Proc and Visit are the same set of names; so are Client and Enduser.    *)
Interchangeable ==
    Permutations(Token) \cup Permutations(Proc) \cup Permutations(Client)

=============================================================================
