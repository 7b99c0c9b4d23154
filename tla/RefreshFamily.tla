---------------------------- MODULE RefreshFamily ----------------------------
(***************************************************************************)
(* What refresh-token families promise to clients and to the operator: a   *)
(* family has at most one current token; a new current token is always one *)
(* that was never seen before; a family that lost its current token never  *)
(* gets one again.  Requests, row locks, expiry and the table are absent.  *)
(***************************************************************************)
CONSTANTS Token, NoToken

VARIABLES
    head,   \* the current token of each family, NoToken if it has none
    seen    \* tokens ever handed out

AbsInit ==
    /\ head = [f \in Token |-> NoToken]
    /\ seen = {}

(* A grant opens the family of a fresh token.                              *)
Open(t) ==
    /\ t \notin seen
    /\ head[t] = NoToken
    /\ head' = [head EXCEPT ![t] = t]
    /\ seen' = seen \cup {t}

(* The current token of a family is exchanged for a fresh one.             *)
Advance(f, t) ==
    /\ head[f] # NoToken
    /\ t \notin seen
    /\ head' = [head EXCEPT ![f] = t]
    /\ seen' = seen \cup {t}

(* Families lose their current token for good.                             *)
Close(F) ==
    /\ head' = [f \in Token |-> IF f \in F THEN NoToken ELSE head[f]]
    /\ seen' = seen

AbsNext ==
    \/ \E t \in Token : Open(t)
    \/ \E f, t \in Token : Advance(f, t)
    \/ \E F \in SUBSET Token : Close(F)

AbsSpec == AbsInit /\ [][AbsNext]_<<head, seen>>

=============================================================================
