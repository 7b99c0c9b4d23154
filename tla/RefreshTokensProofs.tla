------------------------- MODULE RefreshTokensProofs -------------------------
(***************************************************************************)
(* Proofs about RefreshTokens for every set of tokens, clients and         *)
(* concurrent requests.                                                    *)
(***************************************************************************)
EXTENDS RefreshTokens, TLAPS

(* A rotation in flight holds the row lock of a live token, alone.         *)
LocksHeld ==
    \A p \in Proc : req[p].pc = "rotating" =>
        /\ Live(req[p].tok)
        /\ \A q \in Proc \ {p} : ~Rotating(q, req[p].tok)

(* What a pending revocation has not seen was created by a rotation that   *)
(* raced with it.                                                          *)
SnapshotsComplete ==
    \A q \in Proc : req[q].pc = "revoking" =>
        \A u \in issued : Live(u) /\ family[u] \in Scope(req[q]) =>
            u \in req[q].hit \/ family[u] \in raced

(* A pending replay was found for a consumed token and has its child.      *)
ReplaysPending ==
    \A q \in Proc : req[q].pc = "revoking" /\ req[q].why = "replay" =>
        /\ req[q].tok \in consumed
        /\ \A u \in issued : parent[u] = req[q].tok /\ Live(u) => u \in req[q].hit

(* A child is in its parent's family.                                      *)
FamilyInherited ==
    \A t \in issued : parent[t] # NoToken => family[t] = family[parent[t]]

ReplayedConsumed == replayed \subseteq consumed

IndInv ==
    /\ TypeOK
    /\ LocksHeld
    /\ SingleLive
    /\ OneSuccessor
    /\ SnapshotsComplete
    /\ ReplaysPending
    /\ ReplayedConsumed
    /\ FamilyInherited
    /\ KilledUnlessRaced
    /\ ReplayKillsSuccessor

-----------------------------------------------------------------------------
(* Requests and rows are well typed in every reachable state of            *)
(* refresh.go, Revoke and CleanupExpired.                                  *)
LEMMA TypeInit == Init => TypeOK
BY NoTokenAssumption DEF Init, TypeOK, Request, Idle, Serving, PCs, Reasons

(* A request ends and leaves the tables alone.                             *)
Dropped(p) ==
    /\ req' = [req EXCEPT ![p] = Idle]
    /\ UNCHANGED <<now, rowVars, held, ghostVars>>

(* The steps that only end a request.                                      *)
LEMMA DroppedRequests ==
    ASSUME NEW p,
           RandomFails(p) \/ RefuseClient(p) \/ RejectUnknown(p) \/ Abort(p)
    PROVE  Dropped(p)
BY DEF Dropped, RandomFails, Rollback, RefuseClient, RejectUnknown, Abort

(* Each action keeps the types.                                            *)
LEMMA TypeStep == TypeOK /\ [Next]_vars => TypeOK'
<1> SUFFICES ASSUME TypeOK, [Next]_vars PROVE TypeOK'
  OBVIOUS
<1> USE NoTokenAssumption, NoClientAssumption, TimeAssumption
<1>1. ASSUME NEW p \in Proc, NEW t \in Token, NEW c \in Client, Mint(p, t, c)
      PROVE  TypeOK'
  <2>1. req' = [req EXCEPT ![p] = [pc |-> "minted", tok |-> t, by |-> c, at |-> 0,
                                   hit |-> {}, why |-> "none"]]
    BY <1>1 DEF Mint, Serving
  <2>2. req' \in [Proc -> Request]
    BY <2>1 DEF TypeOK, Request, PCs, Reasons
  <2>3. \A q \in Proc :
          /\ req'[q].hit \subseteq issued'
          /\ req'[q].tok \in issued' \cup {NoToken}
          /\ req'[q].pc \in {"consume", "rotating", "minted"} => req'[q].tok \in issued'
          /\ req'[q].why = "replay" => req'[q].tok \in issued'
    BY <1>1, <2>1 DEF TypeOK, Mint
  <2>4. \A u \in issued' : family'[u] \in issued'
    BY <1>1 DEF TypeOK, Mint, RootFamily
  <2>5. held' \in [Client -> SUBSET issued']
    BY <1>1 DEF TypeOK, Mint
  <2> QED
    BY <1>1, <2>2, <2>3, <2>4, <2>5 DEF TypeOK, Mint, RootFamily, ghostVars
<1>2. ASSUME NEW p \in Proc, NEW t \in Token, NEW c \in Client, Present(p, t, c)
      PROVE  TypeOK'
  BY <1>2 DEF TypeOK, Present, Known, Request, Idle, Serving, PCs, Reasons, rowVars, ghostVars
<1>3. ASSUME NEW p \in Proc, MatchRow(p) PROVE TypeOK'
  <2>1. UNCHANGED <<now, rowVars, held, ghostVars>> /\ req' = [req EXCEPT ![p].pc = "rotating"]
    BY <1>3 DEF MatchRow
  <2>2. req[p].tok \in issued
    BY <1>3 DEF TypeOK, MatchRow
  <2> QED
    BY <2>1, <2>2 DEF TypeOK, Request, PCs, rowVars, ghostVars
<1>4. ASSUME NEW p \in Proc, NEW child \in Token, CommitRotation(p, child)
      PROVE  TypeOK'
  BY <1>4 DEF TypeOK, CommitRotation, ConsumedBy, Request, PCs, Reasons
<1>5. ASSUME NEW p \in Proc,
             RandomFails(p) \/ RefuseClient(p) \/ RejectUnknown(p) \/ Abort(p)
      PROVE  TypeOK'
  <2>1. Dropped(p)
    BY <1>5, DroppedRequests
  <2> QED
    BY <2>1 DEF TypeOK, Dropped, Request, Idle, Serving, PCs, Reasons, rowVars, ghostVars
<1>6. ASSUME NEW p \in Proc, Respond(p) PROVE TypeOK'
  BY <1>6, ZenonT(60) DEF TypeOK, Respond, Entitled, Request, Idle, Serving, PCs, Reasons, rowVars, ghostVars
<1>7. ASSUME NEW p \in Proc, DetectReuse(p) PROVE TypeOK'
  <2>1. Unrevoked(family[req[p].tok]) \subseteq issued
    BY DEF TypeOK, Unrevoked
  <2> QED
    BY <1>7, <2>1 DEF TypeOK, DetectReuse, Serving, Request, PCs, Reasons, rowVars, ghostVars
<1>8. ASSUME NEW p \in Proc, NEW t \in Token, Revoke(p, t) PROVE TypeOK'
  BY <1>8 DEF TypeOK, Revoke, Unrevoked, Request, Idle, Serving, PCs, Reasons, rowVars, ghostVars
<1>9. ASSUME NEW p \in Proc, NEW reason \in Reasons, RevokeTenant(p, reason)
      PROVE  TypeOK'
  BY <1>9 DEF TypeOK, RevokeTenant, Request, Idle, Serving, PCs, Reasons, rowVars, ghostVars
<1>10. ASSUME NEW p \in Proc, CommitRevocation(p) PROVE TypeOK'
  <2>1. Scope(req[p]) \subseteq issued
    BY DEF TypeOK, Scope, Request
  <2>2. killed' \subseteq issued /\ revoked' \subseteq issued
    BY <1>10, <2>1 DEF TypeOK, CommitRevocation
  <2>3. replayed' \subseteq issued
    BY <1>10 DEF TypeOK, CommitRevocation
  <2> QED
    BY <1>10, <2>2, <2>3 DEF TypeOK, CommitRevocation, Request, Idle, Serving, PCs, Reasons
<1>11. CASE Cleanup
  BY <1>11 DEF TypeOK, Cleanup, ghostVars
<1>12. CASE Tick
  BY <1>12 DEF TypeOK, Tick, rowVars, ghostVars
<1>13. CASE UNCHANGED vars
  BY <1>13 DEF TypeOK, vars, rowVars, ghostVars
<1> QED
  BY <1>1, <1>2, <1>3, <1>4, <1>5, <1>6, <1>7, <1>8, <1>9, <1>10, <1>11, <1>12,
     <1>13 DEF Next, Step

(* Type correctness of the refresh-token table and its requests.           *)
THEOREM TypeCorrect == Spec => []TypeOK
BY TypeInit, TypeStep, PTL DEF Spec

-----------------------------------------------------------------------------
(* The empty table satisfies the inductive invariant.                      *)
LEMMA InvInit == Init => IndInv
<1> SUFFICES ASSUME Init PROVE IndInv
  OBVIOUS
<1>1. TypeOK
  BY TypeInit
<1> QED
  BY <1>1 DEF IndInv, Init, LocksHeld, SingleLive, OneSuccessor, SnapshotsComplete,
     ReplaysPending, ReplayedConsumed, FamilyInherited, KilledUnlessRaced, ReplayKillsSuccessor,
     Live, Rotating, Idle, Serving

(* The conjuncts that do not mention requests hold as long as the rows and *)
(* the histories stay.                                                     *)
LEMMA TablesKept ==
    ASSUME IndInv, UNCHANGED <<rowVars, ghostVars>>
    PROVE  /\ SingleLive' /\ OneSuccessor' /\ ReplayedConsumed' /\ FamilyInherited'
           /\ KilledUnlessRaced' /\ ReplayKillsSuccessor'
BY DEF IndInv, SingleLive, OneSuccessor, ReplayedConsumed, FamilyInherited, KilledUnlessRaced,
       ReplayKillsSuccessor, Live, rowVars, ghostVars

(* A step that only moves request p, to a place that is neither rotating   *)
(* nor revoking, keeps the invariant.                                      *)
LEMMA QuietStep ==
    ASSUME IndInv, TypeOK', NEW p \in Proc, UNCHANGED <<rowVars, ghostVars>>,
           NEW r, req' = [req EXCEPT ![p] = r],
           r.pc \notin {"rotating", "revoking"}
    PROVE  IndInv'
<1>1. LocksHeld'
  BY DEF IndInv, TypeOK, LocksHeld, Live, Rotating, rowVars
<1>2. SnapshotsComplete'
  BY DEF IndInv, TypeOK, SnapshotsComplete, Live, Scope, rowVars, ghostVars
<1>3. ReplaysPending'
  BY DEF IndInv, TypeOK, ReplaysPending, Live, rowVars
<1> QED
  BY <1>1, <1>2, <1>3, TablesKept DEF IndInv

(* A request that starts a revocation has seen every live token of the     *)
(* families it is about.                                                   *)
LEMMA SnapshotStep ==
    ASSUME IndInv, TypeOK', NEW p \in Proc, UNCHANGED <<rowVars, ghostVars>>,
           NEW r, req' = [req EXCEPT ![p] = r], r.pc = "revoking",
           \A u \in issued : Live(u) /\ family[u] \in Scope(r) => u \in r.hit,
           r.why = "replay" =>
               /\ r.tok \in consumed
               /\ \A u \in issued : parent[u] = r.tok /\ Live(u) => u \in r.hit
    PROVE  IndInv'
<1>1. LocksHeld'
  BY DEF IndInv, TypeOK, LocksHeld, Live, Rotating, rowVars
<1>2. SnapshotsComplete'
  BY DEF IndInv, TypeOK, SnapshotsComplete, Live, Scope, rowVars, ghostVars
<1>3. ReplaysPending'
  BY DEF IndInv, TypeOK, ReplaysPending, Live, rowVars
<1> QED
  BY <1>1, <1>2, <1>3, TablesKept DEF IndInv

(* Mint: the new family is in nobody's scope and in no history.            *)
LEMMA MintStep ==
    ASSUME IndInv, TypeOK', NEW p \in Proc, NEW t \in Token, NEW c \in Client,
           Mint(p, t, c)
    PROVE  IndInv'
<1> USE NoTokenAssumption
<1>1. /\ t \notin rows /\ t \notin consumed /\ t \notin killed /\ t \notin replayed
      /\ \A u \in issued : family[u] # t /\ u # t
      /\ \A u \in issued : family'[u] = family[u] /\ parent'[u] = parent[u]
      /\ family'[t] = t /\ parent'[t] = NoToken
  BY DEF IndInv, TypeOK, Mint, RootFamily
<1>2. \A u \in issued : Live(u)' <=> Live(u)
  BY <1>1 DEF Live, Mint
<1>3. \A q \in Proc : q # p => req'[q] = req[q]
  BY DEF IndInv, TypeOK, Mint
<1>4. req'[p].pc = "minted"
  BY DEF IndInv, TypeOK, Mint, Serving
<1>5. LocksHeld'
  BY <1>3, <1>4 DEF IndInv, TypeOK, LocksHeld, Rotating, Live, Mint
<1>6. SingleLive'
  BY <1>1, <1>2 DEF IndInv, SingleLive, Mint
<1>7. OneSuccessor' /\ FamilyInherited'
  BY <1>1 DEF IndInv, TypeOK, OneSuccessor, FamilyInherited, Mint
<1>8. SnapshotsComplete'
  <2> SUFFICES ASSUME NEW q \in Proc, req'[q].pc = "revoking",
                      NEW u \in issued', Live(u)', family'[u] \in Scope(req[q])'
               PROVE  u \in req'[q].hit \/ family'[u] \in raced'
    BY DEF SnapshotsComplete
  <2>1. q # p /\ req'[q] = req[q]
    BY <1>3, <1>4
  <2>2. Scope(req[q])' = Scope(req[q]) /\ Scope(req[q]) \subseteq issued
    BY <1>1, <2>1 DEF IndInv, TypeOK, Scope
  <2>3. u # t
    BY <1>1, <2>2 DEF IndInv, TypeOK, Mint
  <2> QED
    BY <1>1, <1>2, <2>1, <2>2, <2>3 DEF IndInv, SnapshotsComplete, Mint, ghostVars
<1>9. ReplaysPending'
  BY <1>1, <1>2, <1>3, <1>4 DEF IndInv, TypeOK, ReplaysPending, Mint
<1>10. KilledUnlessRaced' /\ ReplayKillsSuccessor' /\ ReplayedConsumed'
  BY <1>1, <1>2 DEF IndInv, TypeOK, KilledUnlessRaced, ReplayKillsSuccessor,
                    ReplayedConsumed, Mint, ghostVars
<1> QED
  BY <1>5, <1>6, <1>7, <1>8, <1>9, <1>10 DEF IndInv

(* CommitRotation: the parent stops being live as the child becomes live,  *)
(* and every revocation of the family that is pending has been raced.      *)
LEMMA RotationStep ==
    ASSUME IndInv, TypeOK', NEW p \in Proc, NEW child \in Token,
           CommitRotation(p, child)
    PROVE  IndInv'
<1> DEFINE t == req[p].tok
<1> USE NoTokenAssumption
<1>1. /\ t \in issued /\ Live(t) /\ child \notin issued /\ t # child
      /\ \A q \in Proc \ {p} : ~Rotating(q, t)
  BY DEF IndInv, TypeOK, LocksHeld, CommitRotation
<1>2. /\ \A u \in issued : family'[u] = family[u] /\ parent'[u] = parent[u]
      /\ family'[child] = family[t] /\ parent'[child] = t
  BY <1>1 DEF IndInv, TypeOK, CommitRotation
<1>3. /\ \A u \in issued : Live(u)' <=> Live(u) /\ u # t
      /\ issued' = issued \cup {child} /\ consumed' = consumed \cup {t}
  BY <1>1 DEF Live, CommitRotation, ConsumedBy
<1>4. \A q \in Proc : q # p => req'[q] = req[q]
  BY DEF IndInv, TypeOK, CommitRotation
<1>5. req'[p].pc = "minted"
  BY DEF IndInv, TypeOK, CommitRotation, Request
<1>6. LocksHeld'
  BY <1>1, <1>3, <1>4, <1>5 DEF IndInv, TypeOK, LocksHeld, Rotating, Live, CommitRotation
<1>7. SingleLive'
  BY <1>1, <1>2, <1>3 DEF IndInv, SingleLive
<1>8. OneSuccessor' /\ FamilyInherited'
  BY <1>1, <1>2, <1>3 DEF IndInv, TypeOK, OneSuccessor, FamilyInherited, Live
<1>9. SnapshotsComplete'
  <2> SUFFICES ASSUME NEW q \in Proc, req'[q].pc = "revoking",
                      NEW u \in issued', Live(u)', family'[u] \in Scope(req[q])'
               PROVE  u \in req'[q].hit \/ family'[u] \in raced'
    BY DEF SnapshotsComplete
  <2>1. q # p /\ req'[q] = req[q]
    BY <1>4, <1>5
  <2>2. Scope(req[q])' = Scope(req[q])
    BY <1>2, <2>1 DEF IndInv, TypeOK, Scope
  <2>3. CASE u = child
    BY <1>2, <2>1, <2>2, <2>3 DEF CommitRotation
  <2>4. CASE u # child
    BY <1>2, <1>3, <2>1, <2>2, <2>4 DEF IndInv, SnapshotsComplete, CommitRotation
  <2> QED
    BY <2>3, <2>4
<1>10. ReplaysPending'
  BY <1>1, <1>2, <1>3, <1>4, <1>5 DEF IndInv, TypeOK, ReplaysPending, Live
<1>11. KilledUnlessRaced'
  BY <1>1, <1>2, <1>3 DEF IndInv, KilledUnlessRaced, CommitRotation
<1>12. ReplayKillsSuccessor' /\ ReplayedConsumed'
  BY <1>1, <1>2, <1>3 DEF IndInv, ReplayKillsSuccessor, ReplayedConsumed, Live,
                          CommitRotation
<1> QED
  BY <1>6, <1>7, <1>8, <1>9, <1>10, <1>11, <1>12 DEF IndInv

(* CommitRevocation: the rows it saw and that are still there are revoked; *)
(* none of them is locked by a rotation.                                   *)
LEMMA RevocationStep ==
    ASSUME IndInv, TypeOK', NEW p \in Proc, CommitRevocation(p)
    PROVE  IndInv'
<1> DEFINE r == req[p]
<1>1. /\ \A u \in issued : Live(u)' <=> Live(u) /\ u \notin r.hit
      /\ issued' = issued /\ consumed' = consumed /\ parent' = parent
      /\ family' = family /\ raced' = raced
  BY DEF Live, CommitRevocation
<1>2. \A q \in Proc : q # p => req'[q] = req[q]
  BY DEF IndInv, TypeOK, CommitRevocation
<1>3. req'[p].pc = "idle" /\ r.pc = "revoking"
  BY DEF IndInv, TypeOK, CommitRevocation, Idle, Serving
<1>4. LocksHeld'
  <2> SUFFICES ASSUME NEW q \in Proc, req'[q].pc = "rotating"
               PROVE  /\ Live(req[q].tok)'
                      /\ \A x \in Proc \ {q} : ~Rotating(x, req[q].tok)'
    BY DEF LocksHeld
  <2>1. q # p /\ req'[q] = req[q] /\ Rotating(q, req[q].tok)
    BY <1>2, <1>3 DEF Rotating
  <2>2. Live(req[q].tok) /\ \A x \in Proc \ {q} : ~Rotating(x, req[q].tok)
    BY <2>1 DEF IndInv, LocksHeld, Rotating
  <2>3. req[q].tok \notin r.hit
    BY <1>3, <2>1 DEF CommitRevocation, RowsFree
  <2>4. Live(req[q].tok)'
    BY <2>1, <2>2, <2>3 DEF CommitRevocation, Live
  <2>5. ASSUME NEW x \in Proc \ {q} PROVE ~Rotating(x, req[q].tok)'
    BY <1>2, <1>3, <2>1, <2>2 DEF Rotating
  <2> QED
    BY <2>4, <2>5
<1>5. SingleLive' /\ OneSuccessor' /\ FamilyInherited'
  BY <1>1 DEF IndInv, SingleLive, OneSuccessor, FamilyInherited
<1>6. SnapshotsComplete'
  <2> SUFFICES ASSUME NEW q \in Proc, req'[q].pc = "revoking",
                      NEW u \in issued', Live(u)', family'[u] \in Scope(req[q])'
               PROVE  u \in req'[q].hit \/ family'[u] \in raced'
    BY DEF SnapshotsComplete
  <2>1. q # p /\ req'[q] = req[q]
    BY <1>2, <1>3
  <2>2. Scope(req[q])' = Scope(req[q])
    BY <1>1, <2>1 DEF Scope
  <2> QED
    BY <1>1, <2>1, <2>2 DEF IndInv, SnapshotsComplete
<1>7. ReplaysPending'
  BY <1>1, <1>2, <1>3 DEF IndInv, ReplaysPending
<1>8. KilledUnlessRaced'
  BY <1>1, <1>3 DEF IndInv, KilledUnlessRaced, SnapshotsComplete, CommitRevocation
<1>9. ReplayKillsSuccessor' /\ ReplayedConsumed'
  BY <1>1, <1>3 DEF IndInv, ReplayKillsSuccessor, ReplayedConsumed, ReplaysPending,
                    CommitRevocation
<1> QED
  BY <1>4, <1>5, <1>6, <1>7, <1>8, <1>9 DEF IndInv

(* CleanupExpired: deleting rows that no rotation has locked only takes    *)
(* live tokens away.                                                       *)
LEMMA CleanupStep ==
    ASSUME IndInv, TypeOK', Cleanup
    PROVE  IndInv'
<1>1. \A u \in issued : Live(u)' => Live(u)
  BY DEF Live, Cleanup
<1>2. UNCHANGED <<issued, consumed, family, parent, req, ghostVars>>
  BY DEF Cleanup
<1>3. LocksHeld'
  BY DEF IndInv, LocksHeld, Cleanup, RowsFree, Rotating, Live
<1>4. SingleLive' /\ OneSuccessor' /\ FamilyInherited'
  BY <1>1, <1>2 DEF IndInv, SingleLive, OneSuccessor, FamilyInherited
<1>5. SnapshotsComplete' /\ ReplaysPending'
  BY <1>1, <1>2 DEF IndInv, SnapshotsComplete, ReplaysPending, Scope, ghostVars
<1>6. KilledUnlessRaced' /\ ReplayKillsSuccessor' /\ ReplayedConsumed'
  BY <1>1, <1>2 DEF IndInv, KilledUnlessRaced, ReplayKillsSuccessor,
                    ReplayedConsumed, ghostVars
<1> QED
  BY <1>3, <1>4, <1>5, <1>6 DEF IndInv

(* Every step keeps the inductive invariant.                               *)
LEMMA InvStep == IndInv /\ [Next]_vars => IndInv'
<1> SUFFICES ASSUME IndInv, [Next]_vars PROVE IndInv'
  OBVIOUS
<1>0. TypeOK'
  BY TypeStep DEF IndInv
<1>1. ASSUME NEW p \in Proc, NEW t \in Token, NEW c \in Client, Mint(p, t, c)
      PROVE  IndInv'
  BY <1>0, <1>1, MintStep
<1>2. ASSUME NEW p \in Proc, NEW t \in Token, NEW c \in Client, Present(p, t, c)
      PROVE  IndInv'
  <2>1. Serving("consume", t, c, now, {}, "none").pc \notin {"rotating", "revoking"}
    BY DEF Serving
  <2> QED
    BY <1>0, <1>2, <2>1, QuietStep DEF Present
<1>3. ASSUME NEW p \in Proc, MatchRow(p) PROVE IndInv'
  <2>1. LocksHeld'
    BY <1>3 DEF IndInv, TypeOK, LocksHeld, MatchRow, Usable, RowsFree, Live, Rotating,
                Request, rowVars
  <2>2. SnapshotsComplete'
    BY <1>3 DEF IndInv, TypeOK, SnapshotsComplete, MatchRow, Live, Scope, Request,
                rowVars, ghostVars
  <2>3. ReplaysPending'
    BY <1>3 DEF IndInv, TypeOK, ReplaysPending, MatchRow, Live, Request, rowVars
  <2> QED
    BY <1>0, <1>3, <2>1, <2>2, <2>3, TablesKept DEF IndInv, MatchRow
<1>4. ASSUME NEW p \in Proc, NEW child \in Token, CommitRotation(p, child)
      PROVE  IndInv'
  BY <1>0, <1>4, RotationStep
<1>5. ASSUME NEW p \in Proc,
             RandomFails(p) \/ RefuseClient(p) \/ RejectUnknown(p) \/ Abort(p)
      PROVE  IndInv'
  <2>1. Dropped(p) /\ Idle.pc \notin {"rotating", "revoking"}
    BY <1>5, DroppedRequests DEF Idle, Serving
  <2> QED
    BY <1>0, <2>1, QuietStep DEF Dropped
<1>6. ASSUME NEW p \in Proc, Respond(p) PROVE IndInv'
  <2>1. Idle.pc \notin {"rotating", "revoking"}
    BY DEF Idle, Serving
  <2> QED
    BY <1>0, <1>6, <2>1, QuietStep DEF Respond
<1>7. ASSUME NEW p \in Proc, DetectReuse(p) PROVE IndInv'
  <2> DEFINE t == req[p].tok
             r == Serving("revoking", t, req[p].by, req[p].at, Unrevoked(family[t]),
                          IF t \in consumed THEN "replay" ELSE "stale")
  <2>1. /\ r.pc = "revoking" /\ r.tok = t /\ r.hit = Unrevoked(family[t])
        /\ r.why = "replay" => t \in consumed
    BY DEF Serving
  <2>2. \A f \in Scope(r) : f = family[t]
    BY <2>1 DEF Scope, Unrevoked
  <2>3. \A u \in issued : Live(u) /\ family[u] \in Scope(r) => u \in r.hit
    BY <2>1, <2>2 DEF Live, Unrevoked
  <2>4. t \in issued
    BY <1>7 DEF DetectReuse, IndInv, TypeOK
  <2>5. \A u \in issued : parent[u] = t /\ Live(u) => u \in r.hit
    BY <2>1, <2>4, NoTokenAssumption
       DEF IndInv, TypeOK, FamilyInherited, Live, Unrevoked
  <2>6. UNCHANGED <<rowVars, ghostVars>> /\ req' = [req EXCEPT ![p] = r]
    BY <1>7 DEF DetectReuse
  <2> HIDE DEF r
  <2> QED
    BY <1>0, <2>1, <2>3, <2>5, <2>6, SnapshotStep
<1>8. ASSUME NEW p \in Proc, NEW t \in Token, Revoke(p, t) PROVE IndInv'
  <2> DEFINE r == Serving("revoking", t, NoClient, 0, Unrevoked(family[t]), "revoked")
  <2>1. /\ r.pc = "revoking" /\ r.tok = t /\ r.hit = Unrevoked(family[t])
        /\ r.why # "replay"
    BY DEF Serving
  <2>2. \A f \in Scope(r) : f = family[t]
    BY <2>1 DEF Scope, Unrevoked
  <2>3. \A u \in issued : Live(u) /\ family[u] \in Scope(r) => u \in r.hit
    BY <2>1, <2>2 DEF Live, Unrevoked
  <2>4. UNCHANGED <<rowVars, ghostVars>> /\ req' = [req EXCEPT ![p] = r]
    BY <1>8 DEF Revoke
  <2> HIDE DEF r
  <2> QED
    BY <1>0, <2>1, <2>3, <2>4, SnapshotStep
<1>9. ASSUME NEW p \in Proc, NEW reason \in Reasons, RevokeTenant(p, reason)
      PROVE  IndInv'
  <2> DEFINE r == Serving("revoking", NoToken, NoClient, 0, rows \ revoked, reason)
  <2>1. r.pc = "revoking" /\ r.hit = rows \ revoked /\ r.why # "replay"
    BY <1>9 DEF Serving, RevokeTenant
  <2>2. \A u \in issued : Live(u) => u \in r.hit
    BY <2>1 DEF Live
  <2>3. UNCHANGED <<rowVars, ghostVars>> /\ req' = [req EXCEPT ![p] = r]
    BY <1>9 DEF RevokeTenant
  <2> HIDE DEF r
  <2> QED
    BY <1>0, <2>1, <2>2, <2>3, SnapshotStep
<1>10. ASSUME NEW p \in Proc, CommitRevocation(p) PROVE IndInv'
  BY <1>0, <1>10, RevocationStep
<1>11. CASE Cleanup
  BY <1>0, <1>11, CleanupStep
<1>12. CASE Tick \/ UNCHANGED vars
  <2>1. UNCHANGED <<rowVars, ghostVars>> /\ req' = req
    BY <1>12 DEF Tick, vars
  <2>2. LocksHeld' /\ SnapshotsComplete' /\ ReplaysPending'
    BY <2>1 DEF IndInv, LocksHeld, SnapshotsComplete, ReplaysPending, Live, Rotating,
                Scope, rowVars, ghostVars
  <2> QED
    BY <1>0, <2>1, <2>2, TablesKept DEF IndInv
<1> QED
  BY <1>1, <1>2, <1>3, <1>4, <1>5, <1>6, <1>7, <1>8, <1>9, <1>10, <1>11, <1>12
     DEF Next, Step

(* The inductive invariant holds in every reachable state.                 *)
LEMMA Invariance == Spec => []IndInv
BY InvInit, InvStep, PTL DEF Spec

(* However many requests race over however many tokens, Consume leaves at  *)
(* most one live token in a family.                                        *)
THEOREM OneLiveTokenPerFamily == Spec => []SingleLive
<1>1. IndInv => SingleLive
  BY DEF IndInv
<1> QED
  BY <1>1, Invariance, PTL

(* Two requests never rotate the same token: Consume has one winner.       *)
THEOREM RotationIsExclusive == Spec => []OneSuccessor
<1>1. IndInv => OneSuccessor
  BY DEF IndInv
<1> QED
  BY <1>1, Invariance, PTL

(* handleReuse always kills the direct successor of a replayed token.      *)
THEOREM ReplayIsContained == Spec => []ReplayKillsSuccessor
<1>1. IndInv => ReplayKillsSuccessor
  BY DEF IndInv
<1> QED
  BY <1>1, Invariance, PTL

(* A committed revocation leaves a family alive only if a rotation         *)
(* committed between its snapshot and its commit.                          *)
THEOREM RevocationWindow == Spec => []KilledUnlessRaced
<1>1. IndInv => KilledUnlessRaced
  BY DEF IndInv
<1> QED
  BY <1>1, Invariance, PTL

(* The client a row names never changes, and Respond compares it with the  *)
(* client that asked.                                                      *)
LEMMA HeldStep == TypeOK /\ HeldByOwner /\ [Next]_vars => HeldByOwner'
<1> SUFFICES ASSUME TypeOK, HeldByOwner, [Next]_vars PROVE HeldByOwner'
  OBVIOUS
<1>1. ASSUME NEW p \in Proc, NEW t \in Token, NEW c \in Client, Mint(p, t, c)
      PROVE  HeldByOwner'
  BY <1>1 DEF HeldByOwner, TypeOK, Mint
<1>2. ASSUME NEW p \in Proc, NEW child \in Token, CommitRotation(p, child)
      PROVE  HeldByOwner'
  BY <1>2 DEF HeldByOwner, TypeOK, CommitRotation
<1>3. ASSUME NEW p \in Proc, Respond(p) PROVE HeldByOwner'
  BY <1>3 DEF HeldByOwner, TypeOK, Respond, Entitled, rowVars
<1>4. CASE UNCHANGED <<client, held>>
  BY <1>4 DEF HeldByOwner
<1> QED
  BY <1>1, <1>2, <1>3, <1>4 DEF Next, Step, Present, MatchRow, RandomFails, RefuseClient, DetectReuse,
     RejectUnknown, CommitRevocation, Abort, Revoke, RevokeTenant, Cleanup, Tick, vars, rowVars

(* A client only ever receives tokens of its own grants.                   *)
THEOREM TokensReachTheirOwner == Spec => []HeldByOwner
<1>1. Init => HeldByOwner
  BY DEF Init, HeldByOwner
<1> QED
  BY <1>1, HeldStep, TypeCorrect, PTL DEF Spec

-----------------------------------------------------------------------------
(* With one live token in a family, Head is that token; without one it is  *)
(* NoToken.                                                                *)
LEMMA HeadNow ==
    ASSUME SingleLive, NEW f
    PROVE  /\ \A t \in issued : Live(t) /\ family[t] = f => Head(f) = t
           /\ (\A t \in issued : Live(t) => family[t] # f) => Head(f) = NoToken
<1>1. ASSUME NEW t \in issued, Live(t), family[t] = f PROVE Head(f) = t
  <2>1. \A u \in issued : Live(u) /\ family[u] = f => u = t
    BY <1>1 DEF SingleLive
  <2> QED
    BY <1>1, <2>1 DEF Head
<1>2. (\A t \in issued : Live(t) => family[t] # f) => Head(f) = NoToken
  BY DEF Head
<1> QED
  BY <1>1, <1>2

(* The same after a step.                                                  *)
LEMMA HeadNext ==
    ASSUME SingleLive', NEW f
    PROVE  /\ \A t \in issued' : Live(t)' /\ family'[t] = f => Head(f)' = t
           /\ (\A t \in issued' : Live(t)' => family'[t] # f) => Head(f)' = NoToken
<1>1. ASSUME NEW t \in issued', Live(t)', family'[t] = f PROVE Head(f)' = t
  <2>1. \A u \in issued' : Live(u)' /\ family'[u] = f => u = t
    BY <1>1 DEF SingleLive
  <2> QED
    BY <1>1, <2>1 DEF Head
<1>2. (\A t \in issued' : Live(t)' => family'[t] # f) => Head(f)' = NoToken
  BY DEF Head
<1> QED
  BY <1>1, <1>2

(* A step that draws no token and makes none live closes families.         *)
LEMMA ClosingStep ==
    ASSUME IndInv, IndInv', issued' = issued, family' = family,
           \A t \in issued : Live(t)' => Live(t)
    PROVE  Families!AbsNext
<1> DEFINE F == {f \in Token : Head(f)' = NoToken}
<1>1. ASSUME NEW f \in Token, f \notin F PROVE Head(f)' = Head(f)
  <2>1. SingleLive /\ SingleLive'
    BY DEF IndInv
  <2>2. PICK t \in issued' : Live(t)' /\ family'[t] = f
    BY <1>1, <2>1, HeadNext
  <2> QED
    BY <2>1, <2>2, HeadNow, HeadNext
<1>2. [f \in Token |-> Head(f)]'
        = [f \in Token |-> IF f \in F THEN NoToken ELSE [g \in Token |-> Head(g)][f]]
  BY <1>1
<1>3. F \in SUBSET Token
  OBVIOUS
<1> HIDE DEF F
<1> QED
  BY <1>2, <1>3 DEF Families!AbsNext, Families!Close

(* Mint opens the family of the token it draws.                            *)
LEMMA OpeningStep ==
    ASSUME IndInv, IndInv', NEW p \in Proc, NEW t \in Token, NEW c \in Client,
           Mint(p, t, c)
    PROVE  Families!AbsNext
<1>1. /\ t \notin issued /\ issued' = issued \cup {t} /\ family'[t] = t
      /\ \A u \in issued : family'[u] = family[u] /\ family[u] # t /\ u # t
      /\ Live(t)'
  BY DEF IndInv, TypeOK, Mint, RootFamily, Live
<1>2. \A u \in issued : Live(u)' <=> Live(u)
  BY <1>1 DEF Live, Mint
<1>3. SingleLive /\ SingleLive'
  BY DEF IndInv
<1>4. Head(t) = NoToken /\ Head(t)' = t
  BY <1>1, <1>3, HeadNow, HeadNext
<1>5. ASSUME NEW f \in Token, f # t PROVE Head(f)' = Head(f)
  <2>1. CASE \E u \in issued : Live(u) /\ family[u] = f
    BY <1>1, <1>2, <1>3, <2>1, HeadNow, HeadNext
  <2>2. CASE \A u \in issued : Live(u) => family[u] # f
    BY <1>1, <1>2, <1>3, <1>5, <2>2, HeadNow, HeadNext
  <2> QED
    BY <2>1, <2>2
<1>6. [f \in Token |-> Head(f)]' = [[f \in Token |-> Head(f)] EXCEPT ![t] = t]
  BY <1>4, <1>5
<1> QED
  BY <1>1, <1>4, <1>6 DEF Families!AbsNext, Families!Open

(* CommitRotation advances a family to a fresh token.                      *)
LEMMA AdvancingStep ==
    ASSUME IndInv, IndInv', NEW p \in Proc, NEW child \in Token,
           CommitRotation(p, child)
    PROVE  Families!AbsNext
<1>a. PICK t \in issued : t = req[p].tok
  BY DEF IndInv, TypeOK, CommitRotation
<1>b. PICK f \in Token : f = family[t]
  BY DEF IndInv, TypeOK
<1>1. /\ Live(t) /\ child \notin issued
      /\ issued' = issued \cup {child} /\ family'[child] = f /\ Live(child)'
      /\ \A u \in issued : family'[u] = family[u]
  BY <1>a, <1>b DEF IndInv, TypeOK, LocksHeld, CommitRotation, Live, ConsumedBy
<1>2. \A u \in issued : Live(u)' <=> Live(u) /\ u # t
  BY <1>a, <1>1 DEF Live, CommitRotation, ConsumedBy
<1>3. SingleLive /\ SingleLive'
  BY DEF IndInv
<1>4. Head(f) = t /\ Head(f)' = child
  BY <1>b, <1>1, <1>3, HeadNow, HeadNext
<1>5. ASSUME NEW g \in Token, g # f PROVE Head(g)' = Head(g)
  <2>1. CASE \E u \in issued : Live(u) /\ family[u] = g
    BY <1>b, <1>1, <1>2, <1>3, <1>5, <2>1, HeadNow, HeadNext
  <2>2. CASE \A u \in issued : Live(u) => family[u] # g
    BY <1>1, <1>2, <1>3, <1>5, <2>2, HeadNow, HeadNext
  <2> QED
    BY <2>1, <2>2
<1>6. [g \in Token |-> Head(g)]' = [[g \in Token |-> Head(g)] EXCEPT ![f] = child]
  BY <1>1, <1>4, <1>5
<1>7. Head(f) # NoToken
  BY <1>1, <1>4, NoTokenAssumption DEF IndInv, TypeOK
<1> QED
  BY <1>1, <1>6, <1>7 DEF Families!AbsNext, Families!Advance

(* The table of refresh tokens implements the abstract families: one       *)
(* current token, every successor fresh, no family comes back to life.     *)
THEOREM Refinement == Spec => ImplementsFamilies
<1>1. Init => Families!AbsInit
  BY DEF Init, Families!AbsInit, Head
<1>2. IndInv /\ IndInv' /\ [Next]_vars
        => [Families!AbsNext]_<<[f \in Token |-> Head(f)], issued>>
  <2> SUFFICES ASSUME IndInv, IndInv', [Next]_vars PROVE Families!AbsNext
    OBVIOUS
  <2>1. ASSUME NEW p \in Proc, NEW t \in Token, NEW c \in Client, Mint(p, t, c)
        PROVE  Families!AbsNext
    BY <2>1, OpeningStep
  <2>2. ASSUME NEW p \in Proc, NEW child \in Token, CommitRotation(p, child)
        PROVE  Families!AbsNext
    BY <2>2, AdvancingStep
  <2>3. ASSUME UNCHANGED rowVars PROVE Families!AbsNext
    BY <2>3, ClosingStep DEF rowVars, Live
  <2>4. ASSUME NEW p \in Proc, CommitRevocation(p) PROVE Families!AbsNext
    <3>1. issued' = issued /\ family' = family /\ \A t \in issued : Live(t)' => Live(t)
      BY <2>4 DEF CommitRevocation, Live
    <3> QED
      BY <3>1, ClosingStep
  <2>5. CASE Cleanup
    <3>1. issued' = issued /\ family' = family /\ \A t \in issued : Live(t)' => Live(t)
      BY <2>5 DEF Cleanup, Live
    <3> QED
      BY <3>1, ClosingStep
  <2>6. CASE UNCHANGED vars
    BY <2>3, <2>6 DEF vars
  <2>7. CASE Next
    BY <2>1, <2>2, <2>3, <2>4, <2>5, <2>7
       DEF Next, Step, Present, MatchRow, RandomFails, Respond, RefuseClient, DetectReuse,
           RejectUnknown, Revoke, RevokeTenant, Abort, Tick
  <2> QED
    BY <2>6, <2>7
<1> QED
  BY <1>1, <1>2, Invariance, PTL DEF Spec, ImplementsFamilies, Families!AbsSpec

=============================================================================
