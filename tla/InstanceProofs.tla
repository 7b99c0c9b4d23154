--------------------------- MODULE InstanceProofs ----------------------------
(***************************************************************************)
(* Proofs about InstanceAdmins, and with it about Bootstrap, for any       *)
(* number of setup tokens, guests and requests in flight.                  *)
(*                                                                         *)
(* RedeemedOnce needs to know that a token which is not consumed has not   *)
(* been redeemed (RedeemersKnown); LastAdminKept that a demotion which     *)
(* found more than one admin, and was not overtaken, still has two         *)
(* (DemotionsHold).                                                        *)
(***************************************************************************)
EXTENDS InstanceAdmins, FiniteSetTheorems, TLAPS

(* What an operator does.                                                  *)
Tasks == [pc : {"idle", "known", "entering", "counted"},
          who : Token \cup Guest \cup {NoToken}, overlapped : BOOLEAN]

(* Finitely many admins; redeemers and operators have their types.         *)
InstanceTypeOK ==
    /\ IsFiniteSet(admins)
    /\ redeemers \in [Token -> SUBSET Proc]
    /\ task \in [Operator -> Tasks]

(* A token that is not consumed was redeemed by nobody, any other by one.  *)
RedeemersKnown ==
    \A t \in Token : redeemers[t] = {} \/ (t \in consumed /\ \E p : redeemers[t] = {p})

(* Two admins are enabled as long as a count that said so is up to date.   *)
DemotionsHold ==
    \A o \in Operator : task[o].pc = "counted" /\ ~task[o].overlapped =>
        \E a, b \in listInstanceAdmins : a # b

InstanceInv == InstanceTypeOK /\ RedeemersKnown /\ DemotionsHold

(* Initially there is no admin and no token.                               *)
LEMMA InstanceInvInit == IAInit => InstanceInv
<1> SUFFICES ASSUME IAInit PROVE InstanceInv
  OBVIOUS
<1> USE DEF IAInit, Init
<1>1. InstanceTypeOK
  BY FS_EmptySet DEF InstanceTypeOK, Tasks, Free
<1>2. RedeemersKnown /\ DemotionsHold
  BY DEF RedeemersKnown, DemotionsHold, Free
<1>3. QED
  BY <1>1, <1>2 DEF InstanceInv

(* A request redeems a setup token.                                        *)
Redeems ==
    \E p \in Proc, t \in Token :
        /\ t \in Open /\ consumed' = consumed \cup {t}
        /\ redeemers' = [redeemers EXCEPT ![t] = @ \cup {p}]

(* What a step of the setup does to the admins and to the tokens redeemed. *)
LEMMA SetupEffects ==
    ASSUME Next
    PROVE  /\ admins' = admins \/ \E x : admins' = admins \cup {x}
           /\ UNCHANGED <<consumed, redeemers>> \/ Redeems
<1>1. CASE \E p \in Proc : \/ ResetBootstrap(p) \/ CheckFirstBoot(p) \/ RefuseReset(p)
                           \/ CountAdmins(p) \/ ClaimToken(p) \/ StoreCredential(p) \/ Abort(p)
  BY <1>1 DEF ResetBootstrap, CheckFirstBoot, RefuseReset, CountAdmins, ClaimToken,
     StoreCredential, Abort, tokenVars
<1>2. CASE \E p \in Proc : CreateAdmin(p)
  BY <1>2 DEF CreateAdmin
<1>3. CASE \E p \in Proc, t \in Token : MintSetupToken(p, t)
  BY <1>3 DEF MintSetupToken
<1>4. CASE \E p \in Proc, t \in Token : RedeemSetupToken(p, t)
  BY <1>4 DEF RedeemSetupToken, Redeemable, Redeems
<1>5. CASE Tick
  BY <1>5 DEF Tick, tokenVars
<1>6. QED
  BY <1>1, <1>2, <1>3, <1>4, <1>5 DEF Next

(* A token that is redeemed was open, hence not consumed.                  *)
LEMMA RedeemersStep ==
    ASSUME InstanceInv, UNCHANGED <<consumed, redeemers>> \/ Redeems
    PROVE  RedeemersKnown' /\ redeemers' \in [Token -> SUBSET Proc]
<1>1. CASE UNCHANGED <<consumed, redeemers>>
  BY <1>1 DEF InstanceInv, InstanceTypeOK, RedeemersKnown
<1>2. CASE Redeems
  <2>1. PICK p \in Proc, t \in Token :
               /\ t \in Open /\ consumed' = consumed \cup {t}
               /\ redeemers' = [redeemers EXCEPT ![t] = @ \cup {p}]
    BY <1>2 DEF Redeems
  <2>2. redeemers[t] = {} /\ t \in consumed'
    BY <2>1 DEF Open, InstanceInv, RedeemersKnown
  <2>3. redeemers'[t] = {p} /\ \A s \in Token : s # t => redeemers'[s] = redeemers[s]
    BY <2>1, <2>2 DEF InstanceInv, InstanceTypeOK
  <2>4. redeemers' \in [Token -> SUBSET Proc]
    BY <2>1 DEF InstanceInv, InstanceTypeOK
  <2>5. RedeemersKnown'
    BY <2>1, <2>2, <2>3 DEF InstanceInv, RedeemersKnown
  <2>6. QED
    BY <2>4, <2>5
<1>3. QED
  BY <1>1, <1>2

(* More than one enabled admin: two of them.                               *)
LEMMA TwoAdmins ==
    ASSUME InstanceInv, EnoughAdmins
    PROVE  \E a, b \in listInstanceAdmins : a # b
<1>1. listInstanceAdmins \in SUBSET admins
  BY DEF listInstanceAdmins
<1>2. IsFiniteSet(listInstanceAdmins)
  BY <1>1, FS_Subset DEF InstanceInv, InstanceTypeOK
<1>3. Cardinality(listInstanceAdmins) # 0 /\ Cardinality(listInstanceAdmins) # 1
  BY DEF EnoughAdmins
<1>4. listInstanceAdmins # {} /\ ~\E x : listInstanceAdmins = {x}
  BY <1>2, <1>3, FS_EmptySet, FS_Singleton
<1>5. QED
  BY <1>4

(* Admins are added, and no operator moves.                                *)
LEMMA AdminsGrow ==
    ASSUME InstanceInv, UNCHANGED <<disabled, task>>,
           admins' = admins \/ \E x : admins' = admins \cup {x},
           UNCHANGED <<consumed, redeemers>> \/ Redeems
    PROVE  InstanceInv'
<1>1. IsFiniteSet(admins')
  BY FS_AddElement DEF InstanceInv, InstanceTypeOK
<1>2. listInstanceAdmins \subseteq listInstanceAdmins'
  BY DEF listInstanceAdmins
<1>3. RedeemersKnown' /\ redeemers' \in [Token -> SUBSET Proc]
  BY RedeemersStep
<1>4. InstanceTypeOK'
  BY <1>1, <1>3 DEF InstanceInv, InstanceTypeOK
<1>5. DemotionsHold'
  BY <1>2 DEF InstanceInv, DemotionsHold
<1>6. QED
  BY <1>3, <1>4, <1>5 DEF InstanceInv

(* An operator goes on, the admins stay.                                   *)
LEMMA OperatorStep ==
    ASSUME InstanceInv, NEW o \in Operator, NEW r \in Tasks, task' = [task EXCEPT ![o] = r],
           UNCHANGED <<vars, disabled>>,
           r.pc = "counted" => \E a, b \in listInstanceAdmins : a # b
    PROVE  InstanceInv'
<1> USE DEF InstanceInv, vars, tokenVars
<1>1. InstanceTypeOK' /\ RedeemersKnown'
  BY DEF InstanceTypeOK, RedeemersKnown
<1>2. ASSUME NEW q \in Operator PROVE task'[q] = IF q = o THEN r ELSE task[q]
  BY DEF InstanceTypeOK
<1>3. DemotionsHold'
  BY <1>2 DEF DemotionsHold, listInstanceAdmins
<1>4. QED
  BY <1>1, <1>3

(* Every step keeps the invariant.                                         *)
LEMMA InstanceInvStep == InstanceInv /\ [IANext]_iavars => InstanceInv'
<1> SUFFICES ASSUME InstanceInv, [IANext]_iavars PROVE InstanceInv'
  OBVIOUS
<1>1. Free \in Tasks /\ Free.pc = "idle"
  BY DEF Free, Tasks
<1>2. CASE SetupStep
  BY <1>2, SetupEffects, AdminsGrow DEF SetupStep
<1>3. ASSUME NEW g \in Guest, InstanceInvite(g) \/ AdminInvite(g) \/ RevokeInstanceInvite(g)
      PROVE  InstanceInv'
  BY <1>3, AdminsGrow DEF InstanceInvite, AdminInvite, Invites, RevokeInstanceInvite, vars, tokenVars
<1>4. ASSUME NEW g \in Guest, RedeemInstanceInvite(g) PROVE InstanceInv'
  BY <1>4, AdminsGrow DEF RedeemInstanceInvite, tokenVars
<1>5. ASSUME NEW a, EndAdminSession(a) PROVE InstanceInv'
  BY <1>5, AdminsGrow DEF EndAdminSession, vars, tokenVars
<1>6. CASE UNCHANGED iavars
  BY <1>6, AdminsGrow DEF iavars, vars, tokenVars, adminVars
<1>7. ASSUME NEW o \in Operator, NEW from, NEW where \in {"known", "entering", "counted"},
             NEW a \in Token \cup Guest \cup {NoToken}, Turns(o, from, where, a),
             UNCHANGED <<vars, disabled>>,
             where = "counted" => EnoughAdmins
      PROVE  InstanceInv'
  <2> DEFINE r == [Free EXCEPT !.pc = where, !.who = a]
  <2>1. r \in Tasks /\ r.pc = where
    BY DEF Free, Tasks
  <2>2. task' = [task EXCEPT ![o] = r]
    BY <1>7 DEF Turns
  <2>3. where = "counted" => \E c, d \in listInstanceAdmins : c # d
    BY <1>7, TwoAdmins
  <2> HIDE DEF r
  <2>4. QED
    BY <1>7, <2>1, <2>2, <2>3, OperatorStep
<1>8. ASSUME NEW o \in Operator, NEW a \in Token, FinishInstanceAdminAssertion(o, a) PROVE InstanceInv'
  BY <1>7, <1>8 DEF FinishInstanceAdminAssertion
<1>9. ASSUME NEW o \in Operator, NEW a \in Token \cup Guest,
             LookupInstanceAdminID(o, a) \/ CountEnabled(o, a)
      PROVE  InstanceInv'
  BY <1>7, <1>9 DEF LookupInstanceAdminID, CountEnabled
<1>10. ASSUME NEW o \in Operator, ConsumeForInstanceAdmin(o) PROVE InstanceInv'
  <2>1. task[o].who \in Token \cup Guest \cup {NoToken}
    BY DEF InstanceInv, InstanceTypeOK, Tasks
  <2>2. QED
    BY <1>7, <1>10, <2>1 DEF ConsumeForInstanceAdmin
<1>11. ASSUME NEW o \in Operator, EstablishInstanceAdminSession(o) \/ AbandonTask(o) PROVE InstanceInv'
  BY <1>1, <1>11, OperatorStep DEF EstablishInstanceAdminSession, AbandonTask
<1>12. ASSUME NEW o \in Operator, DemoteInstanceAdmin(o) PROVE InstanceInv'
  <2> DEFINE r(x) == IF x = o THEN Free
                     ELSE IF task[x].pc = "counted" THEN [task[x] EXCEPT !.overlapped = TRUE]
                     ELSE task[x]
  <2>1. task' = [x \in Operator |-> r(x)] /\ UNCHANGED vars
    BY <1>12 DEF DemoteInstanceAdmin
  <2>2. ASSUME NEW x \in Operator
        PROVE  r(x) \in Tasks /\ (r(x).pc = "counted" => r(x).overlapped)
    <3>1. task[x] \in Tasks
      BY DEF InstanceInv, InstanceTypeOK
    <3>2. QED
      BY <1>1, <3>1 DEF Tasks
  <2> HIDE DEF r
  <2>3. InstanceTypeOK' /\ RedeemersKnown'
    BY <2>1, <2>2 DEF InstanceInv, InstanceTypeOK, RedeemersKnown, vars, tokenVars
  <2>4. DemotionsHold'
    BY <2>1, <2>2 DEF DemotionsHold
  <2>5. QED
    BY <2>3, <2>4 DEF InstanceInv
<1>13. QED
  BY <1>2, <1>3, <1>4, <1>5, <1>6, <1>8, <1>9, <1>10, <1>11, <1>12 DEF IANext

(* The setup and everything the admins do afterwards keep the invariant.   *)
LEMMA InstanceInvariant == IASpec => []InstanceInv
  BY InstanceInvInit, InstanceInvStep, PTL DEF IASpec

(* A setup token is redeemed by one request at most, for any number of     *)
(* tokens and of requests that race for them.                              *)
THEOREM SetupTokenIsSingleUse == IASpec => []RedeemedOnce
<1>1. InstanceInv => RedeemedOnce
  <2> SUFFICES ASSUME InstanceInv, NEW t \in Token PROVE Cardinality(redeemers[t]) <= 1
    BY DEF RedeemedOnce
  <2>1. redeemers[t] = {} \/ \E p : redeemers[t] = {p}
    BY DEF InstanceInv, RedeemersKnown
  <2>2. Cardinality(redeemers[t]) = 0 \/ Cardinality(redeemers[t]) = 1
    BY <2>1, FS_EmptySet, FS_Singleton, Zenon
  <2>3. QED
    BY <2>2
<1>2. QED
  BY <1>1, InstanceInvariant, PTL

(* A token that a reset withdrew is not redeemed any more.                 *)
THEOREM ResetIsFinal == IASpec => ResetWithdraws
<1> DEFINE Withdrawn == \A t \in revoked \ admins : t \notin consumed => t \notin consumed'
<1>1. [IANext]_iavars => [Withdrawn]_vars
  <2> SUFFICES ASSUME IANext, NEW t \in revoked \ admins, t \notin consumed, t \in consumed',
                      vars' # vars
               PROVE  FALSE
    BY DEF iavars
  <2>1. CASE SetupStep
    BY <2>1, SetupEffects DEF SetupStep, Redeems, Open
  <2>2. CASE \E g \in Guest : RedeemInstanceInvite(g)
    BY <2>2 DEF RedeemInstanceInvite, tokenVars
  <2>3. QED
    BY <2>1, <2>2 DEF IANext, InstanceInvite, AdminInvite, Invites, RevokeInstanceInvite,
       FinishInstanceAdminAssertion, LookupInstanceAdminID, CountEnabled, ConsumeForInstanceAdmin,
       EstablishInstanceAdminSession, DemoteInstanceAdmin, AbandonTask, EndAdminSession
<1>2. QED
  BY <1>1, PTL DEF IASpec, ResetWithdraws

(* The last enabled admin is demoted only by a demotion that overlapped    *)
(* another one.                                                            *)
THEOREM AdminsRunOutOnlyByOverlap == IASpec => LastAdminKept
<1> DEFINE Kept == dashboardSPA(TRUE) = "/dashboard" /\ dashboardSPA(TRUE)' = "/setup" =>
                     \E o \in Operator : task[o].overlapped /\ task'[o] # task[o]
<1>1. InstanceInv /\ [IANext]_iavars => [Kept]_iavars
  <2> SUFFICES ASSUME InstanceInv, IANext, listInstanceAdmins # {}, listInstanceAdmins' = {}
               PROVE  \E o \in Operator : task[o].overlapped /\ task'[o] # task[o]
    BY DEF dashboardSPA, hasInstanceAdmin
  <2>1. admins \subseteq admins'
    BY SetupEffects DEF IANext, SetupStep, InstanceInvite, AdminInvite, Invites, RevokeInstanceInvite,
       FinishInstanceAdminAssertion, LookupInstanceAdminID, CountEnabled, ConsumeForInstanceAdmin,
       EstablishInstanceAdminSession, DemoteInstanceAdmin, AbandonTask, EndAdminSession,
       RedeemInstanceInvite, vars
  <2>2. disabled' # disabled
    BY <2>1 DEF listInstanceAdmins
  <2>3. PICK o \in Operator : DemoteInstanceAdmin(o)
    BY <2>2 DEF IANext, SetupStep, InstanceInvite, AdminInvite, Invites, RevokeInstanceInvite,
       FinishInstanceAdminAssertion, LookupInstanceAdminID, CountEnabled, ConsumeForInstanceAdmin,
       EstablishInstanceAdminSession, AbandonTask, EndAdminSession, RedeemInstanceInvite
  <2>4. task[o].pc = "counted" /\ task'[o] = Free
    BY <2>3 DEF DemoteInstanceAdmin
  <2>5. ~\E a, b \in listInstanceAdmins : a # b
    BY <2>3 DEF DemoteInstanceAdmin, listInstanceAdmins, vars
  <2>6. QED
    BY <2>4, <2>5 DEF InstanceInv, DemotionsHold, Free
<1>2. QED
  BY <1>1, InstanceInvariant, PTL DEF IASpec, LastAdminKept

-----------------------------------------------------------------------------
(***************************************************************************)
(* The setup by itself.  A process that is past RedeemSetupToken works     *)
(* with a consumed token, so that the admin it creates is named by one.    *)
(***************************************************************************)
RunsHold ==
    \A p \in Proc :
        /\ run[p].pc \in {"redeemed", "counted", "claimed"} => run[p].tok \in consumed
        /\ run[p].pc = "created" => run[p].tok \in admins

(* The tokens and what became of them.                                     *)
BootInv ==
    /\ now \in Nat /\ now <= MaxTime
    /\ minted \subseteq Token /\ consumed \subseteq minted /\ revoked \subseteq minted
    /\ expires \in [Token -> Nat]
    /\ keyed \subseteq admins /\ admins \subseteq consumed
    /\ run \in [Proc -> Run] /\ redeemers \in [Token -> SUBSET Proc]
    /\ \A a, b \in Open : a = b
    /\ RunsHold

(* Nothing is minted at first.                                             *)
LEMMA BootInvInit == Init => BootInv
<1> SUFFICES ASSUME Init PROVE BootInv
  OBVIOUS
<1>1. Idle \in Run /\ Idle.pc = "idle"
  BY DEF Idle, At, Run, Places
<1>2. RunsHold
  BY <1>1 DEF Init, RunsHold
<1>3. QED
  BY <1>1, <1>2, BootAssumption DEF Init, BootInv, Open

(* A process moves on, and the tokens and admins are as before.            *)
LEMMA RunMoves ==
    ASSUME BootInv, NEW p \in Proc, NEW r \in Run, run' = [run EXCEPT ![p] = r],
           UNCHANGED <<now, minted, consumed, revoked, expires, admins, keyed, redeemers>>,
           r.pc \in {"redeemed", "counted", "claimed"} => r.tok \in consumed,
           r.pc # "created"
    PROVE  BootInv'
<1>1. run' \in [Proc -> Run] /\ \A q \in Proc : run'[q] = IF q = p THEN r ELSE run[q]
  BY DEF BootInv
<1>2. RunsHold'
  BY <1>1 DEF BootInv, RunsHold
<1>3. QED
  BY <1>1, <1>2 DEF BootInv, Open

(* Every step keeps the tokens in order.                                   *)
LEMMA BootInvStep == BootInv /\ [Next]_vars => BootInv'
<1> SUFFICES ASSUME BootInv, [Next]_vars PROVE BootInv'
  OBVIOUS
<1> USE DEF BootInv
<1>1. ASSUME NEW where \in Places, NEW t \in Token \cup {NoToken}
      PROVE  At(where, t) \in Run /\ At(where, t).pc = where /\ At(where, t).tok = t
  BY DEF At, Run
<1>2. Idle \in Run /\ Idle.pc = "idle"
  BY DEF Idle, At, Run, Places
<1>3. \A p \in Proc : run[p] \in Run /\ run[p].tok \in Token \cup {NoToken}
  BY DEF Run
<1>4. CASE UNCHANGED vars \/ Tick
  <2>1. UNCHANGED <<minted, consumed, revoked, expires, admins, keyed, run, redeemers>>
    BY <1>4 DEF vars, Tick, tokenVars
  <2>2. now' \in Nat /\ now' <= MaxTime
    BY <1>4, BootAssumption DEF vars, Tick
  <2>3. RunsHold'
    BY <2>1 DEF RunsHold
  <2>4. QED
    BY <2>1, <2>2, <2>3 DEF Open
<1>5. ASSUME NEW p \in Proc, CheckFirstBoot(p) \/ RefuseReset(p) \/ Abort(p) PROVE BootInv'
  <2>1. PICK r \in Run : r.pc \in {"minting", "idle"} /\ run' = [run EXCEPT ![p] = r]
    <3>1. At("minting", NoToken) \in Run /\ At("minting", NoToken).pc = "minting"
      BY <1>1 DEF Places
    <3>2. QED
      BY <1>2, <1>5, <3>1 DEF CheckFirstBoot, RefuseReset, Abort
  <2>2. QED
    BY <1>5, <2>1, RunMoves DEF CheckFirstBoot, RefuseReset, Abort, tokenVars
<1>6. ASSUME NEW p \in Proc, CountAdmins(p) \/ ClaimToken(p) PROVE BootInv'
  <2>1. run[p].tok \in consumed
    BY <1>6 DEF CountAdmins, ClaimToken, RunsHold
  <2>2. PICK t : t = run[p].tok
    OBVIOUS
  <2>3. PICK r \in Run : /\ r.pc \in {"counted", "claimed", "idle"} /\ (r.pc # "idle" => r.tok = t)
                         /\ run' = [run EXCEPT ![p] = r]
    <3>1. /\ At("counted", t) \in Run /\ At("counted", t).pc = "counted" /\ At("counted", t).tok = t
          /\ At("claimed", t) \in Run /\ At("claimed", t).pc = "claimed" /\ At("claimed", t).tok = t
      BY <1>1, <1>3, <2>2 DEF Places
    <3>2. QED
      BY <1>2, <1>6, <2>2, <3>1 DEF CountAdmins, ClaimToken
  <2>4. QED
    BY <1>6, <2>1, <2>2, <2>3, RunMoves DEF CountAdmins, ClaimToken, tokenVars
<1>7. ASSUME NEW p \in Proc, ResetBootstrap(p) PROVE BootInv'
  <2>1. PICK r \in Run : r.pc = "reset" /\ run' = [run EXCEPT ![p] = r]
    <3>1. At("reset", NoToken) \in Run /\ At("reset", NoToken).pc = "reset"
      BY <1>1 DEF Places
    <3>2. QED
      BY <1>7, <3>1 DEF ResetBootstrap
  <2>2. run' \in [Proc -> Run] /\ \A q \in Proc : run'[q] = IF q = p THEN r ELSE run[q]
    BY <2>1
  <2>3. UNCHANGED <<now, minted, consumed, expires, admins, keyed, redeemers>> /\ revoked' = revoked \cup Open
    BY <1>7 DEF ResetBootstrap
  <2>4. RunsHold'
    BY <2>1, <2>2, <2>3 DEF RunsHold
  <2>5. QED
    BY <2>2, <2>3, <2>4 DEF Open
<1>8. ASSUME NEW p \in Proc, CreateAdmin(p) PROVE BootInv'
  <2>1. PICK t : t = run[p].tok
    OBVIOUS
  <2>2. /\ t \in consumed /\ revoked' = revoked \cup {t} /\ admins' = admins \cup {t}
        /\ UNCHANGED <<now, minted, consumed, expires, keyed, redeemers>>
    BY <1>8, <2>1 DEF CreateAdmin, RunsHold
  <2>3. PICK r \in Run : r.pc = "created" /\ r.tok = t /\ run' = [run EXCEPT ![p] = r]
    <3>1. At("created", t) \in Run /\ At("created", t).pc = "created" /\ At("created", t).tok = t
      BY <1>1, <1>3, <2>1 DEF Places
    <3>2. QED
      BY <1>8, <2>1, <3>1 DEF CreateAdmin
  <2>4. run' \in [Proc -> Run] /\ \A q \in Proc : run'[q] = IF q = p THEN r ELSE run[q]
    BY <2>3
  <2>5. RunsHold'
    BY <2>2, <2>3, <2>4 DEF RunsHold
  <2>6. QED
    BY <2>2, <2>4, <2>5 DEF Open
<1>9. ASSUME NEW p \in Proc, StoreCredential(p) PROVE BootInv'
  <2>1. /\ keyed' = keyed \cup {run[p].tok} /\ run[p].tok \in admins /\ run' = [run EXCEPT ![p] = Idle]
        /\ UNCHANGED <<now, minted, consumed, revoked, expires, admins, redeemers>>
    BY <1>9 DEF StoreCredential, RunsHold, tokenVars
  <2>2. run' \in [Proc -> Run] /\ \A q \in Proc : run'[q] = IF q = p THEN Idle ELSE run[q]
    BY <1>2, <2>1
  <2>3. RunsHold'
    BY <1>2, <2>1, <2>2 DEF RunsHold
  <2>4. QED
    BY <2>1, <2>2, <2>3 DEF Open
<1>10. ASSUME NEW p \in Proc, NEW t \in Token, MintSetupToken(p, t) PROVE BootInv'
  <2>1. /\ Open = {} /\ minted' = minted \cup {t} /\ expires' = [expires EXCEPT ![t] = now + TTL]
        /\ run' = [run EXCEPT ![p] = Idle]
        /\ UNCHANGED <<now, consumed, revoked, admins, keyed, redeemers>>
    BY <1>10 DEF MintSetupToken, OneLive
  <2>2. run' \in [Proc -> Run] /\ \A q \in Proc : run'[q] = IF q = p THEN Idle ELSE run[q]
    BY <1>2, <2>1
  <2>3. RunsHold'
    BY <1>2, <2>1, <2>2 DEF RunsHold
  <2>4. now + TTL \in Nat /\ expires' \in [Token -> Nat]
    BY <2>1, BootAssumption
  <2>5. Open' \subseteq {t}
    BY <2>1 DEF Open
  <2>6. QED
    BY <2>1, <2>2, <2>3, <2>4, <2>5
<1>11. ASSUME NEW p \in Proc, NEW t \in Token, RedeemSetupToken(p, t) PROVE BootInv'
  <2>1. /\ t \in minted /\ consumed' = consumed \cup {t}
        /\ redeemers' = [redeemers EXCEPT ![t] = @ \cup {p}]
        /\ UNCHANGED <<now, minted, revoked, expires, admins, keyed>>
    BY <1>11 DEF RedeemSetupToken, Redeemable, Open
  <2>2. PICK r \in Run : r.pc = "redeemed" /\ r.tok = t /\ run' = [run EXCEPT ![p] = r]
    <3>1. At("redeemed", t) \in Run /\ At("redeemed", t).pc = "redeemed" /\ At("redeemed", t).tok = t
      BY <1>1 DEF Places
    <3>2. QED
      BY <1>11, <3>1 DEF RedeemSetupToken
  <2>3. run' \in [Proc -> Run] /\ \A q \in Proc : run'[q] = IF q = p THEN r ELSE run[q]
    BY <2>2
  <2>4. RunsHold'
    BY <2>1, <2>2, <2>3 DEF RunsHold
  <2>5. redeemers' \in [Token -> SUBSET Proc] /\ Open' \subseteq Open
    BY <2>1 DEF Open
  <2>6. QED
    BY <2>1, <2>3, <2>4, <2>5
<1>12. QED
  BY <1>4, <1>5, <1>6, <1>7, <1>8, <1>9, <1>10, <1>11 DEF Next

(* BootTypeOK: whoever mints, redeems and resets at once, one setup token  *)
(* at most is open, and every admin of the setup is named by a token that  *)
(* was redeemed.                                                           *)
THEOREM OneSetupTokenOpen == Spec => []BootTypeOK
<1>1. ASSUME BootInv PROVE BootTypeOK
  <2>1. Cardinality(Open) = 0 \/ Cardinality(Open) = 1
    <3>1. Open = {} \/ \E t : Open = {t}
      <4>1. \A a, b \in Open : a = b
        BY <1>1 DEF BootInv
      <4>2. ASSUME NEW a \in Open PROVE Open = {a}
        BY <4>1, <4>2
      <4>3. QED
        BY <4>2
    <3>2. QED
      BY <3>1, FS_EmptySet, FS_Singleton, Zenon
  <2>2. now \in 0..MaxTime
    BY <1>1, BootAssumption DEF BootInv
  <2>3. Cardinality(Open) <= 1
    BY <2>1
  <2>4. QED
    BY <1>1, <2>2, <2>3 DEF BootInv, BootTypeOK
<1>2. QED
  BY <1>1, BootInvInit, BootInvStep, PTL DEF Spec

=============================================================================
