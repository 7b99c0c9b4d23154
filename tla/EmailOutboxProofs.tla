-------------------------- MODULE EmailOutboxProofs --------------------------
(***************************************************************************)
(* Proofs about the email outbox, for any number of mails and workers and  *)
(* any batch size.  The finite count of rows due is itself an invariant,   *)
(* so the set of mails need not be finite.  Of backoffDelay the proofs use *)
(* that it is positive (BackoffAssumption): a retry is never due at once.  *)
(***************************************************************************)
EXTENDS EmailOutbox, FiniteSetTheorems, TLAPS

(* A transaction that is not committed has recorded the delivery of m.     *)
Recorded(m) == \E w \in Worker : outcome[w][m] = "sent"

(* What the proofs need of the types.                                      *)
RowTypes ==
    /\ state \in [Mail -> States]
    /\ place \in [Mail -> Nat]
    /\ DOMAIN wait = Mail
    /\ todo \in [Worker -> SUBSET Mail]
    /\ outcome \in [Worker -> [Mail -> Outcomes]]
    /\ delivered \in [Mail -> Nat] /\ lost \in [Mail -> Nat]

(* Finitely many rows are pending, and the rows that are due or wait for   *)
(* another attempt are among them.                                         *)
RowsConsistent ==
    /\ IsFiniteSet({m \in Mail : state[m] = "pending"})
    /\ \A m \in Mail : /\ place[m] # 0 => state[m] = "pending" /\ wait[m] = 0
                       /\ wait[m] # 0 => state[m] = "pending"

(* SKIP LOCKED: a row is in one batch at most, is due as long as it is, and *)
(* is handled once.                                                        *)
BatchesApart ==
    \A v, w \in Worker : \A m \in Batch(v) :
        /\ place[m] # 0
        /\ m \in Batch(w) => v = w
        /\ m \in todo[v] => outcome[v][m] = "none"

(* Each delivery is lost, recorded in an open transaction, or committed; a *)
(* row is given up only if nothing can be sent for it.                     *)
Accounts ==
    /\ \A m \in Mail : delivered[m] = lost[m] + (IF state[m] = "sent" \/ Recorded(m) THEN 1 ELSE 0)
    /\ \A m \in Mail \ Sendable : delivered[m] = 0
    /\ \A m \in Mail : state[m] = "failed" => m \notin Sendable
    /\ \A w \in Worker, m \in Mail : outcome[w][m] = "failed" => m \notin Sendable

OutboxInv == RowTypes /\ RowsConsistent /\ BatchesApart /\ Accounts

(* At first there is no row.                                               *)
LEMMA OutboxInit == Init => OutboxInv
<1> SUFFICES ASSUME Init PROVE OutboxInv
  OBVIOUS
<1>1. RowTypes
  BY DEF Init, RowTypes, NoOutcome, States, Outcomes
<1>2. {m \in Mail : state[m] = "pending"} = {}
  BY DEF Init
<1>3. RowsConsistent
  BY <1>2, FS_EmptySet DEF Init, RowsConsistent
<1>4. BatchesApart
  BY DEF Init, BatchesApart, Batch, NoOutcome
<1>5. Accounts
  BY DEF Init, Accounts, Recorded, NoOutcome
<1>6. QED
  BY <1>1, <1>3, <1>4, <1>5 DEF OutboxInv

(* The rows due can be counted, in whatever part.                          *)
LEMMA DueFinite ==
    ASSUME OutboxInv, NEW S, S \subseteq Due PROVE IsFiniteSet(S) /\ Cardinality(S) \in Nat
<1>1. S \subseteq {m \in Mail : state[m] = "pending"}
  BY DEF OutboxInv, RowsConsistent, Due
<1>2. QED
  BY <1>1, FS_Subset, FS_CardinalityType DEF OutboxInv, RowsConsistent

(* A handler inserts a row.                                                *)
LEMMA EnqueueKeeps == ASSUME OutboxInv, NEW m \in Mail, Enqueue(m) PROVE OutboxInv'
<1> USE DEF OutboxInv
<1>1. Cardinality(Due) \in Nat
  BY DueFinite
<1>2. RowTypes'
  BY <1>1 DEF Enqueue, RowTypes, States, batchVars
<1>3. {n \in Mail : state'[n] = "pending"} = {n \in Mail : state[n] = "pending"} \cup {m}
  BY DEF Enqueue, RowTypes
<1>4. IsFiniteSet({n \in Mail : state'[n] = "pending"})
  BY <1>3, FS_AddElement DEF RowsConsistent
<1>5. \A n \in Mail : /\ state'[n] = IF n = m THEN "pending" ELSE state[n]
                      /\ n # m => place'[n] = place[n]
  BY DEF Enqueue, RowTypes
<1>6. place[m] = 0 /\ wait[m] = 0 /\ state[m] = "absent"
  BY DEF Enqueue, RowsConsistent
<1>7. RowsConsistent'
  BY <1>4, <1>5, <1>6 DEF Enqueue, RowsConsistent
<1>8. \A w \in Worker : Batch(w)' = Batch(w) /\ m \notin Batch(w) /\ Batch(w) \subseteq Mail
  BY <1>6 DEF Enqueue, Batch, BatchesApart, batchVars, RowTypes
<1>9. BatchesApart'
  BY <1>5, <1>8 DEF Enqueue, BatchesApart, batchVars
<1>10. Accounts'
  BY <1>5, <1>6 DEF Enqueue, Accounts, Recorded, batchVars
<1>11. QED
  BY <1>2, <1>7, <1>9, <1>10

(* SKIP LOCKED keeps the batches apart.                                    *)
LEMMA SelectKeeps == ASSUME OutboxInv, NEW w \in Worker, SelectBatch(w) PROVE OutboxInv'
<1> USE DEF OutboxInv
<1>1. PICK rows \in SUBSET Due : /\ \A m \in rows : Selectable(w, m)
                                 /\ todo' = [todo EXCEPT ![w] = rows]
  BY DEF SelectBatch
<1>2. /\ UNCHANGED <<state, place, wait, outcome, delivered, lost>>
      /\ Batch(w) = {}
  BY DEF SelectBatch, rowVars, Idle
<1>3. RowTypes'
  BY <1>1, <1>2 DEF RowTypes, Due
<1>4. \A v \in Worker : todo'[v] = IF v = w THEN rows ELSE todo[v]
  BY <1>1 DEF RowTypes
<1>5. \A v \in Worker : Batch(v)' = IF v = w THEN rows ELSE Batch(v)
  BY <1>2, <1>4 DEF Batch
<1>6. \A v \in Worker : \A m \in rows : m \notin Batch(v) /\ place[m] # 0 /\ outcome[v][m] = "none"
  BY <1>1 DEF Selectable, Batch, Due
<1>7. BatchesApart'
  BY <1>2, <1>4, <1>5, <1>6 DEF BatchesApart
<1>8. RowsConsistent' /\ Accounts'
  BY <1>2 DEF RowsConsistent, Accounts, Recorded
<1>9. QED
  BY <1>3, <1>7, <1>8

(* A worker handles a row of its batch, and the mail goes out or not.      *)
LEMMA HandleKeeps ==
    ASSUME OutboxInv, NEW w \in Worker, NEW m \in Mail, NEW result \in {"sent", "failed", "retry"},
           Handle(w, m, result),
           delivered' \in [Mail -> Nat], lost' \in [Mail -> Nat],
           \A n \in Mail \ {m} : delivered'[n] = delivered[n] /\ lost'[n] = lost[n],
           result = "sent" => delivered'[m] = delivered[m] + 1 /\ lost'[m] = lost[m],
           result # "sent" => delivered'[m] - lost'[m] = delivered[m] - lost[m],
           m \notin Sendable => delivered'[m] = 0,
           result = "failed" => m \notin Sendable
    PROVE  OutboxInv'
<1> USE DEF OutboxInv
<1>1. /\ UNCHANGED <<state, place, wait>>
      /\ todo' = [todo EXCEPT ![w] = @ \ {m}]
      /\ outcome' = [outcome EXCEPT ![w][m] = result]
      /\ m \in todo[w]
  BY DEF Handle, rowVars, First
<1>2. RowTypes'
  BY <1>1 DEF RowTypes, Outcomes
<1>3. \A v \in Worker : todo'[v] = IF v = w THEN todo[v] \ {m} ELSE todo[v]
  BY <1>1 DEF RowTypes
<1>4. \A v \in Worker, n \in Mail : outcome'[v][n] = IF v = w /\ n = m THEN result ELSE outcome[v][n]
  BY <1>1 DEF RowTypes
<1>5. \A v \in Worker : Batch(v)' = Batch(v)
  BY <1>1, <1>3, <1>4 DEF Batch
<1>6. BatchesApart'
  BY <1>1, <1>3, <1>4, <1>5 DEF BatchesApart, Batch, RowTypes
<1>7. m \in Batch(w) /\ place[m] # 0 /\ state[m] = "pending" /\ outcome[w][m] = "none"
  BY <1>1 DEF Batch, BatchesApart, RowsConsistent
<1>8. \A v \in Worker : v # w => outcome[v][m] = "none"
  BY <1>7 DEF BatchesApart, Batch
<1>9. ASSUME NEW n \in Mail PROVE delivered'[n] = lost'[n] + (IF state'[n] = "sent" \/ Recorded(n)' THEN 1 ELSE 0)
  <2>1. CASE n # m
    BY <2>1, <1>1, <1>4 DEF Accounts, Recorded
  <2>2. CASE n = m
    <3>1. ~Recorded(m) /\ delivered[m] = lost[m]
      BY <1>7, <1>8 DEF Recorded, Accounts, RowTypes
    <3>2. Recorded(m)' <=> result = "sent"
      BY <1>4, <1>7, <1>8 DEF Recorded
    <3>3. QED
      BY <2>2, <3>1, <3>2, <1>1, <1>7 DEF RowTypes
  <2>3. QED
    BY <2>1, <2>2
<1>10. Accounts'
  BY <1>1, <1>4, <1>9 DEF Accounts
<1>11. RowsConsistent'
  BY <1>1 DEF RowsConsistent
<1>12. QED
  BY <1>2, <1>6, <1>10, <1>11

(* The four ways to handle a row.                                          *)
LEMMA SendKeeps ==
    ASSUME OutboxInv, NEW w \in Worker, NEW m \in Mail,
           SendOk(w, m) \/ SendFails(w, m) \/ SendFailsLate(w, m) \/ GiveUp(w, m)
    PROVE  OutboxInv'
<1>1. delivered \in [Mail -> Nat] /\ lost \in [Mail -> Nat] /\ \A n \in Mail \ Sendable : delivered[n] = 0
  BY DEF OutboxInv, RowTypes, Accounts
<1>2. CASE SendOk(w, m)
  BY <1>1, <1>2, HandleKeeps DEF SendOk
<1>3. CASE SendFails(w, m)
  BY <1>1, <1>3, HandleKeeps DEF SendFails
<1>4. CASE SendFailsLate(w, m)
  BY <1>1, <1>4, HandleKeeps DEF SendFailsLate
<1>5. CASE GiveUp(w, m)
  BY <1>1, <1>5, HandleKeeps DEF GiveUp
<1>6. QED
  BY <1>2, <1>3, <1>4, <1>5

(* The commit makes what the transaction recorded the state of the rows,   *)
(* and they are no longer due.                                             *)
LEMMA CommitKeeps == ASSUME OutboxInv, NEW w \in Worker, CommitBatch(w) PROVE OutboxInv'
<1> USE DEF OutboxInv
<1> DEFINE done == Batch(w)
           rest == Due \ done
<1>1. /\ todo[w] = {} /\ UNCHANGED <<todo, delivered, lost>>
      /\ state' = [m \in Mail |-> IF m \in done THEN Settled(outcome[w][m]) ELSE state[m]]
      /\ place' = [m \in Mail |-> IF m \in rest THEN Rank(rest, m) ELSE 0]
      /\ outcome' = [outcome EXCEPT ![w] = NoOutcome]
  BY DEF CommitBatch
<1>2. DOMAIN wait' = Mail /\ \A m \in Mail \ done : wait'[m] = wait[m]
  BY DEF CommitBatch, RowTypes
<1>3. \A m \in Mail : m \in done <=> outcome[w][m] # "none"
  BY <1>1 DEF Batch
<1>4. \A m \in done : Settled(outcome[w][m]) \in {"pending", "sent", "failed"}
                   /\ m \in Mail /\ place[m] # 0 /\ state[m] = "pending"
  BY <1>3 DEF Settled, Batch, RowTypes, Outcomes, BatchesApart, RowsConsistent
<1>5. \A m \in rest : Rank(rest, m) \in Nat \ {0}
  <2> SUFFICES ASSUME NEW m \in rest PROVE Rank(rest, m) \in Nat \ {0}
    OBVIOUS
  <2> DEFINE S == {n \in rest : place[n] <= place[m]}
  <2>1. IsFiniteSet(S) /\ Cardinality(S) \in Nat
    BY DueFinite
  <2>2. m \in S
    BY DEF Due, RowTypes
  <2>3. Cardinality(S) # 0
    BY <2>1, <2>2, FS_EmptySet
  <2>4. QED
    BY <2>1, <2>3 DEF Rank
<1>6. RowTypes'
  BY <1>1, <1>2, <1>4, <1>5 DEF RowTypes, States, NoOutcome, Outcomes
<1>7. \A m \in Mail : /\ state'[m] = IF m \in done THEN Settled(outcome[w][m]) ELSE state[m]
                      /\ place'[m] # 0 <=> place[m] # 0 /\ m \notin done
  BY <1>1, <1>5 DEF Due, RowTypes
<1>8. RowsConsistent'
  <2>1. {m \in Mail : state'[m] = "pending"} \subseteq {m \in Mail : state[m] = "pending"}
    BY <1>4, <1>7
  <2>2. IsFiniteSet({m \in Mail : state'[m] = "pending"})
    BY <2>1, FS_Subset DEF RowsConsistent
  <2>3. ASSUME NEW m \in done PROVE wait'[m] # 0 => state'[m] = "pending"
    <3>1. CASE Settled(outcome[w][m]) = "pending"
      BY <3>1, <1>4, <1>7
    <3>2. CASE Settled(outcome[w][m]) # "pending"
      <4>1. wait'[m] = wait[m] /\ wait[m] = 0
        BY <3>2, <1>4 DEF CommitBatch, RowsConsistent
      <4>2. QED
        BY <4>1
    <3>3. QED
      BY <3>1, <3>2
  <2>4. QED
    BY <2>2, <2>3, <1>2, <1>7 DEF RowsConsistent
<1>9. \A v \in Worker : /\ outcome'[v] = IF v = w THEN NoOutcome ELSE outcome[v]
                        /\ Batch(v)' = IF v = w THEN {} ELSE Batch(v)
  BY <1>1 DEF RowTypes, Batch, NoOutcome
<1>10. BatchesApart'
  <2> SUFFICES ASSUME NEW u \in Worker, NEW v \in Worker, NEW m \in Batch(u)'
               PROVE  /\ place'[m] # 0
                      /\ m \in Batch(v)' => u = v
                      /\ m \in todo'[u] => outcome'[u][m] = "none"
    BY DEF BatchesApart
  <2>1. u # w /\ m \in Batch(u) /\ m \in Mail
    BY <1>9 DEF Batch, RowTypes
  <2>2. m \notin done /\ place[m] # 0
    BY <2>1 DEF BatchesApart
  <2>3. place'[m] # 0
    BY <2>1, <2>2, <1>7
  <2>4. m \in Batch(v)' => u = v
    BY <2>1, <1>9 DEF BatchesApart
  <2>5. m \in todo'[u] => outcome'[u][m] = "none"
    <3>1. outcome'[u] = outcome[u] /\ todo'[u] = todo[u]
      BY <2>1, <1>1, <1>9
    <3>2. QED
      BY <2>1, <3>1 DEF BatchesApart
  <2>6. QED
    BY <2>3, <2>4, <2>5
<1>11. \A m \in Mail : state'[m] = "sent" \/ Recorded(m)' <=> state[m] = "sent" \/ Recorded(m)
  <2> SUFFICES ASSUME NEW m \in Mail
               PROVE state'[m] = "sent" \/ Recorded(m)' <=> state[m] = "sent" \/ Recorded(m)
    OBVIOUS
  <2>1. CASE m \in done
    <3>1. \A v \in Worker : v # w => outcome[v][m] = "none"
      BY <2>1 DEF BatchesApart, Batch
    <3>2. ~Recorded(m)' /\ (Recorded(m) <=> outcome[w][m] = "sent")
      BY <3>1, <1>9 DEF Recorded, NoOutcome
    <3>3. QED
      BY <2>1, <3>2, <1>4, <1>7 DEF Settled
  <2>2. CASE m \notin done
    BY <2>2, <1>3, <1>7, <1>9 DEF Recorded, NoOutcome
  <2>3. QED
    BY <2>1, <2>2
<1>12. \A m \in Mail : state'[m] = "failed" => m \notin Sendable
  BY <1>7 DEF Settled, Accounts
<1>13. Accounts'
  BY <1>1, <1>9, <1>11, <1>12 DEF Accounts, NoOutcome
<1>14. QED
  BY <1>6, <1>8, <1>10, <1>13

(* A failure rolls every batch back; what was recorded is lost.            *)
LEMMA FailureKeeps == ASSUME OutboxInv, BatchFails PROVE OutboxInv'
<1> USE DEF OutboxInv
<1> DEFINE sentBy(m) == {w \in Worker : outcome[w][m] = "sent"}
<1>1. /\ UNCHANGED <<state, place, wait, delivered>>
      /\ todo' = [w \in Worker |-> {}]
      /\ outcome' = [w \in Worker |-> NoOutcome]
      /\ lost' = [m \in Mail |-> lost[m] + Cardinality(sentBy(m))]
  BY DEF BatchFails, rowVars
<1>2. \A m \in Mail : Cardinality(sentBy(m)) = IF Recorded(m) THEN 1 ELSE 0
  <2> SUFFICES ASSUME NEW m \in Mail PROVE Cardinality(sentBy(m)) = IF Recorded(m) THEN 1 ELSE 0
    OBVIOUS
  <2>1. CASE Recorded(m)
    <3>1. PICK w \in Worker : outcome[w][m] = "sent"
      BY <2>1 DEF Recorded
    <3>2. \A v \in Worker : outcome[v][m] = "sent" => v = w
      BY <3>1 DEF BatchesApart, Batch
    <3>3. sentBy(m) = {w}
      BY <3>1, <3>2
    <3>4. QED
      BY <2>1, <3>3, FS_Singleton
  <2>2. CASE ~Recorded(m)
    <3>1. sentBy(m) = {}
      BY <2>2 DEF Recorded
    <3>2. QED
      BY <2>2, <3>1, FS_EmptySet
  <2>3. QED
    BY <2>1, <2>2
<1>3. \A m \in Mail : lost'[m] = lost[m] + (IF Recorded(m) THEN 1 ELSE 0)
  BY <1>1, <1>2
<1>4. RowTypes'
  <2>1. \A m \in Mail : lost'[m] \in Nat
    BY <1>3 DEF RowTypes
  <2>2. DOMAIN lost' = Mail /\ lost' = [m \in Mail |-> lost'[m]]
    BY <1>1
  <2>3. lost' \in [Mail -> Nat]
    BY <2>1, <2>2
  <2>4. QED
    BY <1>1, <2>3 DEF RowTypes, NoOutcome, Outcomes
<1>5. \A m \in Mail : ~Recorded(m)' /\ (Recorded(m) => state[m] = "pending")
  BY <1>1 DEF Recorded, NoOutcome, BatchesApart, Batch, RowsConsistent
<1>6. \A m \in Mail : delivered'[m] = lost'[m] + (IF state'[m] = "sent" \/ Recorded(m)' THEN 1 ELSE 0)
  BY <1>1, <1>3, <1>5 DEF Accounts, RowTypes
<1>7. Accounts'
  BY <1>1, <1>6 DEF Accounts, NoOutcome
<1>8. RowsConsistent' /\ BatchesApart'
  BY <1>1 DEF RowsConsistent, BatchesApart, Batch, NoOutcome
<1>9. QED
  BY <1>4, <1>7, <1>8

(* Rows whose wait is over become due; they are not in a batch.            *)
LEMMA TickKeeps == ASSUME OutboxInv, Tick PROVE OutboxInv'
<1> USE DEF OutboxInv
<1> DEFINE late  == {m \in Mail : wait[m] = 1}
<1>1. IsFiniteSet(late)
  <2>1. late \subseteq {m \in Mail : state[m] = "pending"}
    BY DEF RowsConsistent
  <2>2. QED
    BY <2>1, FS_Subset DEF RowsConsistent
<1>2. Cardinality(Due) \in Nat /\ Cardinality(late) \in Nat
  BY <1>1, DueFinite, FS_CardinalityType
<1>3. /\ UNCHANGED <<state, todo, outcome, delivered, lost>>
      /\ wait' = [m \in Mail |-> IF wait[m] > 0 THEN wait[m] - 1 ELSE 0]
  BY DEF Tick, batchVars
<1>4. PICK order : /\ order \in [late -> (Cardinality(Due) + 1)..(Cardinality(Due) + Cardinality(late))]
                   /\ place' = [m \in Mail |-> IF m \in late THEN order[m] ELSE place[m]]
  BY DEF Tick, Bijection, Injection
<1>5. \A m \in late : order[m] \in Nat \ {0}
  BY <1>2, <1>4
<1>6. RowTypes'
  BY <1>3, <1>4, <1>5 DEF RowTypes
<1>7. \A m \in Mail : /\ place'[m] # 0 <=> place[m] # 0 \/ wait[m] = 1
                      /\ wait[m] = 1 => wait'[m] = 0
                      /\ wait[m] = 0 => wait'[m] = 0
  BY <1>3, <1>4, <1>5 DEF RowsConsistent
<1>8. RowsConsistent'
  BY <1>3, <1>7 DEF RowsConsistent
<1>9. \A w \in Worker : Batch(w)' = Batch(w) /\ Batch(w) \subseteq Mail
  BY <1>3 DEF Batch, RowTypes
<1>10. BatchesApart'
  BY <1>3, <1>7, <1>9 DEF BatchesApart
<1>11. Accounts'
  BY <1>3 DEF Accounts, Recorded
<1>12. QED
  BY <1>6, <1>8, <1>10, <1>11

(* Every step keeps the invariant.                                         *)
LEMMA OutboxStep == OutboxInv /\ [Next]_vars => OutboxInv'
<1> SUFFICES ASSUME OutboxInv, [Next]_vars PROVE OutboxInv'
  OBVIOUS
<1>1. CASE UNCHANGED vars \/ Restart
  <2>1. UNCHANGED <<state, place, wait, todo, outcome, delivered, lost>>
    BY <1>1 DEF vars, Restart, rowVars, batchVars
  <2>2. \A w \in Worker : Batch(w)' = Batch(w)
    BY <2>1 DEF Batch
  <2>3. RowTypes' /\ RowsConsistent' /\ Accounts'
    BY <2>1 DEF OutboxInv, RowTypes, RowsConsistent, Accounts, Recorded
  <2>4. BatchesApart'
    BY <2>1, <2>2 DEF OutboxInv, BatchesApart
  <2>5. QED
    BY <2>3, <2>4 DEF OutboxInv
<1>2. ASSUME NEW w \in Worker, Work(w) PROVE OutboxInv'
  BY <1>2, SelectKeeps, CommitKeeps, SendKeeps DEF Work
<1>3. QED
  BY <1>1, <1>2, EnqueueKeeps, FailureKeeps, TickKeeps DEF Next

(* The rows and the deliveries agree in every reachable state.             *)
LEMMA OutboxInvariant == Spec => []OutboxInv
<1>1. QED
  BY OutboxInit, OutboxStep, PTL DEF Spec

(* DuplicatesExplained: however many workers of runBatch poll at once and  *)
(* wherever a batch fails, a recipient gets a mail a second time only if   *)
(* an earlier delivery was not recorded.                                   *)
THEOREM DuplicatesOnlyByLoss == Spec => []DuplicatesExplained
<1>1. OutboxInv => DuplicatesExplained
  BY DEF OutboxInv, RowTypes, Accounts, DuplicatesExplained
<1>2. QED
  BY <1>1, OutboxInvariant, PTL

(* SettledIsTrue: sent_at is committed only for a mail that went out, and  *)
(* failed_at only for one that never did.                                  *)
THEOREM SettledRowsAreTrue == Spec => []SettledIsTrue
<1>1. OutboxInv => SettledIsTrue
  BY DEF OutboxInv, Accounts, SettledIsTrue
<1>2. QED
  BY <1>1, OutboxInvariant, PTL

(* The columns the other proofs do not look at, and the order of the rows  *)
(* due: each has a number of its own, none above their count, so that the  *)
(* row that becomes due next is the last.                                  *)
RowsOrdered ==
    /\ wait \in [Mail -> Nat]
    /\ attempts \in [Mail -> 0..MaxShift]
    /\ up \in BOOLEAN /\ faults \in 0..MaxFaults
    /\ \A m \in Due : place[m] <= Cardinality(Due)
    /\ \A m, n \in Due : place[m] = place[n] => m = n
    /\ \A m \in Mail : state[m] = "pending" => place[m] # 0 \/ wait[m] # 0

(* A row is inserted behind the others.                                    *)
LEMMA EnqueueOrders == ASSUME OutboxInv, RowsOrdered, NEW m \in Mail, Enqueue(m) PROVE RowsOrdered'
<1> USE DEF RowsOrdered
<1>1. IsFiniteSet(Due) /\ Cardinality(Due) \in Nat
  BY DueFinite
<1>2. m \notin Due /\ place \in [Mail -> Nat] /\ state \in [Mail -> States]
  BY DEF Enqueue, OutboxInv, RowsConsistent, RowTypes, Due
<1>3. \A n \in Mail : /\ place'[n] = IF n = m THEN Cardinality(Due) + 1 ELSE place[n]
                      /\ state'[n] = IF n = m THEN "pending" ELSE state[n]
  BY <1>2 DEF Enqueue
<1>4. Due' = Due \cup {m}
  BY <1>1, <1>3 DEF Due
<1>5. Cardinality(Due') = Cardinality(Due) + 1
  BY <1>1, <1>2, <1>4, FS_AddElement
<1>6. \A n \in Due : place[n] \in Nat /\ n \in Mail /\ n # m
  BY <1>2 DEF Due
<1>7. \A n \in Due' : place'[n] <= Cardinality(Due')
  BY <1>1, <1>3, <1>4, <1>5, <1>6
<1>8. \A n, k \in Due' : place'[n] = place'[k] => n = k
  BY <1>1, <1>3, <1>4, <1>6
<1>9. \A n \in Mail : state'[n] = "pending" => place'[n] # 0 \/ wait'[n] # 0
  BY <1>1, <1>3 DEF Enqueue
<1>10. QED
  BY <1>7, <1>8, <1>9 DEF Enqueue

(* The commit closes the gaps its rows leave in the order.                 *)
LEMMA CommitOrders == ASSUME OutboxInv, RowsOrdered, NEW w \in Worker, CommitBatch(w) PROVE RowsOrdered'
<1> USE DEF RowsOrdered
<1> DEFINE done    == Batch(w)
           rest    == Due \ done
           upTo(m) == {n \in rest : place[n] <= place[m]}
           again   == {m \in done : Settled(outcome[w][m]) = "pending"}
<1>1. /\ UNCHANGED <<up, faults>>
      /\ state' = [m \in Mail |-> IF m \in done THEN Settled(outcome[w][m]) ELSE state[m]]
      /\ attempts' = [m \in Mail |-> IF m \in again THEN Saturated(attempts[m]) ELSE attempts[m]]
      /\ wait' = [m \in Mail |-> IF m \in again THEN backoffDelay(attempts'[m]) ELSE wait[m]]
      /\ place' = [m \in Mail |-> IF m \in rest THEN Rank(rest, m) ELSE 0]
  BY DEF CommitBatch
<1>2. IsFiniteSet(rest) /\ Cardinality(rest) \in Nat
  BY DueFinite
<1>3. \A m \in rest : place[m] \in Nat /\ m \in Mail
  BY DEF OutboxInv, RowTypes, Due
<1>4. ASSUME NEW m \in rest
      PROVE  /\ IsFiniteSet(upTo(m)) /\ upTo(m) \in SUBSET rest
             /\ Rank(rest, m) = Cardinality(upTo(m))
             /\ Rank(rest, m) \in Nat \ {0} /\ Rank(rest, m) <= Cardinality(rest)
  <2>1. upTo(m) \in SUBSET rest /\ Rank(rest, m) = Cardinality(upTo(m))
    BY DEF Rank
  <2>2. IsFiniteSet(upTo(m)) /\ Cardinality(upTo(m)) <= Cardinality(rest)
    BY <1>2, <2>1, FS_Subset
  <2>3. m \in upTo(m)
    BY <1>3
  <2>4. Cardinality(upTo(m)) \in Nat /\ Cardinality(upTo(m)) # 0
    BY <2>2, <2>3, FS_CardinalityType, FS_EmptySet
  <2>5. QED
    BY <2>1, <2>2, <2>4
<1>5. ASSUME NEW m \in rest, NEW n \in rest, place[m] < place[n] PROVE Rank(rest, m) # Rank(rest, n)
  <2>1. upTo(m) \in SUBSET upTo(n) /\ n \in upTo(n) /\ n \notin upTo(m)
    BY <1>3, <1>5
  <2>2. Cardinality(upTo(m)) # Cardinality(upTo(n))
    BY <1>4, <2>1, FS_Subset
  <2>3. QED
    BY <1>4, <2>2
<1>6. ASSUME NEW m \in rest, NEW n \in rest, Rank(rest, m) = Rank(rest, n) PROVE m = n
  <2>1. place[m] = place[n]
    BY <1>3, <1>5, <1>6
  <2>2. QED
    BY <2>1
<1>7. \A m \in Mail : place'[m] = IF m \in rest THEN Rank(rest, m) ELSE 0
  BY <1>1
<1>8. Due' = rest
  BY <1>3, <1>4, <1>7 DEF Due
<1>9. /\ \A m \in Due' : place'[m] <= Cardinality(Due')
      /\ \A m, n \in Due' : place'[m] = place'[n] => m = n
  <2>1. \A m \in rest : place'[m] = Rank(rest, m)
    BY <1>3, <1>7
  <2>2. \A m \in rest : place'[m] <= Cardinality(rest)
    BY <1>4, <2>1
  <2>3. \A m, n \in rest : place'[m] = place'[n] => m = n
    BY <1>6, <2>1
  <2>4. QED
    BY <1>8, <2>2, <2>3
<1>10. \A m \in Mail : /\ Saturated(attempts[m]) \in 1..MaxShift
                       /\ attempts'[m] \in 0..MaxShift
                       /\ m \in again => attempts'[m] \in 1..MaxShift
  BY <1>1, OutboxAssumption DEF Saturated
<1>11. \A m \in Mail : m \in again => wait'[m] \in Nat \ {0}
  BY <1>1, <1>10, BackoffAssumption DEF backoffDelay
<1>12. \A m \in Mail : m \notin again => wait'[m] = wait[m] /\ wait[m] \in Nat
  BY <1>1
<1>13. wait' \in [Mail -> Nat] /\ attempts' \in [Mail -> 0..MaxShift]
  <2>1. /\ \A m \in Mail : wait'[m] \in Nat
        /\ wait' = [m \in Mail |-> wait'[m]] /\ attempts' = [m \in Mail |-> attempts'[m]]
    BY <1>1, <1>11, <1>12
  <2>2. QED
    BY <1>10, <2>1
<1>14. ASSUME NEW m \in Mail, state'[m] = "pending" PROVE place'[m] # 0 \/ wait'[m] # 0
  <2>1. CASE m \in done
    BY <1>1, <1>11, <1>14, <2>1
  <2>2. CASE m \notin done
    <3>1. state[m] = "pending" /\ wait'[m] = wait[m]
      BY <1>1, <1>12, <1>14, <2>2
    <3>2. place[m] # 0 => m \in rest
      BY <2>2 DEF Due
    <3>3. QED
      BY <1>4, <1>7, <3>1, <3>2
  <2>3. QED
    BY <2>1, <2>2
<1>15. QED
  BY <1>1, <1>9, <1>13, <1>14

(* Rows that become due line up behind the others.                         *)
LEMMA TickOrders == ASSUME OutboxInv, RowsOrdered, Tick PROVE RowsOrdered'
<1> USE DEF RowsOrdered
<1> DEFINE late == {m \in Mail : wait[m] = 1}
           due  == Cardinality(Due)
<1>1. IsFiniteSet(late)
  <2>1. late \subseteq {m \in Mail : state[m] = "pending"}
    BY DEF OutboxInv, RowsConsistent
  <2>2. QED
    BY <2>1, FS_Subset DEF OutboxInv, RowsConsistent
<1>2. IsFiniteSet(Due) /\ due \in Nat /\ Cardinality(late) \in Nat
  BY <1>1, DueFinite, FS_CardinalityType
<1>3. /\ UNCHANGED <<state, attempts, up, faults>>
      /\ wait' = [m \in Mail |-> IF wait[m] > 0 THEN wait[m] - 1 ELSE 0]
  BY DEF Tick
<1>4. PICK order \in Bijection(late, (due + 1)..(due + Cardinality(late))) :
          place' = [m \in Mail |-> IF m \in late THEN order[m] ELSE place[m]]
  BY DEF Tick
<1>5. /\ \A m \in late : order[m] \in (due + 1)..(due + Cardinality(late))
      /\ \A m, n \in late : order[m] = order[n] => m = n
  <2>1. order \in Injection(late, (due + 1)..(due + Cardinality(late)))
    BY <1>4 DEF Bijection
  <2>2. QED
    BY <2>1 DEF Injection, IsInjective
<1>6. \A m \in Due : place[m] \in Nat /\ m \in Mail /\ m \notin late
  BY DEF OutboxInv, RowTypes, RowsConsistent, Due
<1>7. \A m \in Mail : place'[m] = IF m \in late THEN order[m] ELSE place[m]
  BY <1>4
<1>8. Due' = Due \cup late
  BY <1>2, <1>5, <1>7 DEF Due
<1>9. Cardinality(Due') = due + Cardinality(late)
  <2>1. Due \cap late = {}
    BY <1>6
  <2>2. QED
    <3>1. Cardinality(Due \cup late) = due + Cardinality(late) - Cardinality(Due \cap late)
      BY <1>1, <1>2, FS_Union
    <3>2. Cardinality(Due \cap late) = 0
      BY <2>1, FS_EmptySet
    <3>3. QED
      BY <1>2, <1>8, <3>1, <3>2
<1>10. \A m \in Due' : place'[m] <= Cardinality(Due')
  <2> SUFFICES ASSUME NEW m \in Due' PROVE place'[m] <= due + Cardinality(late)
    BY <1>9
  <2>1. CASE m \in late
    BY <1>2, <1>5, <1>7, <2>1
  <2>2. CASE m \notin late
    BY <1>2, <1>6, <1>7, <1>8, <2>2
  <2>3. QED
    BY <2>1, <2>2
<1>11. ASSUME NEW m \in Due', NEW n \in Due', place'[m] = place'[n] PROVE m = n
  <2>1. \A k \in late : place'[k] = order[k] /\ order[k] \in Nat /\ order[k] > due
    BY <1>2, <1>5, <1>7
  <2>2. \A k \in Due : place'[k] = place[k] /\ place[k] \in Nat /\ place[k] <= due
    BY <1>6, <1>7
  <2>3. m \in late <=> n \in late
    BY <1>2, <1>8, <1>11, <2>1, <2>2
  <2>4. QED
    BY <1>5, <1>8, <1>11, <2>1, <2>2, <2>3
<1>12. \A m \in Mail : wait'[m] = (IF wait[m] > 0 THEN wait[m] - 1 ELSE 0) /\ wait[m] \in Nat
  BY <1>3
<1>13. wait' \in [Mail -> Nat]
  BY <1>3, <1>12
<1>14. ASSUME NEW m \in Mail, state'[m] = "pending" PROVE place'[m] # 0 \/ wait'[m] # 0
  <2>1. state[m] = "pending" /\ (place[m] # 0 \/ wait[m] # 0)
    BY <1>3, <1>14
  <2>2. CASE m \in late
    BY <1>2, <1>5, <1>7, <2>2
  <2>3. CASE m \notin late
    BY <1>7, <1>12, <2>1, <2>3
  <2>4. QED
    BY <2>2, <2>3
<1>15. QED
  BY <1>3, <1>10, <1>11, <1>13, <1>14

(* Every step keeps the order; the others leave the rows alone.            *)
LEMMA OrderStep == OutboxInv /\ RowsOrdered /\ [Next]_vars => RowsOrdered'
<1> SUFFICES ASSUME OutboxInv, RowsOrdered, [Next]_vars PROVE RowsOrdered'
  OBVIOUS
<1>1. ASSUME UNCHANGED rowVars, up' \in BOOLEAN, faults' \in 0..MaxFaults PROVE RowsOrdered'
  BY <1>1 DEF RowsOrdered, rowVars, Due
<1>2. up \in BOOLEAN /\ faults \in 0..MaxFaults
  BY DEF RowsOrdered
<1>3. CASE UNCHANGED vars \/ Restart \/ BatchFails
  <2>1. CASE UNCHANGED vars
    BY <1>1, <1>2, <2>1 DEF vars
  <2>2. CASE Restart
    BY <1>1, <1>2, <2>2 DEF Restart
  <2>3. CASE BatchFails
    <3>1. faults' \in 0..MaxFaults
      BY <1>2, <2>3, OutboxAssumption DEF BatchFails
    <3>2. QED
      BY <1>1, <2>3, <3>1 DEF BatchFails
  <2>4. QED
    BY <1>3, <2>1, <2>2, <2>3
<1>4. ASSUME NEW w \in Worker, Work(w) PROVE RowsOrdered'
  <2>1. CASE SelectBatch(w)
    BY <1>1, <1>2, <2>1 DEF SelectBatch
  <2>2. ASSUME NEW m \in Mail,
               SendOk(w, m) \/ SendFails(w, m) \/ SendFailsLate(w, m) \/ GiveUp(w, m)
        PROVE  RowsOrdered'
    <3>1. UNCHANGED rowVars /\ up' = up
      BY <2>2 DEF SendOk, SendFails, SendFailsLate, GiveUp, Handle
    <3>2. faults' \in 0..MaxFaults
      BY <1>2, <2>2, OutboxAssumption DEF SendOk, SendFails, SendFailsLate, GiveUp
    <3>3. QED
      BY <1>1, <1>2, <3>1, <3>2
  <2>3. QED
    BY <1>4, <2>1, <2>2, CommitOrders DEF Work
<1>5. QED
  BY <1>3, <1>4, EnqueueOrders, TickOrders DEF Next

(* OutboxTypeOK: whatever batches commit, fail and are retried, the rows   *)
(* due are in one order, a pending row is due or has a time at which it    *)
(* will be, and a settled one has neither: runBatch strands no row.        *)
THEOREM NoRowIsStranded == Spec => []OutboxTypeOK
<1>1. Init => RowsOrdered
  BY OutboxAssumption DEF Init, RowsOrdered, Due
<1>2. OutboxInv /\ RowsOrdered => OutboxTypeOK
  <2> SUFFICES ASSUME OutboxInv, RowsOrdered PROVE OutboxTypeOK
    OBVIOUS
  <2>1. \A m \in Mail : state[m] = "pending" <=> (place[m] # 0 <=> wait[m] = 0)
    BY DEF OutboxInv, RowsConsistent, RowsOrdered
  <2>2. QED
    BY <2>1 DEF OutboxInv, RowTypes, RowsOrdered, OutboxTypeOK
<1>3. QED
  BY <1>1, <1>2, OutboxInvariant, OrderStep, PTL DEF Spec

=============================================================================
