---------------------------- MODULE ConfigProofs -----------------------------
(***************************************************************************)
(* Proofs about what operators and tenant administrators set up, for any   *)
(* number of keys, rows, connections, domains and jobs, commands or        *)
(* requests in flight: SigningKeys, MasterKeyRotation and Connections,     *)
(* which share no variable.                                                *)
(***************************************************************************)
EXTENDS SigningKeys, MasterKeyRotation, Connections, FiniteSetTheorems, TLAPS

-----------------------------------------------------------------------------
(***************************************************************************)
(* Signing keys.  A tenant loses its active key only to a deletion, which  *)
(* takes the overlap key with it (Behind), so the key a cancellation       *)
(* restores is the only one published.  There is one to restore for as     *)
(* long as the deletion can be cancelled (Restorable), and transactions in *)
(* flight cannot change that (Deletions): either every row a deletion has  *)
(* not seen, or a cleanup may leave behind, is sunsetting already, or the  *)
(* sunset of some key lies ahead, because transactions end in time         *)
(* (Brief).  A new key is the newest unless its rotation was overtaken     *)
(* (Current, ActiveIsNewest).  Rows a rotation has updated keep their      *)
(* state until it commits (Locks).                                         *)
(***************************************************************************)

(* cancelTenantDeletion could be granted to a request that is open.        *)
CanCancel == tenant.exists /\ tenant.scheduled /\ now < tenant.cancelUntil + Patience

(* Types; no key was activated and no job read the clock in the future; a  *)
(* job has seen rows that are there.                                       *)
KeyTypes ==
    /\ now \in Nat
    /\ key \in [Kid -> KeyRow]
    /\ tenant \in [exists : BOOLEAN, scheduled : BOOLEAN, cancelUntil : Nat, hardAfter : Nat]
    /\ job \in [Proc -> Job]
    /\ owed \in [Kid -> Nat] /\ crossed \in BOOLEAN
    /\ \A k \in Rows : key[k].activated <= now
    /\ \A p \in Proc : job[p].at <= now /\ job[p].seen \subseteq Rows

(* Deletions and cancellations end before their patience is over.          *)
Brief == \A p \in Proc : job[p].pc \in Open => now <= job[p].at + Patience

(* A rotation holds the overlap and the active key it has updated, no      *)
(* other transaction does, and the other jobs hold nothing.                *)
Locks ==
    /\ \A p \in Proc : /\ job[p].old \subseteq InState("overlap")
                       /\ job[p].cur \subseteq InState("active")
                       /\ job[p].pc \notin {"retired", "moving", "moved"} =>
                              job[p].old = {} /\ job[p].cur = {}
    /\ \A p, q \in Proc : p # q =>
           (job[p].old \cup job[p].cur) \cap (job[q].old \cup job[q].cur) = {}

(* A rotation that no other has overtaken would insert the newest key.     *)
Current ==
    \A p \in Proc : job[p].pc \in Rotating /\ ~job[p].overtaken =>
        \A k \in Rows : key[k].activated <= job[p].at

(* The overlap key was activated no later than the active one.             *)
ActiveIsNewest ==
    crossed \/ \A a \in InState("active"), k \in InState("overlap") :
                   key[k].activated <= key[a].activated

(* There is no overlap key without an active one, and a deletion that has  *)
(* not seen the overlap key has not seen the active one either.            *)
Behind ==
    /\ InState("overlap") # {} => InState("active") # {}
    /\ \A p \in Proc : job[p].pc = "scheduling" /\ ~(InState("overlap") \subseteq job[p].seen) =>
           InState("active") # {} /\ InState("active") \cap job[p].seen = {}

(* A tenant has keys, and an active one and none in sunset unless it is    *)
(* being deleted; while the deletion can be cancelled there is a key to    *)
(* restore.                                                                *)
Restorable ==
    /\ tenant.exists => Rows # {}
    /\ tenant.exists /\ ~tenant.scheduled => InState("active") # {} /\ InState("sunsetting") = {}
    /\ tenant.scheduled => tenant.cancelUntil + Patience <= tenant.hardAfter
    /\ CanCancel /\ InState("active") = {} => InState("sunsetting") # {}

(* A cleanup leaves a key in sunset if it leaves any.                      *)
PurgeSpares(p) ==
    Rows \subseteq InState("sunsetting")
        \/ \E k \in InState("sunsetting") : key[k].until > job[p].at

(* So does a deletion, until it can be cancelled no more.                  *)
ScheduleSpares(p) ==
    Rows \ InState("sunsetting") \subseteq job[p].seen
        \/ \E k \in InState("sunsetting") : key[k].until + Patience >= job[p].at + Sunset

(* Jobs in flight when no key is active.                                   *)
Deletions ==
    InState("active") = {} =>
        \A p \in Proc : /\ job[p].pc = "purging" /\ CanCancel => PurgeSpares(p)
                        /\ job[p].pc = "scheduling" => ScheduleSpares(p)

(* A key that is owed is sunsetting for that long.                         *)
DebtsKept == \A k \in Kid : now < owed[k] => key[k].state = "sunsetting" /\ key[k].until = owed[k]

(* The inductive invariant of the signing keys.                            *)
KeysInv ==
    /\ KeyTypes /\ Brief /\ Locks /\ Current /\ ActiveIsNewest
    /\ Behind /\ Restorable /\ Deletions /\ DebtsKept

(* createTenant leaves the tenant with one key, which is active.           *)
LEMMA KeysInit == Init => KeysInv
<1> SUFFICES ASSUME Init PROVE KeysInv
  OBVIOUS
<1>0. 1 \in Kid /\ Interval \in Nat
  BY KeyTimesAssumption DEF Kid
<1>1. KeyTypes
  <2>1. NoJob \in Job
    BY DEF Job, NoJob, Places, Open, Rotating
  <2>2. \A p \in Proc : job[p] = NoJob
    BY DEF Init
  <2>3. key \in [Kid -> KeyRow]
    BY <1>0 DEF Init, KeyRow, States, Absent
  <2>4. \A k \in Rows : key[k].activated <= now
    BY DEF Init, Rows, Absent
  <2>5. \A p \in Proc : job[p].at <= now /\ job[p].seen \subseteq Rows
    BY <2>2 DEF Init, NoJob
  <2>6. now \in Nat /\ owed \in [Kid -> Nat] /\ crossed \in BOOLEAN
        /\ tenant \in [exists : BOOLEAN, scheduled : BOOLEAN, cancelUntil : Nat, hardAfter : Nat]
    BY DEF Init
  <2>7. job \in [Proc -> Job]
    BY <2>1 DEF Init
  <2>8. QED
    BY <2>3, <2>4, <2>5, <2>6, <2>7 DEF KeyTypes
<1>2. Locks /\ Brief /\ Current
  BY DEF Init, Locks, Brief, Current, NoJob, Open, Rotating
<1>3. InState("active") = {1} /\ Rows = {1} /\ InState("overlap") = {} /\ InState("sunsetting") = {}
  BY <1>0 DEF Init, InState, Rows, Absent
<1>4. ActiveIsNewest /\ Behind
  BY <1>3 DEF ActiveIsNewest, Behind, Init, NoJob
<1>5. Restorable /\ Deletions
  BY <1>3 DEF Restorable, Deletions, CanCancel, Init
<1>6. DebtsKept
  BY DEF Init, DebtsKept
<1>7. QED
  BY <1>1, <1>2, <1>4, <1>5, <1>6 DEF KeysInv

(* A job moves on and neither the keys nor the tenant change.              *)
LEMMA JobMoves ==
    ASSUME KeysInv, NEW p \in Proc, NEW r \in Job, job' = [job EXCEPT ![p] = r],
           UNCHANGED <<now, key, tenant, owed, crossed>>,
           r.at <= now, r.seen \subseteq Rows,
           r.pc \in Open => now <= r.at + Patience,
           r.pc \in Rotating /\ ~r.overtaken => \A k \in Rows : key[k].activated <= r.at,
           r.old \subseteq InState("overlap"), r.cur \subseteq InState("active"),
           r.pc \notin {"retired", "moving", "moved"} => r.old = {} /\ r.cur = {},
           (r.old \cup r.cur) \cap LockedByOthers(p) = {},
           r.pc = "purging" => ~CanCancel,
           r.pc = "scheduling" => r.seen = Rows \ InState("sunsetting")
    PROVE  KeysInv'
<1> USE DEF KeysInv
<1>1. \A q \in Proc : job'[q] = IF q = p THEN r ELSE job[q]
  BY DEF KeyTypes
<1>2. Rows' = Rows /\ (CanCancel' <=> CanCancel) /\ \A s : InState(s)' = InState(s)
  BY DEF Rows, InState, CanCancel
<1>3. KeyTypes' /\ Brief'
  BY <1>1, <1>2 DEF KeyTypes, Brief
<1>4. \A q \in Proc \ {p} : (r.old \cup r.cur) \cap (job[q].old \cup job[q].cur) = {}
  BY DEF LockedByOthers
<1>5. Locks'
  BY <1>1, <1>2, <1>4 DEF Locks
<1>6. Current' /\ ActiveIsNewest' /\ Restorable' /\ DebtsKept'
  BY <1>1, <1>2 DEF Current, ActiveIsNewest, Restorable, DebtsKept
<1>7. Behind'
  <2>1. InState("overlap") \subseteq Rows \ InState("sunsetting")
    BY DEF Rows, InState
  <2>2. QED
    BY <1>1, <1>2, <2>1 DEF Behind
<1>8. Deletions'
  <2> SUFFICES ASSUME InState("active") = {}, NEW q \in Proc
               PROVE  /\ job'[q].pc = "purging" /\ CanCancel => PurgeSpares(q)'
                      /\ job'[q].pc = "scheduling" => ScheduleSpares(q)'
    BY <1>2 DEF Deletions
  <2>1. CASE q = p
    BY <1>1, <1>2, <2>1 DEF ScheduleSpares
  <2>2. CASE q # p
    <3>1. (PurgeSpares(q) => PurgeSpares(q)') /\ (ScheduleSpares(q) => ScheduleSpares(q)')
      BY <1>1, <1>2, <2>2 DEF PurgeSpares, ScheduleSpares
    <3>2. QED
      BY <1>1, <2>2, <3>1 DEF Deletions
  <2>3. QED
    BY <2>1, <2>2
<1>9. QED
  BY <1>3, <1>5, <1>6, <1>7, <1>8

(* The steps of a job that read the keys, and the ones that give up.       *)
Reads(p) ==
    \/ ListDue(p) \/ Confirm(p) \/ AdminRotateKey(p) \/ StartRotate(p) \/ BeginRotate(p)
    \/ RetireOverlap(p) \/ SeeActive(p) \/ MoveActive(p) \/ InsertFails(p)
    \/ OpenSchedule(p) \/ BeginSchedule(p) \/ OpenCancel(p) \/ ListExpired(p) \/ Abort(p)

(* They keep the invariant.                                                *)
LEMMA ReadingSteps == ASSUME KeysInv, NEW p \in Proc, Reads(p) PROVE KeysInv'
<1> USE DEF KeysInv
<1>0. UNCHANGED <<now, key, tenant, owed, crossed>>
  BY DEF Reads, ListDue, Confirm, AdminRotateKey, StartRotate, BeginRotate, RetireOverlap, SeeActive,
         MoveActive, InsertFails, OpenSchedule, BeginSchedule, OpenCancel, ListExpired, Abort
<1>1. /\ job[p] \in Job /\ DOMAIN job = Proc /\ now \in Nat /\ 0 <= now /\ NoJob \in Job
      /\ job[p].at <= now /\ job[p].seen \subseteq Rows
  BY DEF KeyTypes, Job, NoJob, Places
<1>2. \A s : InState(s) \subseteq Kid /\ (s # "absent" => InState(s) \subseteq Rows)
  BY DEF InState, Rows
<1>3. /\ job[p].old \subseteq InState("overlap") /\ job[p].cur \subseteq InState("active")
      /\ job[p].pc \notin {"retired", "moving", "moved"} => job[p].old = {} /\ job[p].cur = {}
      /\ (job[p].old \cup job[p].cur) \cap LockedByOthers(p) = {}
  BY DEF Locks, LockedByOthers
<1>4. ASSUME NEW r \in Job, r.pc \in {"idle", "due", "sweep"}, r.at <= now, r.seen = {}, r.old = {},
             r.cur = {}, job' = [job EXCEPT ![p] = r]
      PROVE  KeysInv'
  <2>1. r.pc \notin Open \cup Rotating \cup {"purging", "scheduling", "retired", "moving", "moved"}
    BY <1>4 DEF Open, Rotating
  <2>2. r.seen \subseteq Rows
    BY <1>4
  <2>3. QED
    BY <1>0, <1>4, <2>1, <2>2, JobMoves
<1>5. CASE ListDue(p)
  <2>1. PICK pc \in {"due", "sweep"} : job' = [job EXCEPT ![p] = [NoJob EXCEPT !.ticker = TRUE, !.pc = pc]]
    BY <1>5 DEF ListDue
  <2>2. PICK r \in Job : r = [NoJob EXCEPT !.ticker = TRUE, !.pc = pc]
    BY DEF Job, NoJob, Places
  <2>3. r.pc = pc /\ r.at = 0 /\ r.seen = {} /\ r.old = {} /\ r.cur = {}
    BY <2>2 DEF NoJob
  <2>4. QED
    BY <1>1, <1>4, <2>1, <2>2, <2>3
<1>6. CASE Confirm(p) \/ AdminRotateKey(p)
  <2>1. PICK r \in Job : r = [NoJob EXCEPT !.pc = "due"]
    BY DEF Job, NoJob, Places
  <2>2. /\ r.pc = "due" /\ r.at = 0 /\ r.seen = {} /\ r.old = {} /\ r.cur = {}
        /\ job' = [job EXCEPT ![p] = r]
    BY <1>6, <2>1 DEF Confirm, AdminRotateKey, NoJob
  <2>3. QED
    BY <1>1, <1>4, <2>2
<1>7. CASE InsertFails(p) \/ Abort(p) \/ (MoveActive(p) /\ job' = [job EXCEPT ![p] = NoJob])
  <2>1. /\ NoJob.pc = "idle" /\ NoJob.at = 0 /\ NoJob.seen = {} /\ NoJob.old = {} /\ NoJob.cur = {}
        /\ job' = [job EXCEPT ![p] = NoJob]
    BY <1>7 DEF InsertFails, Abort, NoJob
  <2>2. QED
    BY <1>1, <1>4, <2>1
<1>8. CASE StartRotate(p)
  <2>1. PICK r \in Job : r = [job[p] EXCEPT !.pc = "started", !.at = now]
    BY <1>1 DEF Job, Places, Rotating
  <2>2. /\ r.pc = "started" /\ r.at = now /\ r.seen = job[p].seen /\ r.old = {} /\ r.cur = {}
        /\ job' = [job EXCEPT ![p] = r]
    BY <1>1, <1>3, <1>8, <2>1 DEF StartRotate, Job
  <2>3. \A k \in Rows : key[k].activated <= now
    BY DEF KeyTypes
  <2>4. r.pc \notin Open /\ r.at <= now /\ r.seen \subseteq Rows
    BY <1>1, <2>2 DEF Open
  <2>5. QED
    BY <1>0, <2>2, <2>3, <2>4, JobMoves
<1>9. ASSUME NEW r \in Job, r.pc \in {"retiring", "retired", "moving", "moved"}, r.seen \subseteq Rows,
             r.at = job[p].at, r.overtaken = job[p].overtaken, job[p].pc \in Rotating,
             r.old \subseteq InState("overlap"), r.cur \subseteq InState("active"),
             r.pc = "retiring" => r.old = {} /\ r.cur = {},
             (r.old \cup r.cur) \cap LockedByOthers(p) = {}, job' = [job EXCEPT ![p] = r]
      PROVE  KeysInv'
  <2>1. r.pc \notin Open \cup {"purging", "scheduling"} /\ r.at <= now
    BY <1>1, <1>9 DEF Open
  <2>2. ~r.overtaken => \A k \in Rows : key[k].activated <= r.at
    BY <1>9 DEF Current
  <2>3. QED
    BY <1>0, <1>9, <2>1, <2>2, JobMoves
<1>10. CASE BeginRotate(p)
  <2>1. PICK r \in Job : r = [job[p] EXCEPT !.pc = "retiring", !.seen = InState("overlap")]
    BY <1>1, <1>2 DEF Job, Places, Rotating
  <2>2. /\ r.pc = "retiring" /\ r.old = {} /\ r.cur = {} /\ job' = [job EXCEPT ![p] = r]
        /\ r.seen \subseteq Rows /\ r.at = job[p].at /\ r.overtaken = job[p].overtaken
    BY <1>1, <1>2, <1>3, <1>10, <2>1 DEF BeginRotate, Job
  <2>3. job[p].pc \in Rotating
    BY <1>10 DEF BeginRotate, Rotating
  <2>4. QED
    BY <1>9, <2>2, <2>3
<1>11. CASE RetireOverlap(p)
  <2>1. PICK r \in Job : r = [job[p] EXCEPT !.pc = "retired", !.seen = {},
                                            !.old = job[p].seen \cap InState("overlap")]
    BY <1>1, <1>2 DEF Job, Places, Rotating
  <2>2. /\ r.pc = "retired" /\ r.old = job[p].seen \cap InState("overlap") /\ r.cur = {} /\ r.seen = {}
        /\ job' = [job EXCEPT ![p] = r] /\ r.at = job[p].at /\ r.overtaken = job[p].overtaken
    BY <1>1, <1>3, <1>11, <2>1 DEF RetireOverlap, Job
  <2>3. /\ r.old \subseteq InState("overlap") /\ (r.old \cup r.cur) \cap LockedByOthers(p) = {}
        /\ job[p].pc \in Rotating
    BY <1>11, <2>2 DEF RetireOverlap, Rotating
  <2>4. QED
    BY <1>9, <2>2, <2>3
<1>12. CASE SeeActive(p)
  <2>1. PICK r \in Job : r = [job[p] EXCEPT !.pc = "moving", !.seen = InState("active")]
    BY <1>1, <1>2 DEF Job, Places, Rotating
  <2>2. /\ r.pc = "moving" /\ r.old = job[p].old /\ r.cur = job[p].cur /\ job' = [job EXCEPT ![p] = r]
        /\ r.seen \subseteq Rows /\ r.at = job[p].at /\ r.overtaken = job[p].overtaken
    BY <1>1, <1>2, <1>12, <2>1 DEF SeeActive, Job
  <2>3. /\ r.old \subseteq InState("overlap") /\ r.cur \subseteq InState("active")
        /\ (r.old \cup r.cur) \cap LockedByOthers(p) = {} /\ job[p].pc \in Rotating
    BY <1>3, <1>12, <2>2 DEF SeeActive, Rotating
  <2>4. QED
    BY <1>9, <2>2, <2>3
<1>13. CASE MoveActive(p) /\ job' # [job EXCEPT ![p] = NoJob]
  <2>1. PICK r \in Job : r = [job[p] EXCEPT !.pc = "moved", !.seen = {},
                                            !.cur = job[p].seen \cap InState("active")]
    BY <1>1, <1>2 DEF Job, Places, Rotating
  <2>2. /\ r.pc = "moved" /\ r.old = job[p].old /\ r.cur = job[p].seen \cap InState("active")
        /\ r.seen = {} /\ r.at = job[p].at /\ r.overtaken = job[p].overtaken
        /\ job' = [job EXCEPT ![p] = r]
    BY <1>1, <1>13, <2>1 DEF MoveActive, Job
  <2>3. /\ r.old \subseteq InState("overlap") /\ r.cur \subseteq InState("active")
        /\ (r.old \cup r.cur) \cap LockedByOthers(p) = {} /\ job[p].pc \in Rotating
    BY <1>3, <1>13, <2>2 DEF MoveActive, Rotating
  <2>4. QED
    BY <1>9, <2>2, <2>3
<1>14. CASE OpenSchedule(p) \/ OpenCancel(p)
  <2>1. PICK pc \in {"opened", "cancelling"} : job' = [job EXCEPT ![p] = [NoJob EXCEPT !.pc = pc, !.at = now]]
    BY <1>14 DEF OpenSchedule, OpenCancel
  <2>2. PICK r \in Job : r = [NoJob EXCEPT !.pc = pc, !.at = now]
    BY <1>1 DEF Job, Places, NoJob, Open
  <2>3. r.pc = pc /\ r.at = now /\ r.seen = {} /\ r.old = {} /\ r.cur = {}
    BY <2>2 DEF NoJob
  <2>4. r.pc \notin Rotating /\ r.at <= now /\ now <= r.at + Patience /\ r.seen \subseteq Rows
    BY <1>1, <2>1, <2>3, KeyTimesAssumption DEF Rotating
  <2>5. QED
    BY <1>0, <2>1, <2>2, <2>3, <2>4, JobMoves
<1>15. CASE BeginSchedule(p)
  <2>1. PICK r \in Job : r = [job[p] EXCEPT !.pc = "scheduling", !.seen = Rows \ InState("sunsetting")]
    BY <1>1 DEF Job, Places, Open, Rows
  <2>2. /\ r.pc = "scheduling" /\ r.old = {} /\ r.cur = {} /\ r.seen = Rows \ InState("sunsetting")
        /\ job' = [job EXCEPT ![p] = r] /\ r.at = job[p].at
    BY <1>1, <1>3, <1>15, <2>1 DEF BeginSchedule, Job
  <2>3. now <= r.at + Patience /\ r.pc \notin Rotating
    BY <1>15, <2>2 DEF Brief, BeginSchedule, Open, Rotating
  <2>4. r.at <= now /\ r.seen \subseteq Rows
    BY <1>1, <2>2
  <2>5. QED
    BY <1>0, <2>2, <2>3, <2>4, JobMoves
<1>16. CASE ListExpired(p)
  <2>1. PICK cutoff \in tenant.hardAfter..now :
            job' = [job EXCEPT ![p] = [NoJob EXCEPT !.pc = "purging", !.at = cutoff]]
    BY <1>16 DEF ListExpired
  <2>2. cutoff \in Nat /\ tenant.hardAfter <= cutoff /\ cutoff <= now
    BY <1>1, <2>1 DEF KeyTypes
  <2>3. PICK r \in Job : r = [NoJob EXCEPT !.pc = "purging", !.at = cutoff]
    BY <2>2 DEF Job, Places, NoJob
  <2>4. r.pc = "purging" /\ r.old = {} /\ r.cur = {} /\ r.seen = {} /\ r.at = cutoff
    BY <2>3 DEF NoJob
  <2>5. ~CanCancel
    <3>1. /\ tenant.cancelUntil + Patience <= tenant.hardAfter
          /\ {tenant.cancelUntil, tenant.hardAfter, Patience} \subseteq Nat
      BY <1>16, KeyTimesAssumption DEF ListExpired, Restorable, KeyTypes
    <3>2. QED
      BY <1>1, <2>2, <3>1 DEF CanCancel
  <2>6. r.pc \notin Rotating \cup Open /\ r.at <= now /\ r.seen \subseteq Rows
    BY <2>2, <2>4 DEF Rotating, Open
  <2>7. QED
    BY <1>0, <2>1, <2>3, <2>4, <2>5, <2>6, JobMoves
<1>17. QED
  BY <1>5, <1>6, <1>7, <1>8, <1>10, <1>11, <1>12, <1>13, <1>14, <1>15, <1>16 DEF Reads

(* A job that has ended holds and has seen nothing.                        *)
LEMMA IdleJob ==
    /\ NoJob \in Job /\ NoJob.pc = "idle" /\ NoJob.at = 0 /\ NoJob.seen = {}
    /\ NoJob.old = {} /\ NoJob.cur = {}
  BY DEF NoJob, Job, Places

(* Locks is kept when a job ends and the rows the others hold stay as they *)
(* are.                                                                    *)
LEMMA LocksKept ==
    ASSUME KeysInv, NEW p \in Proc, job'[p].old = {}, job'[p].cur = {},
           \A q \in Proc \ {p} : /\ job'[q].pc = job[q].pc
                                 /\ job'[q].old = job[q].old /\ job'[q].cur = job[q].cur,
           \A k \in LockedByOthers(p) : key'[k] = key[k]
    PROVE  Locks'
<1> USE DEF KeysInv
<1>1. ASSUME NEW q \in Proc \ {p}
      PROVE  job[q].old \subseteq InState("overlap")' /\ job[q].cur \subseteq InState("active")'
  BY <1>1 DEF LockedByOthers, Locks, InState
<1>2. QED
  BY <1>1 DEF Locks

(* A rotation commits: the new key is the only active one, and the newest  *)
(* unless the rotation was overtaken.                                      *)
LEMMA InsertKeeps == ASSUME KeysInv, NEW p \in Proc, InsertActive(p) PROVE KeysInv'
<1> USE DEF KeysInv
<1>1. PICK n : n = NextSequence
  OBVIOUS
<1>2. /\ n \in Kid /\ n \notin Rows /\ tenant.exists /\ InState("active") \subseteq job[p].cur
      /\ UNCHANGED <<now, tenant, owed>> /\ crossed' = job[p].overtaken /\ job[p].pc = "moved"
      /\ job[p].old \subseteq InState("overlap") /\ job[p].cur \subseteq InState("active")
  BY <1>1 DEF InsertActive, CanInsert, Locks
<1>3. \A k \in Kid : key'[k] = Rotated(p, k)
  BY DEF InsertActive
<1>4. \A k \in job[p].old : k \in Kid /\ key[k].state = "overlap"
  BY <1>2 DEF InState
<1>5. \A k \in job[p].cur : k \in Kid /\ key[k].state = "active"
  BY <1>2 DEF InState
<1>6. key[n].state = "absent"
  BY <1>2 DEF Rows
<1> DEFINE at == job[p].at
<1>7. \A k \in job[p].old : key'[k] = [key[k] EXCEPT !.state = "retired"]
  BY <1>1, <1>3, <1>4, <1>5, <1>6 DEF Rotated
<1>8. \A k \in job[p].cur : key'[k] = [key[k] EXCEPT !.state = "overlap", !.until = at + Overlap]
  BY <1>1, <1>3, <1>4, <1>5, <1>6 DEF Rotated
<1>9. key'[n] = [state |-> "active", activated |-> at, until |-> at + Interval]
  BY <1>1, <1>2, <1>3, <1>4, <1>5, <1>6 DEF Rotated
<1>10. \A k \in Kid : k \notin job[p].old \cup job[p].cur \cup {n} => key'[k] = key[k]
  BY <1>1, <1>3 DEF Rotated
<1>11. at + Overlap \in Nat /\ at + Interval \in Nat /\ at \in Nat /\ at <= now /\ now \in Nat
  <2>1. at \in Nat
    BY DEF KeyTypes, Job
  <2>2. QED
    BY <2>1, KeyTimesAssumption DEF KeyTypes
<1>12. \A k \in Kid : key[k] \in KeyRow
  BY DEF KeyTypes
<1> HIDE DEF at
<1>13. ASSUME NEW k \in Kid
       PROVE  /\ key'[k] \in KeyRow
              /\ key'[k].state = IF k \in job[p].old THEN "retired"
                                 ELSE IF k \in job[p].cur THEN "overlap"
                                 ELSE IF k = n THEN "active" ELSE key[k].state
              /\ key'[k].activated = IF k = n THEN at ELSE key[k].activated
              /\ key[k].state = "sunsetting" => key'[k] = key[k]
  <2>1. CASE k \in job[p].old
    <3>1. k # n /\ key[k].state = "overlap"
      BY <2>1, <1>4, <1>6
    <3>2. QED
      BY <2>1, <3>1, <1>7, <1>12 DEF KeyRow, States
  <2>2. CASE k \in job[p].cur
    <3>1. k # n /\ key[k].state = "active" /\ k \notin job[p].old
      BY <2>2, <1>4, <1>5, <1>6
    <3>2. QED
      BY <2>2, <3>1, <1>8, <1>11, <1>12 DEF KeyRow, States
  <2>3. CASE k = n
    <3>1. k \notin job[p].old /\ k \notin job[p].cur
      BY <2>3, <1>4, <1>5, <1>6
    <3>2. QED
      BY <2>3, <3>1, <1>6, <1>9, <1>11 DEF KeyRow, States
  <2>4. CASE k \notin job[p].old \cup job[p].cur \cup {n}
    BY <2>4, <1>10, <1>12
  <2>5. QED
    BY <2>1, <2>2, <2>3, <2>4
<1>14. /\ InState("active")' = {n} /\ Rows' = Rows \cup {n}
       /\ InState("sunsetting")' = InState("sunsetting") /\ InState("overlap")' \subseteq Rows
  BY <1>2, <1>4, <1>5, <1>6, <1>13 DEF InState, Rows
<1>15. /\ \A q \in Proc \ {p} : job'[q] = [job[q] EXCEPT !.overtaken = @ \/ Overtakes(p, q)]
       /\ job'[p] \in {NoJob, [NoJob EXCEPT !.pc = "sweep"]} /\ DOMAIN job' = Proc
  BY DEF InsertActive
<1>16. /\ job'[p] \in Job /\ job'[p].old = {} /\ job'[p].cur = {} /\ job'[p].seen = {} /\ job'[p].at = 0
       /\ job'[p].pc \in {"idle", "sweep"}
  <2>1. CASE job'[p] = NoJob
    BY <2>1, IdleJob
  <2>2. CASE job'[p] = [NoJob EXCEPT !.pc = "sweep"]
    <3>1. PICK r \in Job : r = [NoJob EXCEPT !.pc = "sweep"]
      BY DEF NoJob, Job, Places
    <3>2. r.pc = "sweep" /\ r.at = 0 /\ r.seen = {} /\ r.old = {} /\ r.cur = {}
      BY <3>1 DEF NoJob
    <3>3. QED
      BY <2>2, <3>1, <3>2
  <2>3. QED
    BY <1>15, <2>1, <2>2
<1>17. ASSUME NEW q \in Proc \ {p}
       PROVE  /\ job'[q] \in Job /\ job'[q].pc = job[q].pc /\ job'[q].at = job[q].at
              /\ job'[q].seen = job[q].seen /\ job'[q].old = job[q].old /\ job'[q].cur = job[q].cur
              /\ job'[q].overtaken <=> job[q].overtaken \/ Overtakes(p, q)
  <2>1. job[q] \in Job /\ (job[q].overtaken \/ Overtakes(p, q)) \in BOOLEAN
    BY DEF KeyTypes, Job
  <2>2. QED
    BY <1>15, <2>1 DEF Job
<1>18. KeyTypes'
  <2>1. key' \in [Kid -> KeyRow]
    BY <1>13 DEF InsertActive
  <2>2. job' \in [Proc -> Job]
    <3>1. job' = [q \in Proc |-> job'[q]] /\ \A q \in Proc : job'[q] \in Job
      BY <1>16, <1>17 DEF InsertActive
    <3>2. QED
      BY <3>1
  <2>3. \A k \in Rows' : key'[k].activated <= now'
    BY <1>2, <1>11, <1>13, <1>14 DEF KeyTypes, Rows
  <2>4. \A q \in Proc : job'[q].at <= now' /\ job'[q].seen \subseteq Rows'
    BY <1>2, <1>11, <1>14, <1>16, <1>17 DEF KeyTypes
  <2>5. crossed' \in BOOLEAN
    BY <1>2 DEF KeyTypes, Job
  <2>6. QED
    BY <1>2, <2>1, <2>2, <2>3, <2>4, <2>5 DEF KeyTypes
<1>19. Brief'
  BY <1>2, <1>16, <1>17 DEF Brief, Open
<1>20. \A k \in LockedByOthers(p) : key'[k] = key[k]
  <2> SUFFICES ASSUME NEW q \in Proc \ {p}, NEW k \in job[q].old \cup job[q].cur PROVE key'[k] = key[k]
    BY DEF LockedByOthers
  <2>1. k \notin job[p].old \cup job[p].cur
    BY DEF Locks
  <2>2. k \in Kid /\ k # n
    BY <1>6 DEF Locks, InState
  <2>3. QED
    BY <1>10, <2>1, <2>2
<1>21. Locks'
  BY <1>16, <1>17, <1>20, LocksKept
<1>22. Current'
  <2> SUFFICES ASSUME NEW q \in Proc, job'[q].pc \in Rotating, ~job'[q].overtaken, NEW k \in Rows'
               PROVE  key'[k].activated <= job'[q].at
    BY DEF Current
  <2>1. q # p
    BY <1>16 DEF Rotating
  <2>2. job[q].pc \in Rotating /\ ~job[q].overtaken /\ ~(job[q].at < at) /\ job[q].at \in Nat
    BY <1>17, <2>1 DEF Overtakes, KeyTypes, Job, at
  <2>3. CASE k = n
    BY <1>2, <1>11, <1>13, <1>17, <2>1, <2>2, <2>3
  <2>4. CASE k # n
    BY <1>13, <1>14, <1>17, <2>1, <2>2, <2>4 DEF Current, Rows
  <2>5. QED
    BY <2>3, <2>4
<1>23. ActiveIsNewest'
  <2> SUFFICES ASSUME ~job[p].overtaken, NEW k \in InState("overlap")'
               PROVE  key'[k].activated <= key'[n].activated
    BY <1>2, <1>14 DEF ActiveIsNewest
  <2>1. k \in Rows /\ k # n
    BY <1>2, <1>14
  <2>2. key[k].activated <= at
    BY <1>2, <2>1 DEF Current, Rotating, at
  <2>3. QED
    BY <1>2, <1>13, <2>1, <2>2 DEF Rows
<1>24. Behind'
  <2>1. \A q \in Proc : job'[q].pc = "scheduling" => q # p /\ n \notin job'[q].seen
    BY <1>2, <1>16, <1>17 DEF KeyTypes
  <2>2. QED
    BY <1>14, <2>1 DEF Behind
<1>25. Restorable' /\ Deletions'
  BY <1>2, <1>14 DEF Restorable, Deletions, CanCancel
<1>26. DebtsKept'
  BY <1>2, <1>13 DEF DebtsKept
<1>27. QED
  BY <1>18, <1>19, <1>21, <1>22, <1>23, <1>24, <1>25, <1>26

(* The sweep changes overlap rows that no rotation holds.                  *)
LEMMA SweepKeeps == ASSUME KeysInv, NEW p \in Proc, SweepOverlap(p) PROVE KeysInv'
<1> USE DEF KeysInv
<1>1. PICK past \in SUBSET InState("overlap") :
          /\ past \cap LockedByOthers(p) = {}
          /\ key' = [k \in Kid |-> IF k \in past THEN [key[k] EXCEPT !.state = "retired"] ELSE key[k]]
  BY DEF SweepOverlap
<1>2. UNCHANGED <<now, tenant, owed, crossed>> /\ job' = [job EXCEPT ![p] = NoJob]
  BY DEF SweepOverlap
<1>3. \A q \in Proc : job'[q] = IF q = p THEN NoJob ELSE job[q]
  BY <1>2 DEF KeyTypes
<1>4. \A k \in Kid : key[k] \in KeyRow
  BY DEF KeyTypes
<1>5. \A k \in Kid : /\ key'[k] \in KeyRow /\ key'[k].activated = key[k].activated
                     /\ key'[k].state = IF k \in past THEN "retired" ELSE key[k].state
                     /\ key'[k].until = key[k].until
  BY <1>1, <1>4 DEF KeyRow, States
<1>6. \A k \in past : k \in Kid /\ key[k].state = "overlap"
  BY DEF InState
<1>7. /\ InState("active")' = InState("active") /\ InState("sunsetting")' = InState("sunsetting")
      /\ Rows' = Rows /\ InState("overlap")' \subseteq InState("overlap")
  BY <1>5, <1>6 DEF InState, Rows
<1>8. KeyTypes'
  <2>1. key' \in [Kid -> KeyRow] /\ job' \in [Proc -> Job]
    BY <1>1, <1>2, <1>5, IdleJob DEF KeyTypes
  <2>2. \A k \in Rows' : key'[k].activated <= now'
    BY <1>2, <1>5, <1>7 DEF KeyTypes, Rows
  <2>3. \A q \in Proc : job'[q].at <= now' /\ job'[q].seen \subseteq Rows'
    BY <1>2, <1>3, <1>7, IdleJob DEF KeyTypes
  <2>4. QED
    BY <1>2, <2>1, <2>2, <2>3 DEF KeyTypes
<1>9. \A k \in LockedByOthers(p) : key'[k] = key[k]
  <2>1. LockedByOthers(p) \subseteq Kid
    BY DEF LockedByOthers, Locks, InState
  <2>2. QED
    BY <1>1, <2>1
<1>10. Locks'
  BY <1>3, <1>9, IdleJob, LocksKept
<1>11. Brief'
  BY <1>2, <1>3, IdleJob DEF Brief, Open
<1>12. Current'
  BY <1>3, <1>5, <1>7, IdleJob DEF Current, Rotating, Rows
<1>13. ActiveIsNewest'
  BY <1>2, <1>5, <1>7 DEF ActiveIsNewest, InState
<1>14. Behind'
  BY <1>3, <1>7, IdleJob DEF Behind
<1>15. Restorable' /\ DebtsKept'
  BY <1>2, <1>5, <1>6, <1>7 DEF Restorable, DebtsKept, CanCancel
<1>16. Deletions'
  <2> SUFFICES ASSUME InState("active") = {}, NEW q \in Proc
               PROVE  /\ job'[q].pc = "purging" /\ CanCancel' => PurgeSpares(q)'
                      /\ job'[q].pc = "scheduling" => ScheduleSpares(q)'
    BY <1>7 DEF Deletions
  <2>1. CanCancel' <=> CanCancel
    BY <1>2 DEF CanCancel
  <2>2. CASE q = p
    BY <1>3, <2>2, IdleJob
  <2>3. CASE q # p
    <3>1. (PurgeSpares(q) => PurgeSpares(q)') /\ (ScheduleSpares(q) => ScheduleSpares(q)')
      BY <1>3, <1>5, <1>7, <2>3 DEF PurgeSpares, ScheduleSpares, InState
    <3>2. QED
      BY <1>3, <2>1, <2>3, <3>1 DEF Deletions
  <2>4. QED
    BY <2>2, <2>3
<1>17. QED
  BY <1>8, <1>10, <1>11, <1>12, <1>13, <1>14, <1>15, <1>16

(* A deletion is scheduled.  If it takes a key, the sunset of that key     *)
(* lies ahead for as long as the deletion can be cancelled; else another   *)
(* deletion has taken the active key since it looked.                      *)
LEMMA ScheduleKeeps == ASSUME KeysInv, NEW p \in Proc, CommitSchedule(p) PROVE KeysInv'
<1> USE DEF KeysInv
<1>1. PICK hit : hit = job[p].seen \cap (Rows \ InState("sunsetting"))
  OBVIOUS
<1>2. PICK at, end : at = job[p].at /\ end = at + Sunset
  OBVIOUS
<1>3. /\ {at, end, now, Patience, Sunset, Cancellable, HardDelete} \subseteq Nat /\ Cancellable > 0
      /\ at <= now /\ now <= at + Patience
      /\ Cancellable + 2 * Patience <= Sunset /\ Cancellable + Patience <= HardDelete
  <2>1. job[p].pc \in Open
    BY DEF CommitSchedule, Open
  <2>2. at \in Nat /\ at <= now /\ now <= at + Patience /\ now \in Nat
    BY <1>2, <2>1 DEF KeyTypes, Brief, Job
  <2>3. QED
    BY <1>2, <2>2, KeyTimesAssumption
<1>4. /\ job[p].pc = "scheduling" /\ job[p].seen \cap LockedByOthers(p) = {}
      /\ key' = [k \in Kid |-> IF k \in hit THEN [key[k] EXCEPT !.state = "sunsetting", !.until = end]
                               ELSE key[k]]
      /\ job' = [job EXCEPT ![p] = NoJob]
      /\ owed' = [k \in Kid |-> IF k \in hit /\ key[k].state \in {"active", "overlap"}
                                THEN end ELSE owed[k]]
      /\ now' = now /\ crossed' = crossed
  BY <1>1, <1>2 DEF CommitSchedule
<1>5. \A q \in Proc : job'[q] = IF q = p THEN NoJob ELSE job[q]
  BY <1>4 DEF KeyTypes
<1>6. \A k \in Kid : key[k] \in KeyRow
  BY DEF KeyTypes
<1>7. \A k \in Kid : /\ key'[k] \in KeyRow /\ key'[k].activated = key[k].activated
                     /\ key'[k].state = IF k \in hit THEN "sunsetting" ELSE key[k].state
                     /\ key'[k].until = IF k \in hit THEN end ELSE key[k].until
  BY <1>3, <1>4, <1>6 DEF KeyRow, States
<1>8. \A k \in hit : k \in Kid /\ key[k].state \notin {"absent", "sunsetting"}
  BY <1>1 DEF Rows, InState
<1>9. /\ Rows' = Rows /\ InState("active")' = InState("active") \ hit
      /\ InState("sunsetting")' = InState("sunsetting") \cup hit
      /\ InState("overlap")' = InState("overlap") \ hit
  BY <1>7, <1>8 DEF Rows, InState
<1>10. /\ InState("active") \cap job[p].seen \subseteq hit
       /\ InState("overlap") \cap job[p].seen \subseteq hit
       /\ hit \subseteq job[p].seen
  BY <1>1 DEF Rows, InState
<1>11. /\ tenant'.exists = tenant.exists /\ tenant'.exists \in BOOLEAN
       /\ tenant' \in [exists : BOOLEAN, scheduled : BOOLEAN, cancelUntil : Nat, hardAfter : Nat]
       /\ tenant.exists => tenant'.scheduled /\ tenant'.cancelUntil = at + Cancellable
       /\ ~tenant.exists => tenant' = tenant
       /\ tenant'.scheduled => tenant'.cancelUntil + Patience <= tenant'.hardAfter
  <2>1. CASE tenant.exists
    <3>1. PICK c, h \in Nat : c = at + Cancellable /\ h = at + HardDelete
      BY <1>3
    <3>2. c + Patience <= h
      BY <1>3, <3>1
    <3>3. tenant' = [exists |-> TRUE, scheduled |-> TRUE, cancelUntil |-> c, hardAfter |-> h]
      BY <1>2, <2>1, <3>1 DEF CommitSchedule
    <3>4. QED
      BY <2>1, <3>1, <3>2, <3>3
  <2>2. CASE ~tenant.exists
    BY <2>2 DEF CommitSchedule, KeyTypes, Restorable
  <2>3. QED
    BY <2>1, <2>2
<1>12. KeyTypes'
  <2>1. key' \in [Kid -> KeyRow] /\ owed' \in [Kid -> Nat] /\ job' \in [Proc -> Job]
    BY <1>3, <1>4, <1>7, IdleJob DEF KeyTypes
  <2>2. \A k \in Rows' : key'[k].activated <= now'
    <3>1. \A k \in Rows : k \in Kid /\ key[k].activated <= now
      BY DEF KeyTypes, Rows
    <3>2. QED
      BY <1>4, <1>7, <1>9, <3>1
  <2>3. \A q \in Proc : job'[q].at <= now' /\ job'[q].seen \subseteq Rows'
    <3>1. \A q \in Proc : job[q].at <= now /\ job[q].seen \subseteq Rows
      BY DEF KeyTypes
    <3>2. now' = now /\ Rows' = Rows
      BY <1>4, <1>9
    <3>3. now \in Nat
      BY <1>3
    <3>4. QED
      BY <1>5, <3>1, <3>2, <3>3, IdleJob
  <2>4. QED
    BY <1>4, <1>11, <2>1, <2>2, <2>3 DEF KeyTypes
<1>13. \A k \in LockedByOthers(p) : key'[k] = key[k]
  <2>1. LockedByOthers(p) \subseteq Kid
    BY DEF LockedByOthers, Locks, InState
  <2>2. QED
    BY <1>1, <1>4, <2>1
<1>14. Locks'
  BY <1>5, <1>13, IdleJob, LocksKept
<1>15. Brief' /\ Current'
  BY <1>4, <1>5, <1>7, <1>9, IdleJob DEF Brief, Current, Open, Rotating, Rows
<1>16. ActiveIsNewest'
  BY <1>4, <1>7, <1>9 DEF ActiveIsNewest, InState
<1>17. Behind'
  <2>1. InState("overlap")' # {} => InState("active")' = InState("active") /\ InState("active") # {}
    BY <1>4, <1>9, <1>10 DEF Behind
  <2>2. ASSUME NEW q \in Proc, job'[q].pc = "scheduling", ~(InState("overlap")' \subseteq job'[q].seen)
        PROVE  InState("active")' # {} /\ InState("active")' \cap job'[q].seen = {}
    <3>1. q # p /\ job'[q] = job[q]
      BY <1>5, <2>2, IdleJob
    <3>2. ~(InState("overlap") \subseteq job[q].seen) /\ InState("overlap")' # {}
      BY <1>9, <2>2, <3>1
    <3>3. QED
      BY <2>1, <2>2, <3>1, <3>2 DEF Behind
  <2>3. QED
    BY <2>1, <2>2 DEF Behind
<1>18. ASSUME InState("active")' = {}, CanCancel'
       PROVE  \/ Rows' \subseteq InState("sunsetting")'
              \/ \E k \in InState("sunsetting")' : key'[k].until > now
  <2>1. now < at + Cancellable + Patience
    BY <1>4, <1>11, <1>18 DEF CanCancel
  <2>2. CASE hit # {}
    <3>1. PICK k \in hit : TRUE
      BY <2>2
    <3>2. k \in InState("sunsetting")' /\ key'[k].until = end
      BY <1>7, <1>8, <1>9
    <3>3. end > now
      BY <1>2, <1>3, <2>1
    <3>4. QED
      BY <3>2, <3>3
  <2>3. CASE hit = {}
    <3>1. InState("active") = {} /\ InState("sunsetting")' = InState("sunsetting")
      BY <1>9, <1>18, <2>3
    <3>2. ScheduleSpares(p)
      BY <1>4, <3>1 DEF Deletions
    <3>3. CASE Rows \ InState("sunsetting") \subseteq job[p].seen
      BY <1>1, <1>9, <2>3, <3>1, <3>3
    <3>4. ASSUME NEW k \in InState("sunsetting"), key[k].until + Patience >= at + Sunset
          PROVE  key'[k].until > now
      <4>1. k \in Kid /\ key'[k].until = key[k].until /\ key[k].until \in Nat
        BY <1>6, <1>7, <2>3 DEF InState, KeyRow
      <4>2. QED
        BY <1>3, <2>1, <3>4, <4>1
    <3>5. QED
      BY <1>2, <3>1, <3>2, <3>3, <3>4 DEF ScheduleSpares
  <2>4. QED
    BY <2>2, <2>3
<1>19. Deletions'
  <2> SUFFICES ASSUME InState("active")' = {}, NEW q \in Proc \ {p}
               PROVE  /\ job[q].pc = "purging" /\ CanCancel' => PurgeSpares(q)'
                      /\ job[q].pc = "scheduling" => ScheduleSpares(q)'
    BY <1>5, IdleJob DEF Deletions
  <2>0. job'[q] = job[q] /\ job[q].at \in Nat /\ job[q].at <= now
    BY <1>5 DEF KeyTypes, Job
  <2>1. ASSUME job[q].pc = "purging", CanCancel' PROVE PurgeSpares(q)'
    <3>1. \A k \in InState("sunsetting")' : key'[k].until > now => key'[k].until > job'[q].at
      BY <1>3, <1>7, <2>0 DEF InState, KeyRow
    <3>2. QED
      BY <1>18, <2>1, <3>1 DEF PurgeSpares
  <2>2. ASSUME job[q].pc = "scheduling" PROVE ScheduleSpares(q)'
    <3>1. CASE hit # {}
      <4>1. PICK k \in hit : TRUE
        BY <3>1
      <4>2. k \in InState("sunsetting")' /\ key'[k].until = end
        BY <1>7, <1>8, <1>9
      <4>3. end + Patience >= job[q].at + Sunset
        BY <1>2, <1>3, <2>0
      <4>4. QED
        BY <2>0, <4>2, <4>3 DEF ScheduleSpares
    <3>2. CASE hit = {}
      <4>1. /\ InState("active") = {} /\ InState("sunsetting")' = InState("sunsetting")
            /\ \A k \in InState("sunsetting") : key'[k].until = key[k].until
        BY <1>7, <1>9, <3>2 DEF InState
      <4>2. ScheduleSpares(q)
        BY <2>2, <4>1 DEF Deletions
      <4>3. QED
        BY <1>9, <2>0, <4>1, <4>2 DEF ScheduleSpares
    <3>3. QED
      BY <3>1, <3>2
  <2>3. QED
    BY <2>1, <2>2
<1>20. Restorable'
  <2>1. CanCancel' /\ InState("active")' = {} => InState("sunsetting")' # {}
    <3> SUFFICES ASSUME CanCancel', InState("active")' = {} PROVE InState("sunsetting")' # {}
      OBVIOUS
    <3>1. Rows # {}
      BY <1>11 DEF CanCancel, Restorable
    <3>2. QED
      BY <1>9, <1>18, <3>1
  <2>2. QED
    BY <1>9, <1>11, <2>1 DEF Restorable
<1>21. DebtsKept'
  <2> SUFFICES ASSUME NEW k \in Kid, now' < owed'[k]
               PROVE  key'[k].state = "sunsetting" /\ key'[k].until = owed'[k]
    BY DEF DebtsKept
  <2>1. CASE k \in hit
    BY <2>1, <1>4, <1>7, <1>8 DEF DebtsKept
  <2>2. CASE k \notin hit
    BY <2>2, <1>4, <1>7 DEF DebtsKept
  <2>3. QED
    BY <2>1, <2>2
<1>22. QED
  BY <1>12, <1>14, <1>15, <1>16, <1>17, <1>19, <1>20, <1>21

(* A cancellation restores a sunsetting key when no other is published.    *)
LEMMA CancelKeeps == ASSUME KeysInv, NEW p \in Proc, CancelDeletion(p) PROVE KeysInv'
<1> USE DEF KeysInv
<1>1. /\ now' = now /\ owed' = [k \in Kid |-> 0] /\ job' = [job EXCEPT ![p] = NoJob]
      /\ InState("sunsetting") # {} => InState("active") = {}
      /\ tenant' = [tenant EXCEPT !.scheduled = FALSE, !.cancelUntil = 0, !.hardAfter = 0]
      /\ tenant.exists /\ tenant.scheduled /\ tenant.cancelUntil > job[p].at
      /\ job[p].pc = "cancelling"
  BY DEF CancelDeletion
<1>2. CanCancel
  <2>1. /\ now <= job[p].at + Patience /\ tenant.cancelUntil > job[p].at
        /\ {now, job[p].at, tenant.cancelUntil, Patience} \subseteq Nat
    BY <1>1, KeyTimesAssumption DEF Brief, Open, KeyTypes, Job
  <2>2. QED
    BY <1>1, <2>1 DEF CanCancel
<1>3. /\ tenant' \in [exists : BOOLEAN, scheduled : BOOLEAN, cancelUntil : Nat, hardAfter : Nat]
      /\ ~tenant'.scheduled /\ Rows # {}
  BY <1>1 DEF KeyTypes, Restorable
<1>4. \A q \in Proc : job'[q] = IF q = p THEN NoJob ELSE job[q]
  BY <1>1 DEF KeyTypes
<1>5. DebtsKept' /\ Brief'
  BY <1>1, <1>4, IdleJob DEF DebtsKept, KeyTypes, Brief, Open
<1>6. CASE InState("sunsetting") = {} /\ UNCHANGED <<key, crossed>>
  <2>1. InState("active") # {}
    BY <1>2, <1>6 DEF Restorable
  <2>2. Rows' = Rows /\ \A s : InState(s)' = InState(s)
    BY <1>6 DEF Rows, InState
  <2>3. KeyTypes'
    <3>1. job' \in [Proc -> Job] /\ owed' \in [Kid -> Nat]
      BY <1>1, IdleJob DEF KeyTypes
    <3>2. \A q \in Proc : job'[q].at <= now' /\ job'[q].seen \subseteq Rows'
      BY <1>1, <1>4, <2>2, IdleJob DEF KeyTypes
    <3>3. QED
      BY <1>1, <1>3, <1>6, <2>2, <3>1, <3>2 DEF KeyTypes
  <2>4. Locks'
    BY <1>4, <1>6, IdleJob, LocksKept
  <2>5. Current' /\ ActiveIsNewest' /\ Behind'
    BY <1>4, <1>6, <2>2, IdleJob DEF Current, ActiveIsNewest, Behind, Rotating
  <2>6. Restorable' /\ Deletions'
    BY <1>3, <1>6, <2>1, <2>2 DEF Restorable, Deletions, CanCancel
  <2>7. QED
    BY <1>5, <2>3, <2>4, <2>5, <2>6
<1>7. ASSUME NEW new \in Newest(InState("sunsetting")), key' = [k \in Kid |-> Restored(k, new)],
             crossed' = FALSE
      PROVE  KeysInv'
  <2>1. /\ new \in Kid /\ key[new].state = "sunsetting"
        /\ InState("active") = {} /\ InState("overlap") = {}
    BY <1>1, <1>7 DEF Newest, InState, Behind
  <2>2. \A k \in Kid : key[k] \in KeyRow
    BY DEF KeyTypes
  <2>3. \A k \in Kid : /\ key'[k] \in KeyRow /\ key'[k].activated = key[k].activated
                       /\ key'[k].state = IF k = new THEN "active"
                                          ELSE IF key[k].state = "sunsetting" THEN "retired"
                                          ELSE key[k].state
    <3> SUFFICES ASSUME NEW k \in Kid
                 PROVE  /\ key'[k] \in KeyRow /\ key'[k].activated = key[k].activated
                        /\ key'[k].state = IF k = new THEN "active"
                                           ELSE IF key[k].state = "sunsetting" THEN "retired"
                                           ELSE key[k].state
      OBVIOUS
    <3>1. key'[k] = Restored(k, new)
      BY <1>7
    <3>2. CASE k = new
      BY <3>1, <3>2, <2>2 DEF Restored, KeyRow, States
    <3>3. CASE k # new /\ key[k].state = "sunsetting"
      BY <3>1, <3>3, <2>2 DEF Restored, KeyRow, States, InState
    <3>4. CASE k # new /\ key[k].state # "sunsetting"
      BY <3>1, <3>4, <2>2 DEF Restored, InState
    <3>5. QED
      BY <3>2, <3>3, <3>4
  <2>4. /\ InState("active")' = {new} /\ Rows' = Rows
        /\ InState("overlap")' = {} /\ InState("sunsetting")' = {}
    BY <2>1, <2>3 DEF InState, Rows
  <2>5. KeyTypes'
    <3>1. key' \in [Kid -> KeyRow] /\ owed' \in [Kid -> Nat] /\ job' \in [Proc -> Job]
      BY <1>1, <1>7, <2>3, IdleJob DEF KeyTypes
    <3>2. \A k \in Rows' : key'[k].activated <= now'
      BY <1>1, <2>3, <2>4 DEF KeyTypes, Rows
    <3>3. \A q \in Proc : job'[q].at <= now' /\ job'[q].seen \subseteq Rows'
      BY <1>1, <1>4, <2>4, IdleJob DEF KeyTypes
    <3>4. QED
      BY <1>1, <1>3, <1>7, <3>1, <3>2, <3>3 DEF KeyTypes
  <2>6. LockedByOthers(p) = {}
    BY <2>1 DEF LockedByOthers, Locks
  <2>7. Locks'
    BY <1>4, <2>6, IdleJob, LocksKept
  <2>8. Current'
    BY <1>4, <2>3, <2>4, IdleJob DEF Current, Rotating, Rows
  <2>9. ActiveIsNewest' /\ Behind'
    BY <2>4 DEF ActiveIsNewest, Behind
  <2>10. Restorable' /\ Deletions'
    BY <1>3, <2>4 DEF Restorable, Deletions, CanCancel
  <2>11. QED
    BY <1>5, <2>5, <2>7, <2>8, <2>9, <2>10
<1>8. QED
  BY <1>6, <1>7 DEF CancelDeletion

(* A cleanup deletes only keys that are published no longer, and the       *)
(* tenant only with its last key.                                          *)
LEMMA PurgeKeeps == ASSUME KeysInv, NEW p \in Proc, PurgeTenant(p) PROVE KeysInv'
<1> USE DEF KeysInv
<1>1. PICK cutoff, deleted : cutoff = job[p].at /\ deleted = Sunken(cutoff)
  OBVIOUS
<1>2. /\ job[p].pc = "purging" /\ deleted \cap LockedByOthers(p) = {}
      /\ key' = [k \in Kid |-> IF k \in deleted THEN Absent ELSE key[k]]
      /\ tenant' = [tenant EXCEPT !.exists = @ /\ ~(Rows \subseteq deleted),
                                  !.scheduled = @ /\ ~(Rows \subseteq deleted)]
      /\ job' = [q \in Proc |-> IF q = p THEN NoJob ELSE [job[q] EXCEPT !.seen = @ \ deleted]]
      /\ UNCHANGED <<now, owed, crossed>>
  BY <1>1 DEF PurgeTenant, Unkeyed
<1>3. /\ job'[p] = NoJob
      /\ \A q \in Proc \ {p} : /\ job'[q] \in Job /\ job'[q].pc = job[q].pc /\ job'[q].at = job[q].at
                               /\ job'[q].old = job[q].old /\ job'[q].cur = job[q].cur
                               /\ job'[q].overtaken = job[q].overtaken
                               /\ job'[q].seen = job[q].seen \ deleted
  <2>1. \A q \in Proc : job[q] \in Job
    BY DEF KeyTypes
  <2>2. QED
    BY <1>2, <2>1 DEF Job
<1>4. /\ \A k \in Kid : key[k] \in KeyRow
      /\ cutoff \in Nat /\ now \in Nat /\ cutoff <= now /\ Patience \in Nat /\ Sunset \in Nat
      /\ Cancellable \in Nat /\ Cancellable > 0 /\ Cancellable + 2 * Patience <= Sunset
  BY <1>1, KeyTimesAssumption DEF KeyTypes, Job
<1>5. \A k \in deleted : k \in Kid /\ key[k].state = "sunsetting" /\ key[k].until <= cutoff
  BY <1>1 DEF Sunken, InState
<1>6. \A k \in Kid : /\ k \in deleted => key'[k].state = "absent" /\ key'[k] \in KeyRow
                     /\ k \notin deleted => key'[k] = key[k]
  BY <1>2 DEF Absent, KeyRow, States
<1>7. /\ Rows' = Rows \ deleted /\ InState("active")' = InState("active")
      /\ InState("sunsetting")' = InState("sunsetting") \ deleted
      /\ InState("overlap")' = InState("overlap")
      /\ Rows' \ InState("sunsetting")' = Rows \ InState("sunsetting")
  BY <1>5, <1>6 DEF Rows, InState
<1>8. /\ tenant' \in [exists : BOOLEAN, scheduled : BOOLEAN, cancelUntil : Nat, hardAfter : Nat]
      /\ tenant'.exists <=> tenant.exists /\ ~(Rows \subseteq deleted)
      /\ tenant'.scheduled <=> tenant.scheduled /\ ~(Rows \subseteq deleted)
      /\ tenant'.cancelUntil = tenant.cancelUntil /\ tenant'.hardAfter = tenant.hardAfter
  BY <1>2, Zenon DEF KeyTypes
<1>9. KeyTypes'
  <2>1. key' \in [Kid -> KeyRow] /\ job' \in [Proc -> Job]
    BY <1>2, <1>3, <1>4, <1>6, IdleJob
  <2>2. \A k \in Rows' : key'[k].activated <= now'
    BY <1>2, <1>6, <1>7 DEF KeyTypes, Rows
  <2>3. \A q \in Proc : job'[q].at <= now' /\ job'[q].seen \subseteq Rows'
    BY <1>2, <1>3, <1>4, <1>7, IdleJob DEF KeyTypes
  <2>4. QED
    BY <1>2, <1>8, <2>1, <2>2, <2>3 DEF KeyTypes
<1>10. \A k \in LockedByOthers(p) : key'[k] = key[k]
  <2>1. LockedByOthers(p) \subseteq Kid
    BY DEF LockedByOthers, Locks, InState
  <2>2. QED
    BY <1>2, <1>6, <2>1
<1>11. Locks'
  BY <1>3, <1>10, IdleJob, LocksKept
<1>12. Brief'
  BY <1>2, <1>3, IdleJob DEF Brief, Open
<1>13. Current'
  <2>1. \A k \in Rows' : k \in Rows /\ key'[k] = key[k]
    BY <1>6, <1>7 DEF Rows
  <2>2. QED
    BY <1>3, <2>1, IdleJob DEF Current, Rotating
<1>14. ActiveIsNewest'
  <2>1. \A k \in InState("active") \cup InState("overlap") : key'[k] = key[k]
    BY <1>5, <1>6 DEF InState
  <2>2. QED
    BY <1>2, <1>7, <2>1 DEF ActiveIsNewest
<1>15. Behind'
  <2>1. \A k \in deleted : k \notin InState("active") \cup InState("overlap")
    BY <1>5 DEF InState
  <2>2. QED
    BY <1>3, <1>7, <2>1, IdleJob DEF Behind
<1>16. CanCancel' => CanCancel
  BY <1>2, <1>8 DEF CanCancel
<1>17. ASSUME NEW k \in InState("sunsetting"), key[k].until > cutoff
       PROVE  k \in InState("sunsetting")' /\ key'[k] = key[k]
  <2>1. k \in Kid /\ k \notin deleted
    BY <1>4, <1>5, <1>17 DEF InState, KeyRow
  <2>2. QED
    BY <1>6, <1>7, <2>1
<1>18. Deletions'
  <2> SUFFICES ASSUME InState("active") = {}, NEW q \in Proc \ {p}
               PROVE  /\ job[q].pc = "purging" /\ CanCancel' => PurgeSpares(q)'
                      /\ job[q].pc = "scheduling" => ScheduleSpares(q)'
    BY <1>3, <1>7, IdleJob DEF Deletions
  <2>0. job'[q].at = job[q].at /\ job[q].at \in Nat
    BY <1>3 DEF KeyTypes, Job
  <2>1. ASSUME job[q].pc = "purging", CanCancel' PROVE PurgeSpares(q)'
    <3>1. PurgeSpares(p) /\ PurgeSpares(q)
      BY <1>2, <1>16, <2>1 DEF Deletions
    <3>2. CASE Rows \subseteq InState("sunsetting")
      BY <1>7, <3>2 DEF PurgeSpares
    <3>3. CASE ~(Rows \subseteq InState("sunsetting"))
      <4>1. PICK k, j \in InState("sunsetting") : key[k].until > cutoff /\ key[j].until > job[q].at
        BY <1>1, <3>1, <3>3 DEF PurgeSpares
      <4>2. /\ k \in InState("sunsetting")' /\ key'[k] = key[k]
            /\ key[j].until > cutoff => j \in InState("sunsetting")' /\ key'[j] = key[j]
        BY <1>17, <4>1
      <4>3. key[k].until \in Nat /\ key[j].until \in Nat
        BY <1>4 DEF InState, KeyRow
      <4>4. key[j].until > cutoff \/ key[k].until > job[q].at
        BY <1>4, <2>0, <4>1, <4>3
      <4>5. QED
        BY <2>0, <4>1, <4>2, <4>4 DEF PurgeSpares
    <3>4. QED
      BY <3>2, <3>3
  <2>2. ASSUME job[q].pc = "scheduling" PROVE ScheduleSpares(q)'
    <3>1. ScheduleSpares(q)
      BY <2>2 DEF Deletions
    <3>2. CASE Rows \ InState("sunsetting") \subseteq job[q].seen
      <4>1. Rows' \ InState("sunsetting")' \subseteq job'[q].seen
        BY <1>3, <1>7, <3>2
      <4>2. QED
        BY <4>1 DEF ScheduleSpares
    <3>3. ASSUME NEW k \in InState("sunsetting"), key[k].until + Patience >= job[q].at + Sunset
          PROVE  ScheduleSpares(q)'
      <4>1. now <= job[q].at + Patience /\ key[k].until \in Nat
        BY <1>4, <2>2 DEF Brief, Open, InState, KeyRow
      <4>2. key[k].until > cutoff
        BY <1>4, <2>0, <3>3, <4>1
      <4>3. QED
        BY <1>17, <2>0, <3>3, <4>2 DEF ScheduleSpares
    <3>4. QED
      BY <3>1, <3>2, <3>3 DEF ScheduleSpares
  <2>3. QED
    BY <2>1, <2>2
<1>19. Restorable'
  <2>1. tenant'.exists => Rows' # {}
    BY <1>7, <1>8
  <2>2. tenant'.exists /\ ~tenant'.scheduled => InState("active")' # {} /\ InState("sunsetting")' = {}
    BY <1>7, <1>8 DEF Restorable
  <2>3. tenant'.scheduled => tenant'.cancelUntil + Patience <= tenant'.hardAfter
    BY <1>8 DEF Restorable
  <2>4. CanCancel' /\ InState("active")' = {} => InState("sunsetting")' # {}
    <3> SUFFICES ASSUME CanCancel', InState("active")' = {} PROVE InState("sunsetting")' # {}
      OBVIOUS
    <3>1. PurgeSpares(p)
      BY <1>2, <1>7, <1>16 DEF Deletions
    <3>2. Rows' # {}
      BY <2>1 DEF CanCancel
    <3>3. CASE Rows \subseteq InState("sunsetting")
      BY <1>7, <3>2, <3>3
    <3>4. CASE ~(Rows \subseteq InState("sunsetting"))
      BY <1>1, <1>17, <3>1, <3>4 DEF PurgeSpares
    <3>5. QED
      BY <3>3, <3>4
  <2>5. QED
    BY <2>1, <2>2, <2>3, <2>4 DEF Restorable
<1>20. DebtsKept'
  <2> SUFFICES ASSUME NEW k \in Kid, now < owed[k]
               PROVE  key'[k].state = "sunsetting" /\ key'[k].until = owed[k]
    BY <1>2 DEF DebtsKept
  <2>1. key[k].state = "sunsetting" /\ key[k].until = owed[k] /\ key[k].until \in Nat
    BY <1>4 DEF DebtsKept, KeyRow
  <2>2. k \notin deleted
    BY <1>4, <1>5, <2>1
  <2>3. QED
    BY <1>6, <2>1, <2>2
<1>21. QED
  BY <1>9, <1>11, <1>12, <1>13, <1>14, <1>15, <1>18, <1>19, <1>20

(* Time passes: requests that are open and deletions that can be cancelled *)
(* become fewer.                                                           *)
LEMMA ClockKeeps == ASSUME KeysInv, Tick PROVE KeysInv'
<1> USE DEF KeysInv
<1>1. /\ now' = now + 1 /\ now \in Nat /\ UNCHANGED <<key, tenant, job, owed, crossed>>
      /\ \A p \in Proc : job[p].pc \in Open => now < job[p].at + Patience
  BY DEF Tick, KeyTypes
<1>2. Rows' = Rows /\ \A s : InState(s)' = InState(s)
  BY <1>1 DEF Rows, InState
<1>3. KeyTypes'
  <2>1. \A k \in Rows' : key'[k].activated <= now'
    BY <1>1, <1>2 DEF KeyTypes, KeyRow, Rows
  <2>2. \A p \in Proc : job'[p].at <= now' /\ job'[p].seen \subseteq Rows'
    BY <1>1, <1>2 DEF KeyTypes, Job
  <2>3. QED
    BY <1>1, <2>1, <2>2 DEF KeyTypes
<1>4. CanCancel' => CanCancel
  <2>1. tenant.cancelUntil + Patience \in Nat
    BY KeyTimesAssumption DEF KeyTypes
  <2>2. QED
    BY <1>1, <2>1 DEF CanCancel
<1>5. Brief'
  <2>1. \A p \in Proc : job[p].at + Patience \in Nat
    BY KeyTimesAssumption DEF KeyTypes, Job
  <2>2. QED
    BY <1>1, <2>1 DEF Brief
<1>6. Locks' /\ Current' /\ ActiveIsNewest' /\ Behind' /\ Restorable'
  BY <1>1, <1>2, <1>4 DEF Locks, Current, ActiveIsNewest, Behind, Restorable
<1>7. Deletions'
  BY <1>1, <1>2, <1>4 DEF Deletions, PurgeSpares, ScheduleSpares
<1>8. DebtsKept'
  BY <1>1 DEF DebtsKept, KeyTypes
<1>9. QED
  BY <1>3, <1>5, <1>6, <1>7, <1>8

(* Every step keeps the invariant.                                         *)
LEMMA KeysStep == KeysInv /\ [Next]_vars => KeysInv'
<1> SUFFICES ASSUME KeysInv, [Next]_vars PROVE KeysInv'
  OBVIOUS
<1>1. CASE UNCHANGED vars
  <2>1. UNCHANGED <<now, key, tenant, job, owed, crossed>>
    BY <1>1 DEF vars
  <2>2. Rows' = Rows /\ (CanCancel' <=> CanCancel) /\ \A s : InState(s)' = InState(s)
    BY <2>1 DEF Rows, InState, CanCancel
  <2>3. KeyTypes' /\ Brief' /\ Locks' /\ Current' /\ ActiveIsNewest' /\ Behind' /\ Restorable' /\ DebtsKept'
    BY <2>1, <2>2 DEF KeysInv, KeyTypes, Brief, Locks, Current, ActiveIsNewest, Behind, Restorable, DebtsKept
  <2>4. Deletions'
    BY <2>1, <2>2 DEF KeysInv, Deletions, PurgeSpares, ScheduleSpares
  <2>5. QED
    BY <2>3, <2>4 DEF KeysInv
<1>2. QED
  BY <1>1, ReadingSteps, InsertKeeps, SweepKeeps, ScheduleKeeps, CancelKeeps, PurgeKeeps, ClockKeeps
     DEF Next, Reads

(* The invariant holds in every reachable state.                           *)
LEMMA KeysInvariant == Spec => []KeysInv
<1>1. QED
  BY KeysInit, KeysStep, PTL DEF Spec

(* One key is active and one overlaps at most, and a rotation that holds   *)
(* the active key has retired the overlap key: nothing else can move up.   *)
KeysUnique ==
    /\ now <= MaxTime
    /\ \A a, b \in InState("active") : a = b
    /\ \A a, b \in InState("overlap") : a = b
    /\ \A p \in Proc : job[p].cur # {} => InState("overlap") \subseteq job[p].old

(* Keys leave the states, and no rotation takes hold of another key.       *)
LEMMA UniqueKept ==
    ASSUME KeysUnique, now' <= MaxTime,
           InState("active")' \subseteq InState("active"), InState("overlap")' \subseteq InState("overlap"),
           \A q \in Proc : job'[q].cur # {} => job'[q].cur = job[q].cur /\ job'[q].old = job[q].old
    PROVE  KeysUnique'
  BY DEF KeysUnique

(* A job reads, gives up or takes hold of keys.                            *)
LEMMA UniqueRead == ASSUME KeysInv, KeysInv', KeysUnique, NEW p \in Proc, Reads(p) PROVE KeysUnique'
<1>1. UNCHANGED <<now, key>>
  BY DEF Reads, ListDue, Confirm, AdminRotateKey, StartRotate, BeginRotate, RetireOverlap, SeeActive,
         MoveActive, InsertFails, OpenSchedule, BeginSchedule, OpenCancel, ListExpired, Abort
<1>2. \A q \in Proc \ {p} : job'[q] = job[q]
  BY DEF Reads, ListDue, Confirm, AdminRotateKey, StartRotate, BeginRotate, RetireOverlap, SeeActive,
         MoveActive, InsertFails, OpenSchedule, BeginSchedule, OpenCancel, ListExpired, Abort,
         KeysInv, KeyTypes
<1>3. InState("active")' = InState("active") /\ InState("overlap")' = InState("overlap")
  BY <1>1 DEF InState
<1>4. job[p] \in Job /\ DOMAIN job = Proc
  BY DEF KeysInv, KeyTypes
<1>5. job'[p].cur # {} => InState("overlap") \subseteq job'[p].old
  <2>1. CASE ListDue(p) \/ Confirm(p) \/ AdminRotateKey(p) \/ InsertFails(p) \/ OpenSchedule(p)
             \/ OpenCancel(p) \/ ListExpired(p) \/ Abort(p)
    <3>1. CASE ListDue(p)
      BY <1>4, <3>1 DEF ListDue, NoJob
    <3>2. CASE Confirm(p) \/ AdminRotateKey(p) \/ InsertFails(p) \/ Abort(p)
      BY <1>4, <3>2 DEF Confirm, AdminRotateKey, InsertFails, Abort, NoJob
    <3>3. CASE OpenSchedule(p) \/ OpenCancel(p) \/ ListExpired(p)
      BY <1>4, <3>3 DEF OpenSchedule, OpenCancel, ListExpired, NoJob
    <3>4. QED
      BY <2>1, <3>1, <3>2, <3>3
  <2>2. CASE StartRotate(p) \/ BeginRotate(p) \/ RetireOverlap(p) \/ BeginSchedule(p)
    <3>1. /\ job[p].pc \in {"due", "started", "retiring", "opened"}
          /\ job'[p].cur = job[p].cur
      BY <1>4, <2>2 DEF StartRotate, BeginRotate, RetireOverlap, BeginSchedule, Job
    <3>2. QED
      BY <3>1 DEF KeysInv, Locks
  <2>3. CASE SeeActive(p)
    <3>1. job'[p].cur = job[p].cur /\ job'[p].old = job[p].old
      BY <1>4, <2>3 DEF SeeActive, Job
    <3>2. QED
      BY <3>1 DEF KeysUnique
  <2>4. CASE MoveActive(p)
    <3>1. PICK moved : moved = job[p].seen \cap InState("active")
      OBVIOUS
    <3>2. CASE moved # {} /\ ~(InState("overlap") \subseteq job[p].old)
      <4>1. job'[p].cur = {}
        BY <1>4, <2>4, <3>1, <3>2 DEF MoveActive, NoJob
      <4>2. QED
        BY <4>1
    <3>3. CASE ~(moved # {} /\ ~(InState("overlap") \subseteq job[p].old))
      <4>1. job'[p] = [job[p] EXCEPT !.pc = "moved", !.seen = {}, !.cur = moved]
        BY <1>4, <2>4, <3>1, <3>3 DEF MoveActive
      <4>2. job'[p].cur = moved /\ job'[p].old = job[p].old
        BY <1>4, <4>1 DEF Job
      <4>3. QED
        BY <3>3, <4>2
    <3>4. QED
      BY <3>2, <3>3
  <2>5. QED
    BY <2>1, <2>2, <2>3, <2>4 DEF Reads
<1>6. QED
  BY <1>1, <1>2, <1>3, <1>5 DEF KeysUnique

(* A rotation commits: if it held the active key, the overlap key it       *)
(* retired makes room for it.                                              *)
LEMMA UniqueInsert ==
    ASSUME KeysInv, KeysUnique, NEW p \in Proc, InsertActive(p)
    PROVE  KeysUnique'
<1>1. PICK n : n = NextSequence
  OBVIOUS
<1>2. /\ n \in Kid /\ n \notin Rows /\ InState("active") \subseteq job[p].cur /\ now' = now
      /\ job[p].old \subseteq InState("overlap") /\ job[p].cur \subseteq InState("active")
  BY <1>1 DEF InsertActive, CanInsert, KeysInv, Locks
<1>3. \A k \in Kid : key'[k] = Rotated(p, k) /\ key[k] \in KeyRow
  BY DEF InsertActive, KeysInv, KeyTypes
<1>4. \A k \in job[p].old : key[k].state = "overlap"
  BY <1>2 DEF InState
<1>5. \A k \in job[p].cur : key[k].state = "active"
  BY <1>2 DEF InState
<1>6. ASSUME NEW k \in Kid
      PROVE  key'[k].state = IF k \in job[p].old THEN "retired"
                             ELSE IF k \in job[p].cur THEN "overlap"
                             ELSE IF k = n THEN "active" ELSE key[k].state
  <2>1. CASE k \in job[p].old
    <3>1. key'[k] = [key[k] EXCEPT !.state = "retired"]
      BY <1>1, <1>2, <1>3, <1>4, <1>5, <2>1 DEF Rotated, Rows
    <3>2. QED
      BY <1>3, <2>1, <3>1 DEF KeyRow
  <2>2. CASE k \in job[p].cur
    <3>1. k \notin job[p].old
      BY <1>4, <1>5, <2>2
    <3>2. key'[k] = [key[k] EXCEPT !.state = "overlap", !.until = job[p].at + Overlap]
      BY <1>1, <1>2, <1>3, <1>5, <2>2, <3>1 DEF Rotated, Rows
    <3>3. QED
      BY <1>3, <2>2, <3>1, <3>2 DEF KeyRow
  <2>3. CASE k \notin job[p].old \cup job[p].cur
    <3>1. key'[k] = IF k = n THEN [state |-> "active", activated |-> job[p].at, until |-> job[p].at + Interval]
                    ELSE key[k]
      BY <1>1, <1>3, <2>3 DEF Rotated
    <3>2. QED
      BY <2>3, <3>1
  <2>4. QED
    BY <2>1, <2>2, <2>3
<1>7. InState("active")' \subseteq {n}
  BY <1>2, <1>6 DEF InState
<1>8. InState("overlap")' \subseteq (InState("overlap") \ job[p].old) \cup job[p].cur
  BY <1>6 DEF InState
<1>9. \A a, b \in InState("overlap")' : a = b
  <2>1. CASE job[p].cur = {}
    BY <1>8, <2>1 DEF KeysUnique
  <2>2. CASE job[p].cur # {}
    BY <1>2, <1>8, <2>2 DEF KeysUnique
  <2>3. QED
    BY <2>1, <2>2
<1>10. job'[p].cur = {} /\ \A q \in Proc \ {p} : job'[q].cur = job[q].cur
  <2>1. \A q \in Proc : job[q] \in Job
    BY DEF KeysInv, KeyTypes
  <2>2. QED
    BY <2>1 DEF InsertActive, NoJob, Job
<1>11. ASSUME NEW q \in Proc \ {p} PROVE job[q].cur = {}
  <2>1. job[q].cur \subseteq InState("active") /\ job[q].cur \cap job[p].cur = {}
    BY DEF KeysInv, Locks
  <2>2. QED
    BY <1>2, <2>1
<1>12. QED
  BY <1>2, <1>7, <1>9, <1>10, <1>11 DEF KeysUnique

(* Every step keeps the keys unique.                                       *)
LEMMA UniqueStep == KeysInv /\ KeysInv' /\ KeysUnique /\ [Next]_vars => KeysUnique'
<1> SUFFICES ASSUME KeysInv, KeysInv', KeysUnique, [Next]_vars PROVE KeysUnique'
  OBVIOUS
<1>1. now <= MaxTime /\ now \in Nat /\ MaxTime \in Nat /\ DOMAIN job = Proc /\ NoJob.cur = {}
  BY KeyTimesAssumption DEF KeysUnique, KeysInv, KeyTypes, NoJob
<1>2. \A k \in Kid : key[k] \in KeyRow
  BY DEF KeysInv, KeyTypes
<1>3. CASE UNCHANGED vars \/ Tick
  <2>1. UNCHANGED <<key, job>> /\ now' <= MaxTime
    BY <1>1, <1>3 DEF vars, Tick
  <2>2. InState("active")' = InState("active") /\ InState("overlap")' = InState("overlap")
    BY <2>1 DEF InState
  <2>3. QED
    BY <2>1, <2>2, UniqueKept
<1>4. ASSUME NEW p \in Proc, SweepOverlap(p) \/ CommitSchedule(p) \/ PurgeTenant(p) PROVE KeysUnique'
  <2>1. now' = now
    BY <1>4 DEF SweepOverlap, CommitSchedule, PurgeTenant
  <2>2. \A k \in Kid : key'[k] = key[k] \/ key'[k].state \in {"retired", "sunsetting", "absent"}
    <3>1. CASE SweepOverlap(p)
      BY <1>2, <3>1 DEF SweepOverlap, KeyRow
    <3>2. CASE CommitSchedule(p)
      BY <1>2, <3>2 DEF CommitSchedule, KeyRow
    <3>3. CASE PurgeTenant(p)
      BY <3>3 DEF PurgeTenant, Absent
    <3>4. QED
      BY <1>4, <3>1, <3>2, <3>3
  <2>3. InState("active")' \subseteq InState("active") /\ InState("overlap")' \subseteq InState("overlap")
    BY <2>2 DEF InState
  <2>4. \A q \in Proc : job'[q].cur = {} \/ (job'[q].cur = job[q].cur /\ job'[q].old = job[q].old)
    <3>1. CASE SweepOverlap(p) \/ CommitSchedule(p)
      BY <1>1, <3>1 DEF SweepOverlap, CommitSchedule
    <3>2. CASE PurgeTenant(p)
      <4>1. \A q \in Proc : job[q] \in Job
        BY DEF KeysInv, KeyTypes
      <4>2. QED
        BY <1>1, <3>2, <4>1 DEF PurgeTenant, Job
    <3>3. QED
      BY <1>4, <3>1, <3>2
  <2>5. QED
    BY <1>1, <2>1, <2>3, <2>4, UniqueKept
<1>5. ASSUME NEW p \in Proc, CancelDeletion(p) PROVE KeysUnique'
  <2>1. now' = now /\ \A q \in Proc : job'[q] = job[q] \/ job'[q].cur = {}
    BY <1>1, <1>5 DEF CancelDeletion
  <2>2. CASE UNCHANGED key
    <3>1. InState("active")' = InState("active") /\ InState("overlap")' = InState("overlap")
      BY <2>2 DEF InState
    <3>2. QED
      BY <1>1, <2>1, <3>1, UniqueKept
  <2>3. CASE key' # key
    <3>1. PICK new \in Newest(InState("sunsetting")) : key' = [k \in Kid |-> Restored(k, new)]
      BY <1>5, <2>3 DEF CancelDeletion
    <3>2. new \in Kid /\ key[new].state = "sunsetting" /\ InState("active") = {}
      BY <1>5, <3>1 DEF CancelDeletion, Newest, InState
    <3>3. \A k \in Kid : key'[k].state = IF k = new THEN "active"
                                         ELSE IF key[k].state = "sunsetting" THEN "retired" ELSE key[k].state
      BY <1>2, <3>1 DEF Restored, InState, KeyRow
    <3>4. InState("active")' \subseteq {new} /\ InState("overlap")' \subseteq InState("overlap")
      BY <3>2, <3>3 DEF InState
    <3>5. \A q \in Proc : job'[q].cur = {}
      BY <2>1, <3>2 DEF KeysInv, Locks
    <3>6. QED
      BY <1>1, <2>1, <3>4, <3>5 DEF KeysUnique
  <2>4. QED
    BY <2>2, <2>3
<1>6. QED
  BY <1>3, <1>4, <1>5, UniqueRead, UniqueInsert DEF Next, Reads

(* A set without two elements has one at most.                             *)
LEMMA AtMostOne == ASSUME NEW S, \A a, b \in S : a = b PROVE Cardinality(S) <= 1
<1>1. CASE S = {}
  BY <1>1, FS_EmptySet
<1>2. CASE S # {}
  <2>1. PICK a \in S : TRUE
    BY <1>2
  <2>2. S = {a}
    BY <2>1
  <2>3. QED
    BY <2>2, FS_Singleton
<1>3. QED
  BY <1>1, <1>2

(* The keys are unique in every reachable state.                           *)
LEMMA UniqueInvariant == Spec => []KeysUnique
<1>1. Init => KeysUnique
  <2> SUFFICES ASSUME Init PROVE KeysUnique
    OBVIOUS
  <2>1. InState("active") \subseteq {1} /\ InState("overlap") = {}
    BY DEF Init, InState, Absent
  <2>2. 0 <= MaxTime
    BY KeyTimesAssumption
  <2>3. QED
    BY <2>1, <2>2 DEF KeysUnique, Init, NoJob
<1>2. QED
  BY <1>1, KeysInvariant, UniqueStep, PTL DEF Spec

(* KeysTypeOK: rows and jobs have their types, and the unique indexes hold *)
(* although rotations work on keys they saw before others moved them: a    *)
(* tenant never has two active or two overlap keys.                        *)
THEOREM KeysStayUnique == Spec => []KeysTypeOK
<1>1. KeysInv /\ KeysUnique => KeysTypeOK
  <2> SUFFICES ASSUME KeysInv, KeysUnique PROVE KeysTypeOK
    OBVIOUS
  <2>1. Cardinality(InState("active")) <= 1 /\ Cardinality(InState("overlap")) <= 1
    BY AtMostOne DEF KeysUnique
  <2>2. now \in 0..MaxTime
    BY KeyTimesAssumption DEF KeysUnique, KeysInv, KeyTypes
  <2>3. QED
    BY <2>1, <2>2 DEF KeysTypeOK, KeysInv, KeyTypes
<1>2. QED
  BY <1>1, KeysInvariant, UniqueInvariant, PTL

(* ActiveKeyAvailable: while a tenant is not being deleted it has an       *)
(* active key, whatever rotations, deletions, cancellations and cleanups   *)
(* overlap, and activeSigningKey returns it unless its rotation read the   *)
(* clock before another that committed first.                              *)
THEOREM TenantsCanSign == Spec => []ActiveKeyAvailable
<1>1. KeysInv /\ KeysUnique => ActiveKeyAvailable
  <2> SUFFICES ASSUME KeysInv, KeysUnique, tenant.exists, ~tenant.scheduled
               PROVE  /\ InState("active") # {}
                      /\ ~crossed => Signers \cap InState("active") # {}
    BY DEF ActiveKeyAvailable
  <2>1. PICK a \in InState("active") : TRUE
    BY DEF KeysInv, Restorable
  <2>2. ASSUME ~crossed PROVE a \in Signers
    <3>1. a \in Published /\ Published = InState("active") \cup InState("overlap")
      BY DEF Published, KeysInv, Restorable
    <3>2. \A k \in InState("overlap") : key[k].activated <= key[a].activated
      BY <2>2 DEF KeysInv, ActiveIsNewest
    <3>3. \A k \in InState("active") : key[k].activated <= key[a].activated
      <4>1. \A k \in InState("active") : k = a
        BY DEF KeysUnique
      <4>2. key[a].activated \in Nat
        BY DEF KeysInv, KeyTypes, KeyRow, InState
      <4>3. QED
        BY <4>1, <4>2
    <3>4. QED
      BY <3>1, <3>2, <3>3 DEF Signers, Newest
  <2>3. QED
    BY <2>1, <2>2
<1>2. QED
  BY <1>1, KeysInvariant, UniqueInvariant, PTL

(* JWKSThroughSunset: the keys that could verify tokens when a deletion    *)
(* was scheduled stay in JWKS until sunset_until.                          *)
THEOREM SunsetKeysPublished == Spec => []JWKSThroughSunset
<1>1. KeysInv => JWKSThroughSunset
  BY DEF KeysInv, DebtsKept, JWKSThroughSunset, Published, InState, KeyTypes
<1>2. QED
  BY <1>1, KeysInvariant, PTL

(* CancelledTenantSurvives: RunTenantDeletionCleanup works from a list it  *)
(* read earlier, and a tenant whose deletion was cancelled since has an    *)
(* active key, which keeps it.                                             *)
THEOREM CancellationHolds == Spec => CancelledTenantSurvives
<1>1. KeysInv /\ [Next]_vars => [tenant.exists /\ ~tenant'.exists => tenant.scheduled]_vars
  <2> SUFFICES ASSUME KeysInv, Next, tenant.exists, ~tenant'.exists PROVE tenant.scheduled
    OBVIOUS
  <2>1. CASE UNCHANGED tenant
    BY <2>1
  <2>2. ASSUME NEW p \in Proc, CommitSchedule(p) PROVE FALSE
    BY <2>2 DEF CommitSchedule
  <2>3. ASSUME NEW p \in Proc, CancelDeletion(p) PROVE FALSE
    BY <2>3 DEF CancelDeletion, KeysInv, KeyTypes
  <2>4. ASSUME NEW p \in Proc, PurgeTenant(p) PROVE tenant.scheduled
    <3>1. Rows \subseteq InState("sunsetting")
      BY <2>4, Zenon DEF PurgeTenant, Unkeyed, Sunken, KeysInv, KeyTypes
    <3>2. InState("active") = {}
      BY <3>1 DEF Rows, InState
    <3>3. QED
      BY <3>2 DEF KeysInv, Restorable
  <2>5. QED
    BY <2>1, <2>2, <2>3, <2>4 DEF Next, ListDue, Confirm, AdminRotateKey, StartRotate, BeginRotate,
       RetireOverlap, SeeActive, MoveActive, InsertActive, InsertFails, SweepOverlap, OpenSchedule,
       BeginSchedule, OpenCancel, ListExpired, Abort, Tick
<1>2. QED
  BY <1>1, KeysInvariant, PTL DEF Spec, CancelledTenantSurvives

-----------------------------------------------------------------------------
(***************************************************************************)
(* Master-key rotation.  A run counts the rows it sees, and rows come and  *)
(* go under it.  The argument compares it with S, the rows there were at   *)
(* the start, of which some have gone since (Counted): what a run has seen *)
(* and still lists is never more than the rows of S in the columns it has  *)
(* read, and it is all of them only if it missed none (Whole).  Then every *)
(* row it does not list needs no rewrapping (RunSound).  While nothing has *)
(* gone, S is what is there, and the numbers the runs and rows_done give   *)
(* to the rows agree (InStep).                                             *)
(***************************************************************************)

(* x needs no rewrapping: it is gone, rewrapped, or written meanwhile.     *)
Good(x) == x \notin Present \/ wrap[x] = "new" \/ x \in written

(* The rows of S up to x.                                                  *)
Prefix(S, x) == {y \in S : y <= x}

(* The rows of the columns before column c, and those a run has read.      *)
Before(c) == UNION {Columns[i] : i \in 1..(c - 1)}

ReadBy(p) == Before(run[p].col)

(* Of the rows S there were at the start, the run has missed none.         *)
Whole(p, S) == run[p].seen + Cardinality(run[p].list) = Cardinality(S \cap ReadBy(p))

(* Rows that were there when the run began: those that still are, and what *)
(* the run read if it missed none.                                         *)
AtBegin(p, S) == Present \cup (IF Whole(p, S) THEN S \cap ReadBy(p) ELSE {})

(* What a run that is under way may count on.                              *)
RunSound(p, S) ==
    /\ run[p].col \in 1..(Len(Columns) + 1)
    /\ run[p].goal = total /\ run[p].from <= total
    /\ run[p].list \subseteq S \cap ReadBy(p)
    /\ run[p].list # {} => run[p].from <= run[p].seen
    /\ run[p].seen + Cardinality(run[p].list) <= Cardinality(S \cap ReadBy(p))
    /\ S \cap ReadBy(p) \subseteq Present => Whole(p, S)
    /\ \A x \in S : Prefix(S, x) \subseteq AtBegin(p, S) /\ Number(S, x) <= run[p].from => Good(x)
    /\ Whole(p, S) => \A x \in S \cap ReadBy(p) : x \in run[p].list \/ Good(x)
    /\ \A x \in S \cap ReadBy(p) : Prefix(S, x) \subseteq Present =>
          \/ x \in run[p].list /\ Number(S, x) = run[p].seen + Number(run[p].list, x)
          \/ x \notin run[p].list /\ Good(x)

(* S are the rows there were at the start.                                 *)
Counted(S) ==
    /\ Present \subseteq S /\ Cardinality(S) = total /\ done <= total
    /\ \A x \in S : Prefix(S, x) \subseteq Present /\ Number(S, x) <= done => Good(x)
    /\ \A p \in Rotator : run[p].on => RunSound(p, S)

(* Before the start nothing has happened.                                  *)
Unstarted ==
    phase = "none" => /\ \A x \in Row : wrap[x] # "new"
                      /\ \A p \in Rotator : ~run[p].on
                      /\ writes = 0 /\ written = {} /\ ~grown

(* While the server writes nothing and one run at a time is under way,     *)
(* rows_done is how far the rows are rewrapped.                            *)
InStep ==
    phase # "none" /\ writes = 0 =>
        /\ written = {} /\ ~grown /\ total = Cardinality(Present)
        /\ ~shared =>
             /\ \A p, q \in Rotator : run[p].on /\ run[q].on => p = q
             /\ \A p \in Rotator : run[p].on =>
                    done = IF run[p].from <= run[p].seen THEN run[p].seen ELSE run[p].from
             /\ \A x \in Present : wrap[x] = "new" => Number(Present, x) <= done

MKTypes ==
    /\ wrap \in [Row -> Wraps] /\ phase \in Phases
    /\ total \in Nat /\ done \in Nat
    /\ run \in [Rotator -> Resuming]
    /\ writes \in Nat /\ written \subseteq Row /\ grown \in BOOLEAN /\ shared \in BOOLEAN

RowsCounted == phase # "none" /\ ~grown => \E S \in SUBSET Row : Counted(S)

MKInv == MKTypes /\ Unstarted /\ RowsCounted /\ InStep /\ CutoverComplete

(* Rows are finitely many numbers.                                         *)
LEMMA RowFacts ==
    /\ Row \subseteq Nat
    /\ \A S \in SUBSET Row : S \subseteq Nat /\ IsFiniteSet(S) /\ Cardinality(S) \in Nat
<1>1. Row \subseteq Nat
  BY ColumnsAssumption DEF Row
<1>2. ASSUME NEW S \in SUBSET Row PROVE S \subseteq Nat /\ IsFiniteSet(S) /\ Cardinality(S) \in Nat
  BY <1>1, ColumnsAssumption, FS_Subset, FS_CardinalityType
<1>3. QED
  BY <1>1, <1>2

(* The columns before c, and the order of the rows.                        *)
LEMMA BeforeFacts ==
    /\ Before(1) = {} /\ Before(Len(Columns) + 1) = Row
    /\ \A c \in 1..Len(Columns) : Before(c + 1) = Before(c) \cup Columns[c] /\ Columns[c] \subseteq Row
    /\ \A c \in 1..(Len(Columns) + 1) : /\ Before(c) \subseteq Row
                                        /\ \A a \in Before(c), b \in Row \ Before(c) : a < b
    /\ \A c \in 1..Len(Columns) : Before(c) \cap Columns[c] = {}
<1>1. Len(Columns) \in Nat /\ \A i \in 1..Len(Columns) : Columns[i] \subseteq Nat
  BY ColumnsAssumption
<1>2. Before(1) = {} /\ Before(Len(Columns) + 1) = Row
  BY <1>1 DEF Before, Row
<1>3. ASSUME NEW c \in 1..Len(Columns)
      PROVE  Before(c + 1) = Before(c) \cup Columns[c] /\ Columns[c] \subseteq Row
  <2>1. 1..((c + 1) - 1) = (1..(c - 1)) \cup {c}
    BY <1>1
  <2>2. QED
    BY <2>1 DEF Before, Row
<1>4. ASSUME NEW c \in 1..(Len(Columns) + 1)
      PROVE  /\ Before(c) \subseteq Row
             /\ \A a \in Before(c), b \in Row \ Before(c) : a < b
  <2>1. Before(c) \subseteq Row
    BY <1>1 DEF Before, Row
  <2>2. ASSUME NEW a \in Before(c), NEW b \in Row \ Before(c) PROVE a < b
    <3>1. PICK i \in 1..(c - 1) : a \in Columns[i]
      BY DEF Before
    <3>2. PICK j \in 1..Len(Columns) : b \in Columns[j]
      BY DEF Row
    <3>3. ~(j \in 1..(c - 1))
      BY <3>2 DEF Before
    <3>4. i \in 1..Len(Columns) /\ i < j
      BY <1>1, <3>1, <3>2, <3>3
    <3>5. QED
      BY <3>1, <3>2, <3>4, ColumnsAssumption
  <2>3. QED
    BY <2>1, <2>2
<1>5. ASSUME NEW c \in 1..Len(Columns) PROVE Before(c) \cap Columns[c] = {}
  <2> SUFFICES ASSUME NEW a \in Before(c), a \in Columns[c] PROVE FALSE
    OBVIOUS
  <2>1. PICK i \in 1..(c - 1) : a \in Columns[i]
    BY DEF Before
  <2>2. i \in 1..Len(Columns) /\ i < c /\ a \in Nat
    BY <1>1, <2>1
  <2>3. a < a
    BY <2>1, <2>2, ColumnsAssumption
  <2>4. QED
    BY <2>2, <2>3
<1>6. QED
  BY <1>2, <1>3, <1>4, <1>5

(* ORDER BY numbers the rows from 1.                                       *)
LEMMA NumberRange ==
    ASSUME NEW S \in SUBSET Nat, IsFiniteSet(S), NEW x \in S
    PROVE  /\ IsFiniteSet(Prefix(S, x)) /\ Number(S, x) = Cardinality(Prefix(S, x))
           /\ Number(S, x) \in 1..Cardinality(S) /\ Cardinality(S) \in Nat
<1>1. Prefix(S, x) \in SUBSET S /\ x \in Prefix(S, x)
  BY DEF Prefix
<1>2. IsFiniteSet(Prefix(S, x)) /\ Cardinality(Prefix(S, x)) <= Cardinality(S)
  BY <1>1, FS_Subset
<1>3. Cardinality(Prefix(S, x)) \in Nat /\ Cardinality(S) \in Nat
  BY <1>2, FS_CardinalityType
<1>4. Cardinality(Prefix(S, x)) # 0
  BY <1>1, <1>2, FS_EmptySet
<1>5. QED
  BY <1>2, <1>3, <1>4 DEF Number, Prefix

(* ... strictly.                                                           *)
LEMMA NumberStrict ==
    ASSUME NEW S \in SUBSET Nat, IsFiniteSet(S), NEW x \in S, NEW y \in S, x < y
    PROVE  Number(S, x) < Number(S, y)
<1>1. Prefix(S, x) \in SUBSET Prefix(S, y) /\ y \in Prefix(S, y) /\ y \notin Prefix(S, x)
  <2>1. x \in Nat /\ y \in Nat /\ \A z \in S : z \in Nat
    OBVIOUS
  <2>2. \A z \in S : z <= x => z <= y
    BY <2>1
  <2>3. y <= y /\ ~(y <= x)
    BY <2>1
  <2>4. QED
    BY <2>2, <2>3 DEF Prefix
<1>2. /\ IsFiniteSet(Prefix(S, y)) /\ Number(S, y) = Cardinality(Prefix(S, y)) /\ Number(S, y) \in Nat
      /\ Number(S, x) = Cardinality(Prefix(S, x)) /\ Number(S, x) \in Nat
  BY NumberRange
<1>3. /\ Cardinality(Prefix(S, x)) <= Cardinality(Prefix(S, y))
      /\ Cardinality(Prefix(S, y)) = Cardinality(Prefix(S, x)) => Prefix(S, y) = Prefix(S, x)
  BY <1>1, <1>2, FS_Subset
<1>4. QED
  BY <1>1, <1>2, <1>3

(* ... without a gap: k rows have numbers up to k.                         *)
LEMMA NumberOnto ==
    ASSUME NEW S \in SUBSET Nat, IsFiniteSet(S), NEW k \in 0..Cardinality(S)
    PROVE  Cardinality({x \in S : Number(S, x) <= k}) = k
<1> DEFINE n == Cardinality(S)
           f == [x \in S |-> Number(S, x)]
           T == {x \in S : Number(S, x) <= k}
           g == [x \in T |-> Number(S, x)]
<1>1. n \in Nat /\ k \in Nat /\ k <= n
  BY FS_CardinalityType
<1>2. \A x \in S : Number(S, x) \in 1..n
  BY NumberRange
<1>3. \A x, y \in S : Number(S, x) = Number(S, y) => x = y
  <2> SUFFICES ASSUME NEW x \in S, NEW y \in S, x # y PROVE Number(S, x) # Number(S, y)
    OBVIOUS
  <2>1. Number(S, x) \in Nat /\ Number(S, y) \in Nat
    BY <1>1, <1>2
  <2>2. CASE x < y
    BY <2>1, <2>2, NumberStrict
  <2>3. CASE y < x
    BY <2>1, <2>3, NumberStrict
  <2>4. QED
    BY <2>2, <2>3
<1>4. f \in Injection(S, 1..n)
  BY <1>2, <1>3 DEF Injection, IsInjective
<1>5. IsFiniteSet(1..n) /\ Cardinality(1..n) = n
  BY <1>1, FS_Interval
<1>6. f \in Surjection(S, 1..n)
  BY <1>4, <1>5, FS_Injection
<1>7. \A i \in 1..n : \E x \in S : Number(S, x) = i
  BY <1>6 DEF Surjection
<1>8. g \in Injection(T, 1..k)
  <2>1. \A x \in T : Number(S, x) \in 1..k
    BY <1>1, <1>2
  <2>2. g \in [T -> 1..k] /\ \A x \in T : g[x] = Number(S, x)
    BY <2>1
  <2>3. IsInjective(g)
    BY <1>3, <2>2 DEF IsInjective
  <2>4. QED
    BY <2>2, <2>3 DEF Injection
<1>9. g \in Surjection(T, 1..k)
  <2>1. g \in [T -> 1..k]
    BY <1>8 DEF Injection
  <2>2. ASSUME NEW i \in 1..k PROVE \E x \in T : g[x] = i
    <3>1. PICK x \in S : Number(S, x) = i
      BY <1>1, <1>7
    <3>2. QED
      BY <3>1
  <2>3. QED
    BY <2>1, <2>2 DEF Surjection
<1>10. ExistsBijection(T, 1..k)
  BY <1>8, <1>9 DEF ExistsBijection, Bijection
<1>11. IsFiniteSet(T)
  BY FS_Subset
<1>12. Cardinality(1..k) = Cardinality(T)
  BY <1>10, <1>11, FS_Bijection
<1>13. Cardinality(1..k) = k
  BY <1>1, FS_Interval
<1>14. QED
  BY <1>12, <1>13

(* Disjoint parts are counted one by one.                                  *)
LEMMA DisjointSum ==
    ASSUME NEW S, NEW T, IsFiniteSet(S), IsFiniteSet(T), S \cap T = {}
    PROVE  Cardinality(S \cup T) = Cardinality(S) + Cardinality(T)
<1>1. Cardinality(S) \in Nat /\ Cardinality(T) \in Nat /\ Cardinality({}) = 0
  BY FS_CardinalityType, FS_EmptySet
<1>2. Cardinality(S \cup T) = Cardinality(S) + Cardinality(T) - Cardinality(S \cap T)
  BY FS_Union
<1>3. Cardinality(S \cap T) = 0
  BY <1>1
<1>4. QED
  BY <1>1, <1>2, <1>3

(* After the first k rows the numbers go on from k.                        *)
LEMMA NumberRest ==
    ASSUME NEW S \in SUBSET Nat, IsFiniteSet(S), NEW k \in 0..Cardinality(S),
           NEW L, L = {x \in S : k < Number(S, x)}
    PROVE  /\ Cardinality(L) = Cardinality(S) - k
           /\ \A x \in L : Number(S, x) = k + Number(L, x)
<1> DEFINE T == {x \in S : Number(S, x) <= k}
<1>1. \A x \in S : Number(S, x) \in Nat /\ Number(S, x) = Cardinality(Prefix(S, x))
  BY NumberRange
<1>2. IsFiniteSet(T) /\ IsFiniteSet(L) /\ T \cap L = {} /\ S = T \cup L
  <2>1. T \in SUBSET S /\ L \in SUBSET S
    OBVIOUS
  <2>2. k \in Nat
    BY FS_CardinalityType
  <2>3. \A x \in S : ~(Number(S, x) <= k) <=> k < Number(S, x)
    BY <1>1, <2>2
  <2>4. T \cap L = {} /\ S = T \cup L
    BY <2>3
  <2> HIDE DEF T
  <2>5. IsFiniteSet(T) /\ IsFiniteSet(L)
    BY <2>1, FS_Subset
  <2>6. QED
    BY <2>4, <2>5
<1>3. Cardinality(T) = k /\ k \in Nat
  BY NumberOnto, FS_CardinalityType
<1>4. Cardinality(S) = k + Cardinality(L) /\ Cardinality(L) \in Nat
  BY <1>2, <1>3, DisjointSum, FS_CardinalityType
<1>5. ASSUME NEW x \in L PROVE Number(S, x) = k + Number(L, x)
  <2>1. L \in SUBSET Nat /\ x \in S
    BY <1>2
  <2>2. \A y \in T : y <= x
    <3> SUFFICES ASSUME NEW y \in T, x < y PROVE FALSE
      BY <2>1
    <3>1. Number(S, x) < Number(S, y)
      BY <2>1, NumberStrict
    <3>2. QED
      BY <1>1, <1>3, <2>1, <3>1
  <2>3. Prefix(S, x) = T \cup Prefix(L, x) /\ T \cap Prefix(L, x) = {}
    BY <1>2, <2>2 DEF Prefix
  <2>4. IsFiniteSet(Prefix(L, x)) /\ Number(L, x) = Cardinality(Prefix(L, x))
    BY <1>2, <2>1, NumberRange
  <2>5. Cardinality(Prefix(S, x)) = k + Cardinality(Prefix(L, x))
    BY <1>2, <1>3, <2>3, <2>4, DisjointSum
  <2>6. QED
    BY <1>1, <2>1, <2>4, <2>5
<1>6. QED
  BY <1>3, <1>4, <1>5

-----------------------------------------------------------------------------
(* Before the start every row is wrapped with the old key.                 *)
LEMMA MKInvInit == MKInit => MKInv
<1> SUFFICES ASSUME MKInit PROVE MKInv
  OBVIOUS
<1>1. NotRunning \in Resuming /\ ~NotRunning.on
  BY DEF NotRunning, Resuming
<1>2. MKTypes
  BY <1>1 DEF MKInit, MKTypes, Wraps, Phases
<1>3. Unstarted
  BY <1>1 DEF MKInit, Unstarted
<1>4. RowsCounted /\ InStep /\ CutoverComplete
  BY DEF MKInit, RowsCounted, InStep, CutoverComplete
<1>5. QED
  BY <1>2, <1>3, <1>4 DEF MKInv

(* A run that does not move stays sound when rows go, or become good.      *)
LEMMA RunKept ==
    ASSUME NEW S \in SUBSET Row, NEW p \in Rotator, RunSound(p, S),
           run'[p] = run[p], total' = total, Present' \subseteq Present,
           \A x \in S : Good(x) => Good(x)'
    PROVE  RunSound(p, S)'
<1>1. ReadBy(p)' = ReadBy(p)
  BY DEF ReadBy
<1>2. Whole(p, S)' <=> Whole(p, S)
  BY <1>1 DEF Whole
<1>3. AtBegin(p, S)' \subseteq AtBegin(p, S)
  BY <1>1, <1>2 DEF AtBegin
<1>4. QED
  BY <1>1, <1>2, <1>3 DEF RunSound

(* Rows go or become good, and each run stays, ends or is sound anyway.    *)
LEMMA CountKept ==
    ASSUME NEW S \in SUBSET Row, Counted(S), UNCHANGED <<total, done>>, Present' \subseteq Present,
           \A x \in S : Good(x) => Good(x)',
           \A p \in Rotator : run'[p] = run[p] \/ ~run'[p].on \/ RunSound(p, S)'
    PROVE  Counted(S)'
<1>1. \A x \in S : Prefix(S, x) \subseteq Present' /\ Number(S, x) <= done' => Good(x)'
  BY DEF Counted
<1>2. ASSUME NEW p \in Rotator, run'[p].on PROVE RunSound(p, S)'
  <2>1. CASE run'[p] = run[p]
    BY <1>2, <2>1, RunKept DEF Counted
  <2>2. QED
    BY <1>2, <2>1
<1>3. QED
  BY <1>1, <1>2 DEF Counted

(* Runs end and the phase moves on.                                        *)
LEMMA RunsEnd ==
    ASSUME MKInv, UNCHANGED <<wrap, total, done, writes, written, grown, shared>>,
           run' \in [Rotator -> Resuming],
           \A p \in Rotator : run'[p] = run[p] \/ ~run'[p].on,
           phase # "none", phase' \in Phases \ {"none"},
           phase' = "cutover" /\ ~grown => \A x \in Present \ written : wrap[x] = "new"
    PROVE  MKInv'
<1> USE DEF MKInv
<1>1. MKTypes' /\ Unstarted'
  BY DEF MKTypes, Unstarted
<1>2. Present' = Present /\ \A x : Good(x)' <=> Good(x)
  BY DEF Present, Good
<1>3. RowsCounted'
  <2> SUFFICES ASSUME ~grown PROVE \E S \in SUBSET Row : Counted(S)'
    BY DEF RowsCounted
  <2>1. PICK S \in SUBSET Row : Counted(S)
    BY DEF RowsCounted
  <2>2. Counted(S)'
    BY <1>2, <2>1, CountKept
  <2>3. QED
    BY <2>2
<1>4. InStep'
  BY <1>2 DEF InStep
<1>5. CutoverComplete'
  BY <1>2 DEF CutoverComplete
<1>6. QED
  BY <1>1, <1>3, <1>4, <1>5

(* A Resume ends: early, because it fails, or with the cutover, which is   *)
(* reported only when the rows it saw are all there were.                  *)
LEMMA EndSteps ==
    ASSUME MKInv, NEW p \in Rotator, RewrapFails(p) \/ Interrupt(p) \/ Cutover(p)
    PROVE  MKInv'
<1> USE DEF MKInv
<1>1. /\ run[p].on /\ UNCHANGED <<wrap, total, done, writes, written, grown, shared>>
      /\ run' = [run EXCEPT ![p] = NotRunning]
  BY DEF RewrapFails, Interrupt, Cutover, rotVars, serverVars
<1>2. NotRunning \in Resuming /\ ~NotRunning.on
  BY DEF NotRunning, Resuming
<1>3. run' \in [Rotator -> Resuming] /\ \A q \in Rotator : run'[q] = run[q] \/ ~run'[q].on
  BY <1>1, <1>2 DEF MKTypes
<1>4. phase # "none"
  BY <1>1 DEF Unstarted
<1>5. phase' = phase \/ (Cutover(p) /\ phase' = "cutover" /\ Complete(run[p]))
  BY DEF RewrapFails, Interrupt, Cutover, rotVars
<1>6. ASSUME phase' = "cutover", ~grown, NEW x \in Present \ written PROVE wrap[x] = "new"
  <2>1. CASE phase = "cutover"
    BY <1>6, <2>1 DEF CutoverComplete
  <2>2. CASE Cutover(p) /\ Complete(run[p])
    <3>1. PICK S \in SUBSET Row : Counted(S)
      BY <1>4, <1>6 DEF RowsCounted
    <3>2. RunSound(p, S) /\ Present \subseteq S /\ Cardinality(S) = total
      BY <1>1, <3>1 DEF Counted
    <3>3. run[p].list = {} /\ run[p].col > Len(Columns) /\ run[p].seen >= run[p].goal
      BY <2>2 DEF Cutover, Complete
    <3>4. run[p].col = Len(Columns) + 1
      BY <3>2, <3>3, ColumnsAssumption DEF RunSound
    <3>5. S \cap ReadBy(p) = S
      BY <3>4, BeforeFacts DEF ReadBy
    <3>6. run[p].seen \in Nat /\ total \in Nat /\ Cardinality(run[p].list) = 0
      BY <3>3, FS_EmptySet DEF MKTypes, Resuming
    <3>7. run[p].seen = total
      <4>1. run[p].goal = total /\ run[p].seen + Cardinality(run[p].list) <= Cardinality(S \cap ReadBy(p))
        BY <3>2 DEF RunSound
      <4>2. run[p].seen + 0 <= total
        BY <3>2, <3>5, <3>6, <4>1
      <4>3. run[p].seen >= total
        BY <3>3, <4>1
      <4>4. QED
        BY <3>6, <4>2, <4>3
    <3>8. Whole(p, S)
      BY <3>2, <3>5, <3>6, <3>7 DEF Whole
    <3>9. Good(x)
      BY <3>2, <3>3, <3>5, <3>8 DEF RunSound
    <3>10. QED
      BY <3>9 DEF Good
  <2>3. QED
    BY <1>5, <1>6, <2>1, <2>2
<1>7. phase' \in Phases \ {"none"}
  BY <1>4, <1>5 DEF MKTypes, Phases
<1>8. QED
  BY <1>1, <1>3, <1>4, <1>6, <1>7, RunsEnd

(* --confirm-cutover                                                       *)
LEMMA ConfirmKeeps == ASSUME MKInv, ConfirmCutover PROVE MKInv'
<1>1. UNCHANGED <<wrap, total, done, run, writes, written, grown, shared>> /\ phase # "none" /\ phase' = "done"
  BY DEF ConfirmCutover, serverVars
<1>2. run' \in [Rotator -> Resuming] /\ phase' \in Phases \ {"none"}
  BY <1>1 DEF MKInv, MKTypes, Phases
<1>3. QED
  BY <1>1, <1>2, RunsEnd

(* The server writes or deletes a secret.                                  *)
LEMMA ServerKeeps ==
    ASSUME MKInv, NEW r \in Row, ServerWrites(r) \/ ServerDeletes(r) PROVE MKInv'
<1> USE DEF MKInv
<1>1. /\ phase # "none" /\ UNCHANGED <<phase, total, done, run, shared>>
      /\ writes' = writes + 1 /\ writes \in Nat
      /\ written' = written \cup {r} \/ (written' = written /\ wrap' = [wrap EXCEPT ![r] = "absent"])
  BY DEF ServerWrites, ServerDeletes, rotVars, MKTypes
<1>2. PICK v \in Wraps : wrap' = [wrap EXCEPT ![r] = v]
  BY DEF ServerWrites, ServerDeletes, Wraps
<1>3. grown' \in BOOLEAN /\ (~grown' => ~grown /\ r \in Present)
  BY DEF ServerWrites, ServerDeletes, MKTypes
<1>4. MKTypes'
  BY <1>1, <1>2, <1>3 DEF MKTypes
<1>5. Unstarted'
  BY <1>1 DEF Unstarted
<1>6. InStep'
  BY <1>1 DEF InStep
<1>7. \A x \in Row : wrap'[x] = IF x = r THEN v ELSE wrap[x]
  BY <1>2 DEF MKTypes
<1>8. ~grown' => Present' \subseteq Present
  BY <1>3, <1>7 DEF Present
<1>9. Good(r)' /\ \A x \in Row : Good(x) => Good(x)'
  <2>1. r \in written' \/ wrap'[r] = "absent"
    BY <1>1, <1>7 DEF MKTypes
  <2>2. Good(r)'
    BY <2>1 DEF Good, Present
  <2>3. ASSUME NEW x \in Row, x # r, Good(x) PROVE Good(x)'
    <3>1. wrap'[x] = wrap[x] /\ (x \in written => x \in written')
      BY <1>1, <1>7, <2>3
    <3>2. QED
      BY <2>3, <3>1 DEF Good, Present
  <2>4. QED
    BY <2>2, <2>3
<1>10. RowsCounted'
  <2> SUFFICES ASSUME ~grown' PROVE \E S \in SUBSET Row : Counted(S)'
    BY DEF RowsCounted
  <2>1. PICK S \in SUBSET Row : Counted(S)
    BY <1>1, <1>3 DEF RowsCounted
  <2>2. Counted(S)'
    BY <1>1, <1>8, <1>9, <2>1, CountKept
  <2>3. QED
    BY <2>2
<1>11. CutoverComplete'
  <2> SUFFICES ASSUME phase' = "cutover", ~grown', NEW x \in Present' \ written' PROVE wrap'[x] = "new"
    BY DEF CutoverComplete
  <2>1. CASE x = r
    BY <1>9, <2>1 DEF Good
  <2>2. CASE x # r
    <3>1. x \in Row /\ x \in Present /\ x \notin written
      BY <1>1, <1>8 DEF Present
    <3>2. wrap[x] = "new"
      BY <1>1, <1>3, <3>1 DEF CutoverComplete
    <3>3. QED
      BY <1>7, <2>2, <3>1, <3>2
  <2>3. QED
    BY <2>1, <2>2
<1>12. QED
  BY <1>4, <1>5, <1>6, <1>10, <1>11

(* What Begin does to the runs.                                            *)
LEMMA BeginFacts ==
    ASSUME MKTypes, NEW p \in Rotator, NEW f \in Nat, NEW g \in Nat, Begin(p, f, g)
    PROVE  /\ run' \in [Rotator -> Resuming]
           /\ \A q \in Rotator \ {p} : run'[q] = run[q]
           /\ run'[p].on /\ run'[p].col = 1 /\ run'[p].list = {} /\ run'[p].seen = 0
           /\ run'[p].from = f /\ run'[p].goal = g
           /\ shared' \in BOOLEAN /\ (~shared' => ~shared /\ \A q \in Rotator \ {p} : ~run[q].on)
<1> DEFINE b == [NotRunning EXCEPT !.on = TRUE, !.col = 1, !.from = f, !.goal = g]
<1>1. b \in Resuming
  BY DEF NotRunning, Resuming
<1>2. b.on /\ b.col = 1 /\ b.list = {} /\ b.seen = 0 /\ b.from = f /\ b.goal = g
  BY DEF NotRunning
<1>3. run' = [run EXCEPT ![p] = b]
  BY DEF Begin
<1> HIDE DEF b
<1>4. run' \in [Rotator -> Resuming] /\ run'[p] = b /\ \A q \in Rotator \ {p} : run'[q] = run[q]
  BY <1>1, <1>3 DEF MKTypes
<1>5. shared' \in BOOLEAN /\ (~shared' => ~shared /\ \A q \in Rotator \ {p} : ~run[q].on)
  BY DEF Begin
<1>6. QED
  BY <1>2, <1>4, <1>5

(* A run that begins has read no column, and rows_done is how far it may   *)
(* skip.                                                                   *)
LEMMA RunBegins ==
    ASSUME NEW S \in SUBSET Row, NEW p \in Rotator,
           run'[p].col = 1, run'[p].list = {}, run'[p].seen = 0,
           run'[p].goal = total', run'[p].from <= total',
           \A x \in S : Prefix(S, x) \subseteq Present' /\ Number(S, x) <= run'[p].from => Good(x)'
    PROVE  RunSound(p, S)'
<1>1. ReadBy(p)' = {} /\ Cardinality({}) = 0
  BY BeforeFacts, FS_EmptySet DEF ReadBy
<1>2. S \cap {} = {}
  OBVIOUS
<1>3. Whole(p, S)'
  BY <1>1, <1>2 DEF Whole
<1>4. AtBegin(p, S)' = Present'
  BY <1>1 DEF AtBegin
<1>5. 1 \in 1..(Len(Columns) + 1)
  BY ColumnsAssumption
<1>6. 0 + Cardinality({}) <= Cardinality(S \cap {})
  BY <1>1, <1>2
<1>7. QED
  BY <1>1, <1>2, <1>3, <1>4, <1>5, <1>6 DEF RunSound

(* Start counts the rows there are.                                        *)
LEMMA StartKeeps == ASSUME MKInv, NEW p \in Rotator, Start(p) PROVE MKInv'
<1> USE DEF MKInv
<1>1. /\ phase = "none" /\ phase' = "rewrap" /\ total' = Cardinality(Present) /\ done' = 0
      /\ Begin(p, 0, total') /\ UNCHANGED <<wrap, writes, written, grown>>
  BY DEF Start, serverVars
<1>2. /\ \A x \in Row : wrap[x] # "new"
      /\ \A q \in Rotator : ~run[q].on
      /\ writes = 0 /\ written = {} /\ ~grown
  BY <1>1 DEF Unstarted
<1>3. Present \in SUBSET Row /\ Present' = Present
  BY <1>1 DEF Present
<1>4. total' \in Nat
  BY <1>1, <1>3, RowFacts
<1>5. /\ run' \in [Rotator -> Resuming]
      /\ \A q \in Rotator \ {p} : run'[q] = run[q]
      /\ run'[p].on /\ run'[p].col = 1 /\ run'[p].list = {} /\ run'[p].seen = 0
      /\ run'[p].from = 0 /\ run'[p].goal = total'
      /\ shared' \in BOOLEAN
  BY <1>1, <1>4, BeginFacts
<1>6. MKTypes'
  BY <1>1, <1>4, <1>5 DEF MKTypes, Phases
<1>7. Unstarted' /\ CutoverComplete'
  BY <1>1 DEF Unstarted, CutoverComplete
<1>8. \A x \in Present : Number(Present, x) \in Nat /\ ~(Number(Present, x) <= 0)
  BY <1>3, RowFacts, NumberRange
<1>9. Counted(Present)'
  <2>1. RunSound(p, Present)'
    BY <1>3, <1>4, <1>5, <1>8, RunBegins
  <2>2. \A q \in Rotator : run'[q].on => q = p
    BY <1>2, <1>5
  <2>3. QED
    BY <1>1, <1>3, <1>4, <1>8, <2>1, <2>2 DEF Counted
<1>10. RowsCounted'
  BY <1>3, <1>9 DEF RowsCounted
<1>11. InStep'
  <2>1. \A q \in Rotator : run'[q].on => q = p
    BY <1>2, <1>5
  <2>2. \A x \in Present' : wrap'[x] # "new"
    BY <1>1, <1>2, <1>3
  <2>3. QED
    BY <1>1, <1>2, <1>3, <1>5, <2>1, <2>2 DEF InStep
<1>12. QED
  BY <1>6, <1>7, <1>10, <1>11

(* Resume begins at rows_done.                                             *)
LEMMA ResumeKeeps == ASSUME MKInv, NEW p \in Rotator, Resume(p) PROVE MKInv'
<1> USE DEF MKInv
<1>1. /\ phase # "none" /\ ~run[p].on /\ Begin(p, done, total)
      /\ UNCHANGED <<wrap, phase, total, done, writes, written, grown>>
  BY DEF Resume, rotVars, serverVars
<1>2. done \in Nat /\ total \in Nat
  BY DEF MKTypes
<1>3. /\ run' \in [Rotator -> Resuming]
      /\ \A q \in Rotator \ {p} : run'[q] = run[q]
      /\ run'[p].on /\ run'[p].col = 1 /\ run'[p].list = {} /\ run'[p].seen = 0
      /\ run'[p].from = done /\ run'[p].goal = total
      /\ shared' \in BOOLEAN /\ (~shared' => ~shared /\ \A q \in Rotator \ {p} : ~run[q].on)
  BY <1>1, <1>2, BeginFacts
<1>4. MKTypes'
  BY <1>1, <1>2, <1>3 DEF MKTypes
<1>5. Unstarted'
  BY <1>1 DEF Unstarted
<1>6. Present' = Present /\ \A x : Good(x)' <=> Good(x)
  BY <1>1 DEF Present, Good
<1>7. CutoverComplete'
  BY <1>1, <1>6 DEF CutoverComplete
<1>8. RowsCounted'
  <2> SUFFICES ASSUME ~grown PROVE \E S \in SUBSET Row : Counted(S)'
    BY <1>1 DEF RowsCounted
  <2>1. PICK S \in SUBSET Row : Counted(S)
    BY <1>1 DEF RowsCounted
  <2>2. \A x \in S : Prefix(S, x) \subseteq Present' /\ Number(S, x) <= run'[p].from => Good(x)'
    BY <1>3, <1>6, <2>1 DEF Counted
  <2>3. run'[p].goal = total' /\ run'[p].from <= total'
    BY <1>1, <1>3, <2>1 DEF Counted
  <2>4. RunSound(p, S)'
    BY <1>3, <2>2, <2>3, RunBegins
  <2>5. \A q \in Rotator : run'[q] = run[q] \/ ~run'[q].on \/ RunSound(q, S)'
    BY <1>3, <2>4
  <2>6. Counted(S)'
    BY <1>1, <1>6, <2>1, <2>5, CountKept
  <2>7. QED
    BY <2>6
<1>9. InStep'
  <2> SUFFICES ASSUME writes = 0 PROVE InStep'
    BY <1>1 DEF InStep
  <2>1. done = IF done <= 0 THEN 0 ELSE done
    BY <1>2
  <2>2. ~shared' => ~shared /\ \A q \in Rotator : run'[q].on => q = p
    BY <1>3
  <2>3. QED
    BY <1>1, <1>3, <1>6, <2>1, <2>2 DEF InStep
<1>10. QED
  BY <1>4, <1>5, <1>7, <1>8, <1>9

(* The number of a row of column c: the rows of the columns before come    *)
(* first.                                                                  *)
LEMMA NumberInColumn ==
    ASSUME NEW S \in SUBSET Row, NEW c \in 1..Len(Columns), NEW x \in S \cap Columns[c]
    PROVE  /\ S \cap Before(c) \subseteq Prefix(S, x)
           /\ Prefix(S, x) \subseteq (S \cap Before(c)) \cup (S \cap Columns[c])
           /\ Number(S, x) = Cardinality(S \cap Before(c)) + Number(S \cap Columns[c], x)
<1> DEFINE B == S \cap Before(c)
           C == S \cap Columns[c]
<1>1. c \in 1..(Len(Columns) + 1) /\ c + 1 \in 1..(Len(Columns) + 1)
  BY ColumnsAssumption
<1>2. Before(c + 1) = Before(c) \cup Columns[c] /\ Before(c) \cap Columns[c] = {} /\ x \in Row
  BY BeforeFacts
<1>3. \A a \in Before(c) : a < x
  BY <1>1, <1>2, BeforeFacts
<1>4. \A b \in Row \ (Before(c) \cup Columns[c]) : x < b
  BY <1>1, <1>2, BeforeFacts
<1>5. S \in SUBSET Nat /\ IsFiniteSet(S) /\ x \in Nat
  BY RowFacts
<1>6. \A a \in S : a \in Before(c) => a <= x
  BY <1>3, <1>5
<1>7. \A a \in S : a <= x => a \in Before(c) \cup Columns[c]
  BY <1>4, <1>5
<1>8. Prefix(S, x) = B \cup Prefix(C, x) /\ B \cap Prefix(C, x) = {}
  BY <1>2, <1>6, <1>7 DEF Prefix
<1>9. B \in SUBSET S /\ C \in SUBSET S /\ C \in SUBSET Nat /\ x \in C /\ Prefix(C, x) \subseteq C
  BY <1>5 DEF Prefix
<1> HIDE DEF B, C
<1>10. IsFiniteSet(B) /\ IsFiniteSet(C)
  BY <1>5, <1>9, FS_Subset
<1>11. IsFiniteSet(Prefix(C, x)) /\ Number(C, x) = Cardinality(Prefix(C, x))
  BY <1>9, <1>10, NumberRange
<1>12. Number(S, x) = Cardinality(Prefix(S, x))
  BY <1>5, NumberRange
<1>13. Number(S, x) = Cardinality(B) + Number(C, x)
  BY <1>8, <1>10, <1>11, <1>12, DisjointSum
<1>14. QED
  BY <1>8, <1>9, <1>13 DEF B, C

(* A run skips no further than rows_done, and not at all once it is there. *)
LEMMA SkipFacts ==
    ASSUME NEW r \in Resuming, NEW rows \in SUBSET Row
    PROVE  /\ Skipped(r, rows) \in 0..Cardinality(rows)
           /\ r.from <= r.goal => /\ Skipped(r, rows) = 0 \/ r.seen + Skipped(r, rows) <= r.from
                                  /\ Skipped(r, rows) < Cardinality(rows) => r.from <= r.seen + Skipped(r, rows)
<1>1. r.from \in Nat /\ r.goal \in Nat /\ r.seen \in Nat /\ Cardinality(rows) \in Nat
  BY RowFacts DEF Resuming
<1>2. QED
  BY <1>1 DEF Skipped

(* The rows of the column a run reads, how many it skips, what it lists.   *)
ColumnRows(p) == Present \cap Columns[run[p].col]

ColumnSkip(p) == Skipped(run[p], ColumnRows(p))

ColumnList(p) == {x \in ColumnRows(p) : /\ ColumnSkip(p) < Number(ColumnRows(p), x)
                                        /\ run[p].seen + Number(ColumnRows(p), x) <= run[p].goal}

(* What ReadColumn does to the run.                                        *)
LEMMA ReadColumnFacts ==
    ASSUME MKTypes, NEW p \in Rotator, ReadColumn(p)
    PROVE  /\ run[p].on /\ run[p].list = {} /\ run[p].col \in Nat /\ run[p].col <= Len(Columns)
           /\ UNCHANGED <<wrap, phase, total, done, writes, written, grown, shared>>
           /\ \A q \in Rotator \ {p} : run'[q] = run[q]
           /\ run'[p].on /\ run'[p].col = run[p].col + 1 /\ run'[p].list = ColumnList(p)
           /\ run'[p].seen = run[p].seen + ColumnSkip(p)
           /\ run'[p].from = run[p].from /\ run'[p].goal = run[p].goal
           /\ ColumnRows(p) \in SUBSET Row /\ ColumnSkip(p) \in Nat
           /\ run' \in [Rotator -> Resuming]
<1> DEFINE newer == {x \in ColumnList(p) : wrap[x] = "new"}
<1>1. /\ run[p].on /\ run[p].list = {} /\ run[p].col <= Len(Columns)
      /\ UNCHANGED <<wrap, phase, total, done, writes, written, grown, shared>>
      /\ run' = [run EXCEPT ![p].col = @ + 1, ![p].list = ColumnList(p), ![p].newer = newer,
                            ![p].seen = @ + ColumnSkip(p)]
  BY DEF ReadColumn, targetRows, rotVars, serverVars, ColumnList, ColumnSkip, ColumnRows
<1>2. ColumnRows(p) \in SUBSET Row
  BY DEF Present, ColumnRows
<1>3. run \in [Rotator -> Resuming] /\ run[p] \in Resuming
  BY DEF MKTypes
<1>4. ColumnSkip(p) \in Nat
  BY <1>2, <1>3, SkipFacts, RowFacts DEF ColumnSkip
<1>5. ColumnList(p) \in SUBSET Row /\ newer \in SUBSET Row
  BY <1>2 DEF ColumnList
<1> HIDE DEF newer
<1>6. /\ run'[p] = [run[p] EXCEPT !.col = @ + 1, !.list = ColumnList(p), !.newer = newer,
                                  !.seen = @ + ColumnSkip(p)]
      /\ run' = [run EXCEPT ![p] = run'[p]]
  BY <1>1, <1>3
<1>7. /\ run[p].col \in Nat /\ run[p].seen \in Nat
      /\ run'[p].on = run[p].on /\ run'[p].col = run[p].col + 1 /\ run'[p].list = ColumnList(p)
      /\ run'[p].seen = run[p].seen + ColumnSkip(p)
      /\ run'[p].from = run[p].from /\ run'[p].goal = run[p].goal
  BY <1>3, <1>6 DEF Resuming
<1>8. run'[p] \in Resuming
  <2>1. run[p].col + 1 \in Nat /\ run[p].seen + ColumnSkip(p) \in Nat
    BY <1>4, <1>7
  <2>2. QED
    BY <1>3, <1>5, <1>6, <2>1, ZenonT(60) DEF Resuming
<1>9. run' \in [Rotator -> Resuming] /\ \A q \in Rotator \ {p} : run'[q] = run[q]
  BY <1>3, <1>6, <1>8
<1>10. QED
  BY <1>1, <1>2, <1>4, <1>7, <1>9

(* A run that reads a column stays sound.  What it skips rows_done counted *)
(* when it began; the rows it lists are numbered on from what it has seen, *)
(* and no row is beyond rows_total, for rows only went since the start.    *)
LEMMA RunReads ==
    ASSUME MKTypes, NEW p \in Rotator, ReadColumn(p),
           NEW S \in SUBSET Row, Counted(S)
    PROVE  RunSound(p, S)'
<1>1. PICK c : c = run[p].col
  OBVIOUS
<1>2. PICK rows : rows = ColumnRows(p)
  OBVIOUS
<1>3. PICK skip : skip = ColumnSkip(p)
  OBVIOUS
<1> DEFINE B == S \cap Before(c)
           C == S \cap Columns[c]
           L == {x \in rows : skip < Number(rows, x)}
<1>4. /\ run[p].on /\ run[p].list = {} /\ c \in Nat /\ c <= Len(Columns)
      /\ UNCHANGED <<wrap, phase, total, done, writes, written, grown, shared>>
      /\ run'[p].on /\ run'[p].col = c + 1
      /\ run'[p].list = {x \in rows : skip < Number(rows, x) /\ run[p].seen + Number(rows, x) <= run[p].goal}
      /\ run'[p].seen = run[p].seen + skip
      /\ run'[p].from = run[p].from /\ run'[p].goal = run[p].goal
      /\ rows \in SUBSET Row /\ skip \in Nat
  BY <1>1, <1>2, <1>3, ReadColumnFacts DEF ColumnList
<1>5. rows = Present \cap Columns[c] /\ skip = Skipped(run[p], rows)
  BY <1>1, <1>2, <1>3 DEF ColumnRows, ColumnSkip
<1>6. Present' = Present /\ \A x : Good(x)' <=> Good(x)
  BY <1>4 DEF Present, Good
<1>7. RunSound(p, S) /\ Present \subseteq S /\ Cardinality(S) = total
  BY <1>4 DEF Counted
<1>8. c \in 1..Len(Columns) /\ c + 1 \in 1..(Len(Columns) + 1)
  BY <1>1, <1>4, <1>7, ColumnsAssumption DEF RunSound
<1>9. /\ ReadBy(p) = Before(c) /\ ReadBy(p)' = Before(c) \cup Columns[c]
      /\ Before(c) \cap Columns[c] = {} /\ Columns[c] \subseteq Row
  BY <1>1, <1>4, <1>8, BeforeFacts DEF ReadBy
<1>10. /\ S \cap ReadBy(p) = B /\ S \cap ReadBy(p)' = B \cup C /\ B \cap C = {}
       /\ B \in SUBSET Row /\ C \in SUBSET Row /\ B \cup C \in SUBSET S
       /\ rows \in SUBSET C /\ (C \subseteq Present => rows = C)
  BY <1>5, <1>4, <1>7, <1>9
<1>11. /\ run[p] \in Resuming /\ run[p].seen \in Nat /\ run[p].from \in Nat
       /\ run[p].goal = total /\ total \in Nat /\ run[p].from <= total
  BY <1>7 DEF RunSound, MKTypes, Resuming
<1>12. /\ IsFiniteSet(B) /\ IsFiniteSet(C) /\ IsFiniteSet(rows) /\ IsFiniteSet(S) /\ rows \in SUBSET Nat
       /\ Cardinality(B) \in Nat /\ Cardinality(C) \in Nat /\ Cardinality(rows) \in Nat
  BY <1>4, <1>10, RowFacts
<1>13. /\ skip \in 0..Cardinality(rows)
       /\ skip = 0 \/ run[p].seen + skip <= run[p].from
       /\ skip < Cardinality(rows) => run[p].from <= run[p].seen + skip
  BY <1>5, <1>4, <1>11, SkipFacts
<1> HIDE DEF B, C
<1>14. Cardinality(B \cup C) = Cardinality(B) + Cardinality(C)
  BY <1>10, <1>12, DisjointSum
<1>15. Cardinality(B) + Cardinality(C) <= total
  BY <1>7, <1>10, <1>12, <1>14, FS_Subset
<1>16. Cardinality(rows) <= Cardinality(C) /\ (Cardinality(rows) = Cardinality(C) => rows = C)
  BY <1>10, <1>12, FS_Subset
<1>17. run[p].seen <= Cardinality(B) /\ (Whole(p, S) <=> run[p].seen = Cardinality(B))
  <2>1. Cardinality(run[p].list) = 0
    BY <1>4, FS_EmptySet
  <2>2. run[p].seen + Cardinality(run[p].list) <= Cardinality(B)
    BY <1>7, <1>10 DEF RunSound
  <2>3. Whole(p, S) <=> run[p].seen + Cardinality(run[p].list) = Cardinality(B)
    BY <1>10 DEF Whole
  <2>4. QED
    BY <1>11, <2>1, <2>2, <2>3
<1>18. run'[p].list = L
  <2>1. ASSUME NEW x \in rows PROVE run[p].seen + Number(rows, x) <= run[p].goal
    <3>1. Number(rows, x) \in Nat /\ Number(rows, x) <= Cardinality(rows)
      BY <1>12, NumberRange
    <3>2. QED
      BY <1>11, <1>12, <1>15, <1>16, <1>17, <3>1
  <2>2. QED
    BY <1>4, <2>1
<1>19. Cardinality(L) = Cardinality(rows) - skip /\ \A x \in L : Number(rows, x) = skip + Number(L, x)
  BY <1>12, <1>13, NumberRest
<1>20. run'[p].seen + Cardinality(L) = run[p].seen + Cardinality(rows)
  BY <1>4, <1>11, <1>12, <1>19
<1>21. Whole(p, S)' <=> run[p].seen + Cardinality(rows) = Cardinality(B) + Cardinality(C)
  BY <1>10, <1>14, <1>18, <1>20 DEF Whole
<1>22. Whole(p, S)' <=> Whole(p, S) /\ rows = C
  BY <1>11, <1>12, <1>16, <1>17, <1>21
<1>23. rows \subseteq Present /\ AtBegin(p, S) = Present \cup (IF Whole(p, S) THEN B ELSE {})
  BY <1>5, <1>10 DEF AtBegin
<1>24. AtBegin(p, S)' \subseteq AtBegin(p, S)
  BY <1>6, <1>10, <1>22, <1>23 DEF AtBegin
<1>25. \A x \in S : Prefix(S, x) \subseteq AtBegin(p, S) /\ Number(S, x) <= run[p].from => Good(x)
  BY <1>7 DEF RunSound
<1>26. \A x \in rows : Number(rows, x) \in Nat /\ (x \in L \/ Number(rows, x) <= skip)
  BY <1>4, <1>12, NumberRange
<1>27. ASSUME NEW x \in rows, x \notin L, Whole(p, S), Number(C, x) = Number(rows, x),
              Prefix(S, x) \subseteq AtBegin(p, S)
       PROVE  Good(x)
  <2>1. x \in S \cap Columns[c]
    BY <1>10, <1>27 DEF C
  <2>2. Number(S, x) = Cardinality(B) + Number(C, x)
    BY <1>8, <2>1, NumberInColumn DEF B, C
  <2>3. Number(rows, x) <= skip /\ Number(rows, x) \in Nat /\ Number(rows, x) # 0
    BY <1>12, <1>26, <1>27, NumberRange
  <2>4. run[p].seen + skip <= run[p].from
    BY <1>4, <1>13, <2>3
  <2>5. Number(S, x) <= run[p].from
    BY <1>4, <1>11, <1>17, <1>27, <2>2, <2>3, <2>4
  <2>6. QED
    BY <1>25, <1>27, <2>1, <2>5
<1>28. Whole(p, S)' => \A x \in S \cap ReadBy(p)' : x \in L \/ Good(x)
  <2> SUFFICES ASSUME Whole(p, S), rows = C, NEW x \in B \cup C PROVE x \in L \/ Good(x)
    BY <1>10, <1>22
  <2>1. CASE x \in B
    BY <1>4, <1>7, <1>10, <2>1 DEF RunSound
  <2>2. CASE x \in C /\ x \notin L
    <3>1. Prefix(S, x) \subseteq B \cup C
      BY <1>8, <2>2, NumberInColumn DEF B, C
    <3>2. Prefix(S, x) \subseteq AtBegin(p, S)
      BY <1>23, <3>1
    <3>3. QED
      BY <1>27, <2>2, <3>2
  <2>3. QED
    BY <2>1, <2>2
<1>29. ASSUME NEW x \in S \cap ReadBy(p)', Prefix(S, x) \subseteq Present
       PROVE  \/ x \in L /\ Number(S, x) = run'[p].seen + Number(L, x)
              \/ x \notin L /\ Good(x)
  <2>1. CASE x \in B
    <3>1. x \notin L
      BY <1>10, <2>1
    <3>2. x \in S \cap ReadBy(p) /\ x \notin run[p].list
      BY <1>4, <1>10, <2>1
    <3>3. Good(x)
      BY <1>7, <1>29, <3>2 DEF RunSound
    <3>4. QED
      BY <3>1, <3>3
  <2>2. CASE x \in C
    <3>1. B \subseteq Prefix(S, x) /\ Number(S, x) = Cardinality(B) + Number(C, x)
      BY <1>8, <2>2, NumberInColumn DEF B, C
    <3>2. Whole(p, S)
      BY <1>7, <1>10, <1>29, <3>1 DEF RunSound
    <3>3. x \in rows /\ Number(C, x) = Number(rows, x)
      <4>1. x \in Prefix(S, x)
        BY <1>10, <2>2, RowFacts DEF Prefix
      <4>2. {y \in C : y <= x} = {y \in rows : y <= x}
        BY <1>5, <1>7, <1>29 DEF C, Prefix
      <4>3. QED
        BY <1>5, <1>29, <2>2, <4>1, <4>2 DEF Number, C
    <3>4. CASE x \in L
      <4>1. Number(rows, x) = skip + Number(L, x)
        BY <1>19, <3>4
      <4>2. Number(L, x) \in Nat
        <5>1. L \in SUBSET rows
          OBVIOUS
        <5>2. L \in SUBSET Nat /\ IsFiniteSet(L)
          BY <1>12, <5>1, FS_Subset
        <5>3. QED
          BY <3>4, <5>2, NumberRange
      <4>3. Number(S, x) = run'[p].seen + Number(L, x)
        BY <1>4, <1>11, <1>17, <3>1, <3>2, <3>3, <4>1, <4>2
      <4>4. QED
        BY <3>4, <4>3
    <3>5. CASE x \notin L
      <4>1. Prefix(S, x) \subseteq AtBegin(p, S)
        BY <1>23, <1>29
      <4>2. QED
        BY <1>27, <3>2, <3>3, <3>5, <4>1
    <3>6. QED
      BY <3>4, <3>5
  <2>3. QED
    BY <1>10, <1>29, <2>1, <2>2
<1>30. L # {} => run[p].from <= run[p].seen + skip
  <2>1. ASSUME NEW x \in L PROVE skip < Cardinality(rows)
    <3>1. x \in rows /\ skip < Number(rows, x) /\ Number(rows, x) \in 1..Cardinality(rows)
      BY <1>12, NumberRange
    <3>2. QED
      BY <1>4, <1>12, <3>1
  <2>2. QED
    BY <1>13, <2>1
<1>31. L \subseteq S \cap ReadBy(p)'
  BY <1>10
<1>32. run'[p].seen + Cardinality(L) <= Cardinality(S \cap ReadBy(p)')
  <2>1. run[p].seen + Cardinality(rows) <= Cardinality(B) + Cardinality(C)
    BY <1>11, <1>12, <1>16, <1>17
  <2>2. QED
    BY <1>10, <1>14, <1>20, <2>1
<1>33. S \cap ReadBy(p)' \subseteq Present => Whole(p, S)'
  <2> SUFFICES ASSUME B \cup C \subseteq Present PROVE Whole(p, S)'
    BY <1>10
  <2>1. Whole(p, S)
    BY <1>7, <1>10 DEF RunSound
  <2>2. QED
    BY <1>10, <1>22, <2>1
<1>34. QED
  <2> HIDE DEF L
  <2>1. /\ run'[p].col \in 1..(Len(Columns) + 1)
        /\ run'[p].goal = total' /\ run'[p].from <= total'
    BY <1>4, <1>8, <1>11
  <2>2. \A x \in S : Prefix(S, x) \subseteq AtBegin(p, S)' /\ Number(S, x) <= run'[p].from => Good(x)'
    BY <1>4, <1>6, <1>24, <1>25
  <2>3. QED
    BY <1>4, <1>6, <1>18, <1>28, <1>29, <1>30, <1>31, <1>32, <1>33, <2>1, <2>2 DEF RunSound

(* A run reads a column.                                                  *)
LEMMA ReadColumnKeeps == ASSUME MKInv, NEW p \in Rotator, ReadColumn(p) PROVE MKInv'
<1> USE DEF MKInv
<1>1. /\ run[p].on /\ UNCHANGED <<wrap, phase, total, done, writes, written, grown, shared>>
      /\ \A q \in Rotator \ {p} : run'[q] = run[q]
      /\ run'[p].on /\ run'[p].from = run[p].from
      /\ run'[p].seen = run[p].seen + ColumnSkip(p)
      /\ ColumnRows(p) \in SUBSET Row /\ ColumnSkip(p) \in Nat
      /\ run' \in [Rotator -> Resuming]
  BY ReadColumnFacts
<1>2. MKTypes'
  BY <1>1 DEF MKTypes
<1>3. phase # "none"
  BY <1>1 DEF Unstarted
<1>4. Unstarted'
  BY <1>1, <1>3 DEF Unstarted
<1>5. Present' = Present /\ \A x : Good(x)' <=> Good(x)
  BY <1>1 DEF Present, Good
<1>6. CutoverComplete'
  BY <1>1, <1>5 DEF CutoverComplete
<1>7. RowsCounted'
  <2> SUFFICES ASSUME ~grown PROVE \E S \in SUBSET Row : Counted(S)'
    BY <1>1 DEF RowsCounted
  <2>1. PICK S \in SUBSET Row : Counted(S)
    BY <1>3 DEF RowsCounted
  <2>2. \A q \in Rotator : run'[q] = run[q] \/ RunSound(q, S)'
    BY <1>1, <2>1, RunReads
  <2>3. Counted(S)'
    BY <1>1, <1>5, <2>1, <2>2, CountKept
  <2>4. QED
    BY <2>3
<1>8. InStep'
  <2> SUFFICES ASSUME writes = 0, ~shared PROVE
             /\ \A q, q2 \in Rotator : run'[q].on /\ run'[q2].on => q = q2
             /\ \A q \in Rotator : run'[q].on =>
                    done = IF run'[q].from <= run'[q].seen THEN run'[q].seen ELSE run'[q].from
    BY <1>1, <1>3, <1>5 DEF InStep
  <2>1. ~grown /\ \A q, q2 \in Rotator : run[q].on /\ run[q2].on => q = q2
    BY <1>3 DEF InStep
  <2>2. done = IF run[p].from <= run[p].seen THEN run[p].seen ELSE run[p].from
    BY <1>1, <1>3 DEF InStep
  <2>3. \A q \in Rotator : run'[q].on => q = p
    BY <1>1, <2>1
  <2>4. PICK S \in SUBSET Row : Counted(S)
    BY <1>3, <2>1 DEF RowsCounted
  <2>5. run[p].from <= run[p].goal /\ run[p] \in Resuming /\ run[p].from \in Nat /\ run[p].seen \in Nat
    BY <1>1, <2>4 DEF Counted, RunSound, MKTypes, Resuming
  <2>6. PICK skip \in Nat : skip = ColumnSkip(p)
    BY <1>1
  <2>7. /\ skip = 0 \/ run[p].seen + skip <= run[p].from
        /\ run'[p].seen = run[p].seen + skip
    BY <1>1, <2>5, <2>6, SkipFacts DEF ColumnSkip
  <2>8. done = IF run'[p].from <= run'[p].seen THEN run'[p].seen ELSE run'[p].from
    BY <1>1, <2>2, <2>5, <2>7
  <2>9. QED
    BY <2>3, <2>8
<1>9. QED
  BY <1>2, <1>4, <1>6, <1>7, <1>8

(* The first row of a list has number 1, the others move up by one when it *)
(* is done.                                                                *)
LEMMA NumberFirst ==
    ASSUME NEW L \in SUBSET Nat, IsFiniteSet(L), NEW x \in L, \A y \in L : x <= y
    PROVE  /\ Number(L, x) = 1
           /\ IsFiniteSet(L \ {x}) /\ Cardinality(L) = Cardinality(L \ {x}) + 1
           /\ \A y \in L \ {x} : Number(L, y) = Number(L \ {x}, y) + 1
<1>1. IsFiniteSet({x}) /\ Cardinality({x}) = 1
  BY FS_Singleton
<1>2. Prefix(L, x) = {x}
  <2>1. \A y \in L : y <= x => y = x
    OBVIOUS
  <2>2. x <= x
    OBVIOUS
  <2>3. QED
    BY <2>1, <2>2 DEF Prefix
<1>3. Number(L, x) = 1
  BY <1>1, <1>2, NumberRange
<1>4. PICK M : M = L \ {x}
  OBVIOUS
<1>5. M \in SUBSET L /\ M \in SUBSET Nat /\ M \cap {x} = {} /\ M \cup {x} = L
  BY <1>4
<1>6. IsFiniteSet(M)
  BY <1>5, FS_Subset
<1>7. Cardinality(L) = Cardinality(M) + 1
  BY <1>1, <1>5, <1>6, DisjointSum
<1>8. ASSUME NEW y \in M PROVE Number(L, y) = Number(M, y) + 1
  <2>1. Prefix(L, y) = Prefix(M, y) \cup {x} /\ Prefix(M, y) \cap {x} = {}
    BY <1>5 DEF Prefix
  <2>2. IsFiniteSet(Prefix(M, y)) /\ Number(M, y) = Cardinality(Prefix(M, y))
    BY <1>5, <1>6, NumberRange
  <2>3. Number(L, y) = Cardinality(Prefix(L, y))
    BY <1>5, NumberRange
  <2>4. QED
    BY <1>1, <2>1, <2>2, <2>3, DisjointSum
<1>9. QED
  <2>1. \A y \in L \ {x} : Number(L, y) = Number(L \ {x}, y) + 1
    BY <1>4, <1>8
  <2>2. QED
    BY <1>3, <1>4, <1>6, <1>7, <2>1

(* What RewrapRow does to the rows and to the run.                         *)
LEMMA RewrapFacts ==
    ASSUME MKTypes, NEW p \in Rotator, NEW x \in run[p].list, RewrapRow(p, x)
    PROVE  /\ run[p].on /\ x \in Row /\ \A y \in run[p].list : x <= y
           /\ UNCHANGED <<phase, total, writes, written, grown, shared>>
           /\ done' = run[p].seen + 1 /\ run[p].seen \in Nat
           /\ wrap' \in [Row -> Wraps] /\ wrap'[x] # "old" /\ \A y \in Row \ {x} : wrap'[y] = wrap[y]
           /\ Present' = Present
           /\ \A q \in Rotator \ {p} : run'[q] = run[q]
           /\ run'[p].on /\ run'[p].col = run[p].col /\ run'[p].list = run[p].list \ {x}
           /\ run'[p].seen = run[p].seen + 1
           /\ run'[p].from = run[p].from /\ run'[p].goal = run[p].goal
           /\ run' \in [Rotator -> Resuming]
<1>1. /\ run[p].on /\ x \in run[p].list /\ \A y \in run[p].list : x <= y
      /\ wrap' = [wrap EXCEPT ![x] = IF @ = "absent" THEN @ ELSE "new"]
      /\ done' = run[p].seen + 1
      /\ run' = [run EXCEPT ![p].list = @ \ {x}, ![p].seen = @ + 1]
      /\ UNCHANGED <<phase, total, writes, written, grown, shared>>
  BY DEF RewrapRow, Reached, Progress, serverVars
<1>2. run \in [Rotator -> Resuming] /\ run[p] \in Resuming /\ wrap \in [Row -> Wraps]
  BY DEF MKTypes
<1>3. x \in Row /\ run[p].seen \in Nat
  BY <1>1, <1>2 DEF Resuming
<1>4. /\ wrap' \in [Row -> Wraps] /\ \A y \in Row \ {x} : wrap'[y] = wrap[y]
      /\ wrap'[x] = IF wrap[x] = "absent" THEN "absent" ELSE "new"
  BY <1>1, <1>2, <1>3 DEF Wraps
<1>5. Present' = Present
  BY <1>4 DEF Present
<1>6. /\ run'[p] = [run[p] EXCEPT !.list = @ \ {x}, !.seen = @ + 1]
      /\ run' = [run EXCEPT ![p] = run'[p]]
  BY <1>1, <1>2
<1>7. /\ run'[p].on = run[p].on /\ run'[p].col = run[p].col /\ run'[p].list = run[p].list \ {x}
      /\ run'[p].seen = run[p].seen + 1
      /\ run'[p].from = run[p].from /\ run'[p].goal = run[p].goal
  BY <1>2, <1>6 DEF Resuming
<1>8. run'[p] \in Resuming
  <2>1. run[p].seen + 1 \in Nat /\ run[p].list \ {x} \in SUBSET Row
    BY <1>2, <1>3 DEF Resuming
  <2>2. QED
    BY <1>2, <1>6, <2>1, ZenonT(60) DEF Resuming
<1>9. run' \in [Rotator -> Resuming] /\ \A q \in Rotator \ {p} : run'[q] = run[q]
  BY <1>2, <1>6, <1>8
<1>10. QED
  BY <1>1, <1>3, <1>4, <1>5, <1>7, <1>9

(* The row a run rewraps is the next one, and rows_done moves past it.     *)
LEMMA RewrapCounts ==
    ASSUME MKTypes, NEW p \in Rotator, NEW x \in run[p].list, RewrapRow(p, x),
           NEW S \in SUBSET Row, Counted(S)
    PROVE  Counted(S)' /\ (Prefix(S, x) \subseteq Present => Number(S, x) = run[p].seen + 1)
<1>1. /\ run[p].on /\ x \in Row /\ \A y \in run[p].list : x <= y
      /\ UNCHANGED <<phase, total, writes, written, grown, shared>>
      /\ done' = run[p].seen + 1 /\ run[p].seen \in Nat
      /\ wrap'[x] # "old" /\ wrap' \in [Row -> Wraps] /\ \A y \in Row \ {x} : wrap'[y] = wrap[y]
      /\ Present' = Present
      /\ \A q \in Rotator \ {p} : run'[q] = run[q]
      /\ run'[p].on /\ run'[p].col = run[p].col /\ run'[p].list = run[p].list \ {x}
      /\ run'[p].seen = run[p].seen + 1
      /\ run'[p].from = run[p].from /\ run'[p].goal = run[p].goal
  BY RewrapFacts
<1>2. PICK L : L = run[p].list
  OBVIOUS
<1>3. PICK n : n = run[p].seen
  OBVIOUS
<1>4. RunSound(p, S) /\ Present \subseteq S /\ Cardinality(S) = total
  BY <1>1 DEF Counted
<1>5. /\ L \in SUBSET Row /\ x \in L /\ n \in Nat /\ run[p].from \in Nat /\ total \in Nat
      /\ L \subseteq S \cap ReadBy(p) /\ run[p].from <= n
      /\ n + Cardinality(L) <= Cardinality(S \cap ReadBy(p))
  BY <1>1, <1>2, <1>3, <1>4 DEF RunSound, MKTypes, Resuming
<1>6. /\ L \in SUBSET Nat /\ IsFiniteSet(L) /\ Cardinality(L) \in Nat
      /\ S \in SUBSET Nat /\ IsFiniteSet(S)
  BY <1>5, RowFacts
<1>7. /\ Number(L, x) = 1
      /\ IsFiniteSet(L \ {x}) /\ Cardinality(L) = Cardinality(L \ {x}) + 1
      /\ \A y \in L \ {x} : Number(L, y) = Number(L \ {x}, y) + 1
  <2>1. \A y \in L : x <= y
    BY <1>1, <1>2
  <2>2. QED
    BY <1>5, <1>6, <2>1, NumberFirst
<1>8. L \ {x} \in SUBSET Nat /\ Cardinality(L \ {x}) \in Nat
  BY <1>6, <1>7, FS_CardinalityType
<1>9. /\ ReadBy(p)' = ReadBy(p) /\ run'[p].seen + Cardinality(run'[p].list) = n + Cardinality(L)
      /\ (Whole(p, S) <=> n + Cardinality(L) = Cardinality(S \cap ReadBy(p)))
      /\ (Whole(p, S)' <=> Whole(p, S)) /\ AtBegin(p, S)' = AtBegin(p, S)
  <2>1. ReadBy(p)' = ReadBy(p)
    BY <1>1 DEF ReadBy
  <2>2. run'[p].seen + Cardinality(run'[p].list) = n + Cardinality(L)
    BY <1>1, <1>2, <1>3, <1>5, <1>7, <1>8
  <2>3. Whole(p, S) <=> n + Cardinality(L) = Cardinality(S \cap ReadBy(p))
    BY <1>2, <1>3 DEF Whole
  <2>4. Whole(p, S)' <=> Whole(p, S)
    BY <2>1, <2>2, <2>3 DEF Whole
  <2>5. AtBegin(p, S)' = AtBegin(p, S)
    BY <1>1, <2>1, <2>4 DEF AtBegin
  <2>6. QED
    BY <2>1, <2>2, <2>3, <2>4, <2>5
<1>10. Good(x)' /\ \A y \in S : Good(y) => Good(y)'
  <2>1. Good(x)'
    BY <1>1 DEF Good, Present, Wraps
  <2>2. \A y \in S : y # x /\ Good(y) => Good(y)'
    BY <1>1 DEF Good
  <2>3. QED
    BY <2>1, <2>2
<1>11. \A y \in S \cap ReadBy(p) : Prefix(S, y) \subseteq Present =>
          \/ y \in L /\ Number(S, y) = n + Number(L, y)
          \/ y \notin L /\ Good(y)
  BY <1>2, <1>3, <1>4 DEF RunSound
<1>12. RunSound(p, S)'
  <2>1. /\ run'[p].col \in 1..(Len(Columns) + 1)
        /\ run'[p].goal = total' /\ run'[p].from <= total'
        /\ run'[p].list \subseteq S \cap ReadBy(p)'
        /\ S \cap ReadBy(p)' \subseteq Present' => Whole(p, S)'
    BY <1>1, <1>4, <1>9 DEF RunSound
  <2>2. run'[p].from <= run'[p].seen
    BY <1>1, <1>3, <1>5
  <2>3. run'[p].seen + Cardinality(run'[p].list) <= Cardinality(S \cap ReadBy(p)')
    BY <1>5, <1>9
  <2>4. \A y \in S : Prefix(S, y) \subseteq AtBegin(p, S)' /\ Number(S, y) <= run'[p].from => Good(y)'
    BY <1>1, <1>4, <1>9, <1>10 DEF RunSound
  <2>5. Whole(p, S)' => \A y \in S \cap ReadBy(p)' : y \in run'[p].list \/ Good(y)'
    BY <1>1, <1>4, <1>9, <1>10 DEF RunSound
  <2>6. ASSUME NEW y \in S \cap ReadBy(p)', Prefix(S, y) \subseteq Present'
        PROVE  \/ y \in run'[p].list /\ Number(S, y) = run'[p].seen + Number(run'[p].list, y)
               \/ y \notin run'[p].list /\ Good(y)'
    <3>1. CASE y = x \/ y \notin L
      BY <1>1, <1>2, <1>9, <1>10, <1>11, <2>6, <3>1
    <3>2. CASE y \in L \ {x}
      <4>1. Number(S, y) = n + Number(L, y) /\ Number(L, y) = Number(L \ {x}, y) + 1
        BY <1>1, <1>7, <1>9, <1>11, <2>6, <3>2
      <4>2. Number(L \ {x}, y) \in Nat
        BY <1>7, <1>8, <3>2, NumberRange
      <4>3. Number(S, y) = (n + 1) + Number(L \ {x}, y)
        BY <1>5, <4>1, <4>2
      <4>4. QED
        BY <1>1, <1>2, <1>3, <3>2, <4>3
    <3>3. QED
      BY <3>1, <3>2
  <2>7. QED
    BY <2>1, <2>2, <2>3, <2>4, <2>5, <2>6 DEF RunSound
<1>13. \A q \in Rotator : run'[q].on => RunSound(q, S)'
  <2>1. ASSUME NEW q \in Rotator \ {p}, run[q].on PROVE RunSound(q, S)'
    <3>1. RunSound(q, S) /\ run'[q] = run[q]
      BY <1>1, <2>1 DEF Counted
    <3>2. QED
      BY <1>1, <1>10, <3>1, RunKept
  <2>2. QED
    BY <1>1, <1>12, <2>1
<1>14. done' <= total'
  <2>1. Cardinality(S \cap ReadBy(p)) <= total /\ Cardinality(S \cap ReadBy(p)) \in Nat
    <3>1. S \cap ReadBy(p) \in SUBSET S
      OBVIOUS
    <3>2. IsFiniteSet(S \cap ReadBy(p)) /\ Cardinality(S \cap ReadBy(p)) <= Cardinality(S)
      BY <1>6, <3>1, FS_Subset
    <3>3. QED
      BY <1>4, <3>2, FS_CardinalityType
  <2>2. QED
    BY <1>1, <1>3, <1>5, <1>7, <1>8, <2>1
<1>15. ASSUME NEW y \in S, Prefix(S, y) \subseteq Present, Number(S, y) <= n + 1 PROVE Good(y)'
  <2>1. CASE y \in ReadBy(p)
    <3>1. CASE y = x \/ y \notin L
      BY <1>10, <1>11, <1>15, <2>1, <3>1
    <3>2. CASE y \in L \ {x}
      <4>1. Number(S, y) = n + Number(L, y) /\ Number(L, y) = Number(L \ {x}, y) + 1
        BY <1>7, <1>11, <1>15, <2>1, <3>2
      <4>2. Number(L \ {x}, y) \in Nat /\ Number(L \ {x}, y) # 0
        BY <1>7, <1>8, <3>2, NumberRange
      <4>3. QED
        BY <1>5, <1>15, <4>1, <4>2
    <3>3. QED
      BY <3>1, <3>2
  <2>2. CASE y \notin ReadBy(p)
    <3>1. \A a \in S \cap ReadBy(p) : a < y
      BY <1>4, <2>2, BeforeFacts DEF RunSound, ReadBy
    <3>2. PICK D : D = S \cap ReadBy(p)
      OBVIOUS
    <3>3. D \in SUBSET Prefix(S, y) /\ y \in Prefix(S, y) /\ y \notin D
      <4>1. y \in Nat /\ y <= y /\ \A a \in D : a \in S /\ a \in Nat /\ a <= y
        BY <1>6, <3>1, <3>2
      <4>2. QED
        BY <2>2, <3>2, <4>1 DEF Prefix
    <3>4. /\ IsFiniteSet(Prefix(S, y)) /\ Number(S, y) = Cardinality(Prefix(S, y))
          /\ Number(S, y) \in Nat
      BY <1>6, NumberRange
    <3>5. /\ IsFiniteSet(D) /\ Cardinality(D) <= Cardinality(Prefix(S, y))
          /\ Cardinality(D) = Cardinality(Prefix(S, y)) => D = Prefix(S, y)
      BY <3>3, <3>4, FS_Subset
    <3>6. Cardinality(D) \in Nat /\ Cardinality(D) < Number(S, y)
      BY <3>3, <3>4, <3>5, FS_CardinalityType
    <3>7. D \subseteq Present
      BY <1>15, <3>3
    <3>8. n + Cardinality(L) = Cardinality(D)
      BY <1>4, <1>9, <3>2, <3>7 DEF RunSound
    <3>9. QED
      BY <1>5, <1>7, <1>8, <1>15, <3>4, <3>6, <3>8
  <2>3. QED
    BY <2>1, <2>2
<1>16. Counted(S)'
  BY <1>1, <1>3, <1>4, <1>13, <1>14, <1>15 DEF Counted
<1>17. Prefix(S, x) \subseteq Present => Number(S, x) = run[p].seen + 1
  BY <1>3, <1>5, <1>7, <1>11
<1>18. QED
  BY <1>16, <1>17

(* A run rewraps a row: in step, it is the row rows_done now ends with.    *)
LEMMA RewrapKeeps ==
    ASSUME MKInv, NEW p \in Rotator, NEW x \in run[p].list, RewrapRow(p, x) PROVE MKInv'
<1> USE DEF MKInv
<1>1. /\ run[p].on /\ x \in Row
      /\ UNCHANGED <<phase, total, writes, written, grown, shared>>
      /\ done' = run[p].seen + 1 /\ run[p].seen \in Nat
      /\ wrap'[x] # "old" /\ wrap' \in [Row -> Wraps] /\ \A y \in Row \ {x} : wrap'[y] = wrap[y]
      /\ Present' = Present
      /\ \A q \in Rotator \ {p} : run'[q] = run[q]
      /\ run'[p].on /\ run'[p].seen = run[p].seen + 1 /\ run'[p].from = run[p].from
      /\ run' \in [Rotator -> Resuming]
  BY RewrapFacts
<1>2. MKTypes'
  BY <1>1 DEF MKTypes
<1>3. phase # "none"
  BY <1>1 DEF Unstarted
<1>4. Unstarted'
  BY <1>1, <1>3 DEF Unstarted
<1>5. CutoverComplete'
  <2> SUFFICES ASSUME phase = "cutover", ~grown, NEW y \in Present \ written PROVE wrap'[y] = "new"
    BY <1>1 DEF CutoverComplete
  <2>1. wrap[y] = "new" /\ y \in Row
    BY DEF CutoverComplete, Present
  <2>2. y \in Present'
    BY <1>1
  <2>3. QED
    BY <1>1, <2>1, <2>2 DEF Present, Wraps
<1>6. RowsCounted'
  <2> SUFFICES ASSUME ~grown PROVE \E S \in SUBSET Row : Counted(S)'
    BY <1>1 DEF RowsCounted
  <2>1. PICK S \in SUBSET Row : Counted(S)
    BY <1>3 DEF RowsCounted
  <2>2. Counted(S)'
    BY <2>1, RewrapCounts
  <2>3. QED
    BY <2>2
<1>7. InStep'
  <2> SUFFICES ASSUME writes = 0, ~shared PROVE
             /\ \A q, q2 \in Rotator : run'[q].on /\ run'[q2].on => q = q2
             /\ \A q \in Rotator : run'[q].on =>
                    done' = IF run'[q].from <= run'[q].seen THEN run'[q].seen ELSE run'[q].from
             /\ \A y \in Present : wrap'[y] = "new" => Number(Present, y) <= done'
    BY <1>1, <1>3 DEF InStep
  <2>1. /\ ~grown /\ total = Cardinality(Present)
        /\ \A q, q2 \in Rotator : run[q].on /\ run[q2].on => q = q2
        /\ \A y \in Present : wrap[y] = "new" => Number(Present, y) <= done
    BY <1>3 DEF InStep
  <2>2. done = IF run[p].from <= run[p].seen THEN run[p].seen ELSE run[p].from
    BY <1>1, <1>3 DEF InStep
  <2>3. \A q \in Rotator : run'[q].on => q = p
    BY <1>1, <2>1
  <2>4. PICK S \in SUBSET Row : Counted(S)
    BY <1>3, <2>1 DEF RowsCounted
  <2>5. run[p].from <= run[p].seen /\ x \in S /\ run[p].from \in Nat
    BY <1>1, <2>4 DEF Counted, RunSound, MKTypes, Resuming
  <2>6. done' = IF run'[p].from <= run'[p].seen THEN run'[p].seen ELSE run'[p].from
    BY <1>1, <2>5
  <2>7. S = Present
    <3>1. Present \in SUBSET S /\ IsFiniteSet(S) /\ Cardinality(S) = Cardinality(Present)
      BY <2>1, <2>4, RowFacts DEF Counted
    <3>2. QED
      BY <3>1, FS_Subset
  <2>8. Number(Present, x) = done'
    <3>1. Prefix(S, x) \subseteq Present
      BY <2>7 DEF Prefix
    <3>2. Number(S, x) = run[p].seen + 1
      BY <2>4, <3>1, RewrapCounts
    <3>3. QED
      BY <1>1, <2>7, <3>2
  <2>9. ASSUME NEW y \in Present, wrap'[y] = "new" PROVE Number(Present, y) <= done'
    <3>1. Number(Present, y) \in Nat /\ y \in Row
      BY RowFacts, NumberRange DEF Present
    <3>2. CASE y = x
      BY <2>8, <3>1, <3>2
    <3>3. CASE y # x
      <4>1. Number(Present, y) <= done
        BY <1>1, <2>1, <2>9, <3>1, <3>3
      <4>2. QED
        BY <1>1, <2>2, <2>5, <3>1, <4>1
    <3>4. QED
      BY <3>2, <3>3
  <2>10. QED
    BY <2>3, <2>6, <2>9
<1>8. QED
  BY <1>2, <1>4, <1>5, <1>6, <1>7

(* Every step keeps the invariant.                                         *)
LEMMA MKInvStep == MKInv /\ [MKNext]_mkvars => MKInv'
<1> SUFFICES ASSUME MKInv, [MKNext]_mkvars PROVE MKInv'
  OBVIOUS
<1>1. CASE UNCHANGED mkvars
  <2>1. UNCHANGED <<wrap, phase, total, done, run, writes, written, grown, shared>>
    BY <1>1 DEF mkvars, rotVars, serverVars
  <2>2. CASE phase = "none"
    BY <2>1, <2>2 DEF MKInv, MKTypes, Unstarted, RowsCounted, InStep, CutoverComplete
  <2>3. CASE phase # "none"
    <3>1. phase' \in Phases \ {"none"} /\ run' \in [Rotator -> Resuming]
      BY <2>1, <2>3 DEF MKInv, MKTypes
    <3>2. phase' = "cutover" /\ ~grown => \A x \in Present \ written : wrap[x] = "new"
      BY <2>1 DEF MKInv, CutoverComplete
    <3>3. QED
      BY <2>1, <2>3, <3>1, <3>2, RunsEnd
  <2>4. QED
    BY <2>2, <2>3
<1>2. ASSUME NEW p \in Rotator, Start(p) PROVE MKInv'
  BY <1>2, StartKeeps
<1>3. ASSUME NEW p \in Rotator, Resume(p) PROVE MKInv'
  BY <1>3, ResumeKeeps
<1>4. ASSUME NEW p \in Rotator, ReadColumn(p) PROVE MKInv'
  BY <1>4, ReadColumnKeeps
<1>5. ASSUME NEW p \in Rotator, NEW x \in run[p].list, RewrapRow(p, x) PROVE MKInv'
  BY <1>5, RewrapKeeps
<1>6. ASSUME NEW p \in Rotator, RewrapFails(p) \/ Interrupt(p) \/ Cutover(p) PROVE MKInv'
  BY <1>6, EndSteps
<1>7. CASE ConfirmCutover
  BY <1>7, ConfirmKeeps
<1>8. ASSUME NEW r \in Row, ServerWrites(r) \/ ServerDeletes(r) PROVE MKInv'
  BY <1>8, ServerKeeps
<1>9. QED
  BY <1>1, <1>2, <1>3, <1>4, <1>5, <1>6, <1>7, <1>8 DEF MKNext

(* MKInv holds in every reachable state.                                   *)
LEMMA MKInvariant == MKSpec => []MKInv
  BY MKInvInit, MKInvStep, PTL DEF MKSpec

(* For any registered columns and rows, any number of commands and however *)
(* often they are interrupted: while the server writes nothing and one     *)
(* command runs at a time, the rewrapped rows are exactly the first        *)
(* rows_done rows in the order in which Resume visits them.                *)
THEOREM ResumesWhereItStopped == MKSpec => []ResumePoint
<1>1. ASSUME MKInv PROVE ResumePoint
  <2> SUFFICES ASSUME phase # "none", writes = 0, ~shared, NEW x \in Present
               PROVE  wrap[x] = "new" <=> Number(Present, x) <= done
    BY DEF ResumePoint
  <2>1. /\ written = {} /\ ~grown /\ total = Cardinality(Present)
        /\ wrap[x] = "new" => Number(Present, x) <= done
    BY <1>1 DEF MKInv, InStep
  <2>2. PICK S \in SUBSET Row : Counted(S)
    BY <1>1, <2>1 DEF MKInv, RowsCounted
  <2>3. S = Present
    <3>1. Present \in SUBSET S /\ IsFiniteSet(S) /\ Cardinality(S) = Cardinality(Present)
      BY <2>1, <2>2, RowFacts DEF Counted
    <3>2. QED
      BY <3>1, FS_Subset
  <2>4. Number(Present, x) <= done => Good(x)
    BY <2>2, <2>3 DEF Counted, Prefix
  <2>5. QED
    BY <2>1, <2>4 DEF Good
<1>2. QED
  BY <1>1, MKInvariant, PTL

(* For any columns, rows, commands and writes: when Resume reports the     *)
(* cutover and the server added no row, every row it did not write is      *)
(* wrapped with the new key, however many commands resumed the rotation at *)
(* once and whatever rows were deleted under their lists.                  *)
THEOREM CutoverIsComplete == MKSpec => []CutoverComplete
<1>1. MKInv => CutoverComplete
  BY DEF MKInv
<1>2. QED
  BY <1>1, MKInvariant, PTL

-----------------------------------------------------------------------------
(* Every run works towards rows_total and has not got beyond it, whatever  *)
(* the server adds.                                                        *)
WithinTotal ==
    \A p \in Rotator : run[p].on => run[p].goal = total /\ run[p].seen + Cardinality(run[p].list) <= total

(* The strengthening of RotationTypeOK.                                    *)
BoundsInv == RotationTypeOK /\ Unstarted /\ WithinTotal

(* A run that reads a column lists no row beyond rows_total.               *)
LEMMA ListWithinTotal ==
    ASSUME MKTypes, NEW p \in Rotator, ReadColumn(p), WithinTotal
    PROVE  run'[p].seen + Cardinality(run'[p].list) <= total
<1>1. PICK rows : rows = ColumnRows(p)
  OBVIOUS
<1>2. PICK skip : skip = ColumnSkip(p)
  OBVIOUS
<1>3. PICK n : n = run[p].seen
  OBVIOUS
<1>4. /\ run[p].on /\ run[p].list = {} /\ run'[p].seen = n + skip
      /\ run'[p].list = {x \in rows : skip < Number(rows, x) /\ n + Number(rows, x) <= run[p].goal}
      /\ rows \in SUBSET Row /\ skip \in Nat
  BY <1>1, <1>2, <1>3, ReadColumnFacts DEF ColumnList
<1>5. run[p] \in Resuming /\ n \in Nat /\ total \in Nat /\ run[p].from \in Nat
  BY <1>3 DEF MKTypes, Resuming
<1>6. run[p].goal = total /\ n <= total
  <2>1. Cardinality(run[p].list) = 0
    BY <1>4, FS_EmptySet
  <2>2. run[p].goal = total /\ n + Cardinality(run[p].list) <= total
    BY <1>3, <1>4 DEF WithinTotal
  <2>3. QED
    BY <1>5, <2>1, <2>2
<1>7. rows \in SUBSET Nat /\ IsFiniteSet(rows) /\ Cardinality(rows) \in Nat
  BY <1>4, RowFacts
<1>8. skip <= Cardinality(rows) /\ n + skip <= total
  <2>1. skip = Skipped(run[p], rows)
    BY <1>1, <1>2 DEF ColumnSkip
  <2>2. QED
    BY <1>3, <1>5, <1>6, <1>7, <2>1 DEF Skipped
<1>9. PICK m \in Nat : m = IF n + Cardinality(rows) <= total THEN Cardinality(rows) ELSE total - n
  <2>1. total - n \in Nat
    BY <1>5, <1>6
  <2>2. QED
    BY <1>7, <2>1
<1>10. /\ m <= Cardinality(rows) /\ skip <= m /\ n + m <= total
       /\ \A k \in Nat : k <= Cardinality(rows) => (k <= m <=> n + k <= total)
  BY <1>4, <1>5, <1>6, <1>7, <1>8, <1>9
<1>11. PICK T : T = {x \in rows : Number(rows, x) <= skip}
  OBVIOUS
<1>12. PICK U : U = {x \in rows : Number(rows, x) <= m}
  OBVIOUS
<1>13. PICK L : L = run'[p].list
  OBVIOUS
<1>14. \A x \in rows : Number(rows, x) \in Nat /\ Number(rows, x) <= Cardinality(rows)
  BY <1>7, NumberRange
<1>15. \A x \in rows : /\ x \in T <=> Number(rows, x) <= skip
                       /\ x \in U <=> Number(rows, x) <= m
                       /\ x \in L <=> ~(Number(rows, x) <= skip) /\ Number(rows, x) <= m
  BY <1>4, <1>6, <1>10, <1>11, <1>12, <1>13, <1>14
<1>16. /\ U = T \cup L /\ T \cap L = {} /\ U \in SUBSET rows /\ T \in SUBSET rows /\ L \in SUBSET rows
  <2>1. T \in SUBSET rows /\ U \in SUBSET rows /\ L \in SUBSET rows
    BY <1>4, <1>11, <1>12, <1>13
  <2>2. \A x \in rows : x \in T => x \in U
    BY <1>4, <1>10, <1>14, <1>15
  <2>3. QED
    BY <1>15, <2>1, <2>2
<1>17. IsFiniteSet(T) /\ IsFiniteSet(L) /\ Cardinality(L) \in Nat
  BY <1>7, <1>16, FS_Subset, FS_CardinalityType
<1>18. Cardinality(T) = skip /\ Cardinality(U) = m
  <2>1. skip \in 0..Cardinality(rows) /\ m \in 0..Cardinality(rows)
    BY <1>4, <1>7, <1>8, <1>10
  <2>2. QED
    BY <1>7, <1>11, <1>12, <2>1, NumberOnto
<1>19. Cardinality(U) = Cardinality(T) + Cardinality(L)
  BY <1>16, <1>17, DisjointSum
<1>20. QED
  BY <1>4, <1>5, <1>10, <1>13, <1>17, <1>18, <1>19

(* Nothing runs initially.                                                 *)
LEMMA BoundsInit == MKInit => BoundsInv
<1> SUFFICES ASSUME MKInit PROVE BoundsInv
  OBVIOUS
<1>1. MKInv
  BY MKInvInit
<1>2. Cardinality(Row) \in Nat /\ MaxWrites \in Nat
  BY RowFacts, ColumnsAssumption
<1>3. RotationTypeOK
  BY <1>1, <1>2 DEF MKInit, MKInv, MKTypes, RotationTypeOK
<1>4. Unstarted /\ WithinTotal
  BY <1>1 DEF MKInv, Unstarted, WithinTotal, MKInit
<1>5. QED
  BY <1>3, <1>4 DEF BoundsInv

(* Every step keeps the bounds.                                            *)
LEMMA BoundsStep == BoundsInv /\ MKInv /\ MKInv' /\ [MKNext]_mkvars => BoundsInv'
<1> SUFFICES ASSUME BoundsInv, MKInv, MKInv', [MKNext]_mkvars PROVE BoundsInv'
  OBVIOUS
<1>1. MKTypes /\ MKTypes' /\ Unstarted' /\ Unstarted
  BY DEF MKInv
<1>2. /\ Cardinality(Row) \in Nat /\ MaxWrites \in Nat /\ total \in Nat /\ total <= Cardinality(Row)
      /\ done \in Nat /\ done <= total /\ writes \in Nat /\ writes <= MaxWrites /\ WithinTotal
  BY RowFacts, ColumnsAssumption DEF BoundsInv, RotationTypeOK
<1>3. SUFFICES total' <= Cardinality(Row) /\ done' <= total' /\ writes' <= MaxWrites /\ WithinTotal'
  BY <1>1, <1>2 DEF BoundsInv, RotationTypeOK, MKTypes
<1>4. CASE UNCHANGED mkvars
  BY <1>2, <1>4 DEF mkvars, rotVars, serverVars, WithinTotal
<1>5. ASSUME UNCHANGED <<total, done, writes>>, \A q \in Rotator : run'[q] = run[q] \/ ~run'[q].on
      PROVE  total' <= Cardinality(Row) /\ done' <= total' /\ writes' <= MaxWrites /\ WithinTotal'
  BY <1>2, <1>5 DEF WithinTotal
<1>6. ASSUME NEW p \in Rotator, Start(p) \/ Resume(p)
      PROVE  total' <= Cardinality(Row) /\ done' <= total' /\ writes' <= MaxWrites /\ WithinTotal'
  <2>1. Start(p) => total' = Cardinality(Present) /\ \A q \in Rotator : ~run[q].on
    BY <1>1 DEF Start, Unstarted
  <2>2. Present \in SUBSET Row /\ Cardinality(Present) \in Nat /\ Cardinality(Present) <= Cardinality(Row)
    <3>1. Present \in SUBSET Row
      BY DEF Present
    <3>2. QED
      BY <3>1, RowFacts, ColumnsAssumption, FS_Subset
  <2>3. /\ Start(p) \/ total' = total
        /\ writes' = writes /\ done' <= total' /\ total' \in Nat /\ total' <= Cardinality(Row)
    BY <1>2, <1>6, <2>1, <2>2 DEF Start, Resume, rotVars, serverVars
  <2>4. \E f \in Nat : Begin(p, f, total')
    <3>1. CASE Start(p)
      BY <3>1 DEF Start
    <3>2. CASE Resume(p)
      BY <1>2, <3>2 DEF Resume, rotVars
    <3>3. QED
      BY <1>6, <3>1, <3>2
  <2>5. /\ \A q \in Rotator \ {p} : run'[q] = run[q]
        /\ run'[p].goal = total' /\ run'[p].seen = 0 /\ run'[p].list = {}
    <3>1. PICK f \in Nat : Begin(p, f, total')
      BY <2>4
    <3>2. PICK g \in Nat : g = total'
      BY <2>3
    <3>3. QED
      BY <1>1, <3>1, <3>2, BeginFacts
  <2>6. 0 + Cardinality({}) <= total'
    BY <2>3, FS_EmptySet
  <2>7. WithinTotal'
    BY <1>2, <2>1, <2>3, <2>5, <2>6 DEF WithinTotal
  <2>8. QED
    BY <1>2, <2>3, <2>7
<1>7. ASSUME NEW p \in Rotator, ReadColumn(p)
      PROVE  total' <= Cardinality(Row) /\ done' <= total' /\ writes' <= MaxWrites /\ WithinTotal'
  <2>1. run'[p].seen + Cardinality(run'[p].list) <= total
    BY <1>1, <1>2, <1>7, ListWithinTotal
  <2>2. /\ UNCHANGED <<total, done, writes>> /\ run[p].on /\ run'[p].goal = run[p].goal
        /\ \A q \in Rotator \ {p} : run'[q] = run[q]
    BY <1>1, <1>7, ReadColumnFacts
  <2>3. QED
    BY <1>2, <2>1, <2>2 DEF WithinTotal
<1>8. ASSUME NEW p \in Rotator, NEW x \in run[p].list, RewrapRow(p, x)
      PROVE  total' <= Cardinality(Row) /\ done' <= total' /\ writes' <= MaxWrites /\ WithinTotal'
  <2>1. /\ run[p].on /\ \A y \in run[p].list : x <= y
        /\ UNCHANGED <<total, writes>> /\ done' = run[p].seen + 1 /\ run[p].seen \in Nat
        /\ \A q \in Rotator \ {p} : run'[q] = run[q]
        /\ run'[p].goal = run[p].goal /\ run'[p].list = run[p].list \ {x} /\ run'[p].seen = run[p].seen + 1
    BY <1>1, <1>8, RewrapFacts
  <2>2. PICK L : L = run[p].list
    OBVIOUS
  <2>3. L \in SUBSET Row /\ x \in L
    BY <1>1, <1>8, <2>2 DEF MKTypes, Resuming
  <2>4. L \in SUBSET Nat /\ IsFiniteSet(L)
    BY <2>3, RowFacts
  <2>5. IsFiniteSet(L \ {x}) /\ Cardinality(L) = Cardinality(L \ {x}) + 1
    <3>1. \A y \in L : x <= y
      BY <2>1, <2>2
    <3>2. QED
      BY <2>3, <2>4, <3>1, NumberFirst
  <2>6. Cardinality(L \ {x}) \in Nat
    BY <2>5, FS_CardinalityType
  <2>7. run[p].goal = total /\ run[p].seen + Cardinality(L) <= total
    BY <1>2, <2>1, <2>2 DEF WithinTotal
  <2>8. done' <= total' /\ run'[p].seen + Cardinality(run'[p].list) <= total'
    BY <1>2, <2>1, <2>2, <2>5, <2>6, <2>7
  <2>9. WithinTotal'
    BY <1>2, <2>1, <2>7, <2>8 DEF WithinTotal
  <2>10. QED
    BY <1>2, <2>1, <2>8, <2>9
<1>9. ASSUME NEW p \in Rotator, RewrapFails(p) \/ Interrupt(p) \/ Cutover(p)
      PROVE  UNCHANGED <<total, done, writes>> /\ \A q \in Rotator : run'[q] = run[q] \/ ~run'[q].on
  <2>1. UNCHANGED <<total, done, writes>> /\ run' = [run EXCEPT ![p] = NotRunning]
    BY <1>9 DEF RewrapFails, Interrupt, Cutover, rotVars, serverVars
  <2>2. ~NotRunning.on
    BY DEF NotRunning
  <2>3. QED
    BY <1>1, <2>1, <2>2 DEF MKTypes
<1>10. CASE ConfirmCutover
  BY <1>5, <1>10 DEF ConfirmCutover, serverVars
<1>11. ASSUME NEW r \in Row, ServerWrites(r) \/ ServerDeletes(r)
       PROVE  total' <= Cardinality(Row) /\ done' <= total' /\ writes' <= MaxWrites /\ WithinTotal'
  <2>1. UNCHANGED <<total, done, run>> /\ writes < MaxWrites /\ writes' = writes + 1
    BY <1>11 DEF ServerWrites, ServerDeletes, rotVars
  <2>2. QED
    BY <1>2, <2>1 DEF WithinTotal
<1>12. QED
  BY <1>4, <1>5, <1>6, <1>7, <1>8, <1>9, <1>10, <1>11 DEF MKNext

(* Resume never writes more progress than rows_total, even when the server *)
(* adds rows to columns that are still to be read.                         *)
THEOREM RotationTypes == MKSpec => []RotationTypeOK
<1>1. BoundsInv => RotationTypeOK
  BY DEF BoundsInv
<1>2. QED
  BY <1>1, BoundsInit, BoundsStep, MKInvariant, PTL DEF MKSpec

-----------------------------------------------------------------------------
(***************************************************************************)
(* Connections.  ConnInv adds to ConnectionGate what a callback in flight  *)
(* may count on (CallbacksCurrent); PageUsable follows from the types, by  *)
(* a case analysis of the order in which resolvePrimaryMethod looks.       *)
(***************************************************************************)
(* Requests and rows.                                                      *)
Requests ==
    [pc : {"idle", "disabling", "defaulting", "saving", "loaded", "admitted", "google"},
     at : Method \cup {NoMethod}, domain : Domain \cup {Elsewhere}, stale : BOOLEAN]

(* Rows of a connection, and its absence.                                  *)
ConnRows == ConnRow \cup {NoRow}

(* The settings and the requests have their types.                         *)
ConnTypeOK ==
    /\ enabled \subseteq Builtin
    /\ conn \in [Conn -> ConnRows]
    /\ default \in Method \cup {NoMethod}
    /\ request \in [Request -> Requests]

(* A callback that has the credentials of a connection, and was not        *)
(* overtaken, has those of an enabled one.                                 *)
CallbacksCurrent ==
    \A q \in Request :
        /\ request[q].pc \in {"loaded", "admitted"} => request[q].at \in Conn
        /\ request[q].pc = "loaded" /\ ~request[q].stale => Live(request[q].at)
        /\ request[q].pc = "saving" => request[q].at \in Conn
        /\ request[q].pc = "defaulting" => request[q].at \in Method

(* The inductive invariant of the connections.                             *)
ConnInv == ConnTypeOK /\ CallbacksCurrent /\ ConnectionGate

(* Initially nothing is configured.                                        *)
LEMMA ConnInvInit == ConnInit => ConnInv
<1> SUFFICES ASSUME ConnInit PROVE ConnInv
  OBVIOUS
<1>1. ConnTypeOK
  BY DEF ConnInit, ConnTypeOK, ConnRows, Resting, Requests
<1>2. CallbacksCurrent /\ ConnectionGate
  BY DEF ConnInit, CallbacksCurrent, ConnectionGate, Resting
<1>3. QED
  BY <1>1, <1>2 DEF ConnInv

(* A request moves to r, the connections stay.                             *)
LEMMA RequestStep ==
    ASSUME ConnInv, NEW q \in Request, NEW r \in Requests, request' = [request EXCEPT ![q] = r],
           enabled' \subseteq Builtin, default' \in Method \cup {NoMethod}, UNCHANGED conn,
           r.pc \in {"loaded", "admitted", "saving"} => r.at \in Conn,
           r.pc = "loaded" /\ ~r.stale => conn[r.at].on,
           r.pc = "defaulting" => r.at \in Method,
           r.pc = "admitted" /\ ~r.stale =>
               conn[r.at].on /\ (conn[r.at].domains # {} => r.domain \in conn[r.at].domains)
    PROVE  ConnInv'
<1> USE DEF ConnInv
<1>1. ConnTypeOK'
  BY DEF ConnTypeOK
<1>2. ASSUME NEW p \in Request PROVE request'[p] = IF p = q THEN r ELSE request[p]
  BY DEF ConnTypeOK
<1>3. CallbacksCurrent'
  BY <1>2 DEF CallbacksCurrent, Live
<1>4. ConnectionGate'
  BY <1>2 DEF ConnectionGate
<1>5. QED
  BY <1>1, <1>3, <1>4

(* The row of c is written, and the callbacks of c are marked.             *)
LEMMA TouchStep ==
    ASSUME ConnInv, NEW q \in Request, NEW c \in Conn, NEW row \in ConnRows,
           conn' = [conn EXCEPT ![c] = row], EndsTouching(q, c),
           enabled' \subseteq Builtin, default' \in Method \cup {NoMethod}
    PROVE  ConnInv'
<1> USE DEF ConnInv
<1> DEFINE r(p) == IF p = q THEN Resting
                   ELSE IF request[p].at = c /\ request[p].pc \in {"loaded", "admitted"}
                        THEN [request[p] EXCEPT !.stale = TRUE]
                        ELSE request[p]
<1>1. request' = [p \in Request |-> r(p)]
  BY DEF EndsTouching
<1>2. ASSUME NEW p \in Request
      PROVE  /\ r(p) \in Requests
             /\ r(p).pc # "idle" => r(p).pc = request[p].pc /\ r(p).at = request[p].at
                                    /\ r(p).domain = request[p].domain
             /\ r(p).pc \in {"loaded", "admitted"} /\ ~r(p).stale =>
                  r(p).at # c /\ ~request[p].stale
  <2>1. request[p] \in Requests
    BY DEF ConnTypeOK
  <2>2. Resting \in Requests /\ Resting.pc = "idle"
    BY DEF Resting, Requests
  <2>3. QED
    BY <2>1, <2>2 DEF Requests
<1> HIDE DEF r
<1>3. ConnTypeOK'
  BY <1>1, <1>2 DEF ConnTypeOK
<1>4. \A d \in Conn : d # c => conn'[d] = conn[d]
  BY DEF ConnTypeOK
<1>5. CallbacksCurrent'
  BY <1>1, <1>2, <1>4 DEF CallbacksCurrent, Live
<1>6. ConnectionGate'
  BY <1>1, <1>2, <1>4, SMTT(30) DEF CallbacksCurrent, ConnectionGate
<1>7. QED
  BY <1>3, <1>5, <1>6

(* Every step keeps the invariant.                                         *)
LEMMA ConnInvStep == ConnInv /\ [ConnNext]_connvars => ConnInv'
<1> SUFFICES ASSUME ConnInv, [ConnNext]_connvars PROVE ConnInv'
  OBVIOUS
<1>1. Resting \in Requests /\ Resting.pc = "idle" /\ NoRow \in ConnRows
  BY DEF Resting, Requests, ConnRows
<1>2. enabled \subseteq Builtin /\ default \in Method \cup {NoMethod}
  BY DEF ConnInv, ConnTypeOK
<1>3. ASSUME UNCHANGED <<conn, request>>, enabled' \subseteq Builtin, default' \in Method \cup {NoMethod}
      PROVE  ConnInv'
  BY <1>3 DEF ConnInv, ConnTypeOK, CallbacksCurrent, ConnectionGate, Live
<1>4. ASSUME NEW q \in Request, Replies(q), UNCHANGED conn, enabled' \subseteq Builtin,
             default' \in Method \cup {NoMethod}
      PROVE  ConnInv'
  BY <1>1, <1>4, RequestStep DEF Replies
<1>5. ASSUME NEW q \in Request, NEW x \in Method \cup {NoMethod},
             NEW where \in {"disabling", "defaulting", "saving", "loaded", "google"},
             Begins(q, where, x), UNCHANGED confvars,
             where \in {"loaded", "saving"} => x \in Conn,
             where = "defaulting" => x \in Method,
             where = "loaded" => Live(x)
      PROVE  ConnInv'
  <2> DEFINE r == [Resting EXCEPT !.pc = where, !.at = x]
  <2>1. request' = [request EXCEPT ![q] = r] /\ UNCHANGED <<enabled, conn, default>>
    BY <1>5 DEF Begins, confvars
  <2>2. r \in Requests /\ r.pc = where /\ r.at = x
    BY DEF Resting, Requests
  <2>3. where = "loaded" => conn[x].on
    BY <1>5 DEF Live
  <2> HIDE DEF r
  <2>4. QED
    BY <1>2, <1>5, <2>1, <2>2, <2>3, RequestStep
<1>6. ASSUME NEW q \in Request,
             \/ \E m \in Builtin : ReadDefault(q, m)
             \/ \E x \in Method : CheckDefault(q, x)
             \/ \E c \in Kind, bare \in BOOLEAN : LoadSocialRow(q, c, bare)
             \/ \E c \in Conn : Callback(q, c)
             \/ \E c \in Slug : LoadOIDCRow(q, c)
             \/ AuthGoogleCallback(q)
      PROVE  ConnInv'
  BY <1>5, <1>6 DEF ReadDefault, CheckDefault, LoadSocialRow, Callback, LoadOIDCRow,
     AuthGoogleCallback, Method, Conn
<1>7. ASSUME NEW q \in Request, DisableMethod(q) \/ SetDefaultAuthMethod(q) \/ OpenUpstreamSession(q)
                                \/ AbandonRequest(q)
      PROVE  ConnInv'
  <2>1. CASE DisableMethod(q) \/ OpenUpstreamSession(q) \/ AbandonRequest(q)
    BY <1>2, <1>4, <2>1 DEF DisableMethod, OpenUpstreamSession, AbandonRequest, confvars
  <2>2. CASE SetDefaultAuthMethod(q)
    <3>1. request[q].at \in Method
      BY <2>2 DEF SetDefaultAuthMethod, ConnInv, CallbacksCurrent
    <3>2. QED
      BY <1>2, <1>4, <2>2, <3>1 DEF SetDefaultAuthMethod
  <2>3. QED
    BY <1>7, <2>1, <2>2
<1>8. ASSUME NEW q \in Request, NEW d \in Domain \cup {Elsewhere}, LoadPolicy(q, d) PROVE ConnInv'
  <2> DEFINE c == request[q].at
  <2>1. CASE AllowsEmail(conn[c], d)
    <3> DEFINE r == [request[q] EXCEPT !.pc = "admitted", !.domain = d]
    <3>1. /\ request' = [request EXCEPT ![q] = r] /\ UNCHANGED <<enabled, conn, default>>
          /\ request[q].pc = "loaded"
      BY <1>8, <2>1 DEF LoadPolicy, confvars
    <3>2. request[q] \in Requests
      BY DEF ConnInv, ConnTypeOK
    <3>3. /\ r \in Requests /\ r.pc = "admitted" /\ r.domain = d /\ r.at = c
          /\ r.stale = request[q].stale
      BY <3>2 DEF Requests
    <3>4. c \in Conn /\ (~request[q].stale => conn[c].on)
      BY <3>1 DEF ConnInv, CallbacksCurrent, Live
    <3>5. conn[c].domains # {} => d \in conn[c].domains
      BY <2>1 DEF AllowsEmail
    <3> HIDE DEF r
    <3>6. QED
      BY <1>2, <3>1, <3>3, <3>4, <3>5, RequestStep
  <2>2. CASE ~AllowsEmail(conn[c], d)
    BY <1>2, <1>4, <1>8, <2>2 DEF LoadPolicy, confvars
  <2>3. QED
    BY <2>1, <2>2
<1>9. ASSUME NEW q \in Request, NEW row \in ConnRow, SaveSocialConnection(q, row) PROVE ConnInv'
  <2>1. /\ request[q].at \in Conn /\ conn' = [conn EXCEPT ![request[q].at] = row]
        /\ EndsTouching(q, request[q].at) /\ default' = default
    BY <1>9 DEF SaveSocialConnection, Conn
  <2>2. enabled' \subseteq Builtin
    BY <1>2, <1>9 DEF SaveSocialConnection
  <2>3. row \in ConnRows
    BY DEF ConnRows
  <2>4. QED
    BY <1>2, <2>1, <2>2, <2>3, TouchStep
<1>10. ASSUME NEW q \in Request, NEW row \in ConnRow, UpdateOIDCConnection(q, row) PROVE ConnInv'
  <2> DEFINE c == request[q].at
             r == IF conn[c] = NoRow THEN conn[c] ELSE row
  <2>1. c \in Conn /\ EndsTouching(q, c) /\ UNCHANGED <<enabled, default>>
    BY <1>10 DEF UpdateOIDCConnection, Conn
  <2>2. conn' = [conn EXCEPT ![c] = r]
    BY <1>10 DEF UpdateOIDCConnection
  <2>3. r \in ConnRows
    BY <1>1 DEF ConnRows
  <2> HIDE DEF r
  <2>4. QED
    BY <1>2, <2>1, <2>2, <2>3, TouchStep
<1>11. ASSUME NEW q \in Request, \/ \E c \in Kind : DeleteSocialConnection(q, c)
                                 \/ \E c \in Slug : DeleteOIDCConnection(q, c)
       PROVE  ConnInv'
  BY <1>1, <1>2, <1>11, TouchStep DEF DeleteSocialConnection, DeleteOIDCConnection, Conn
<1>12. ASSUME NEW c \in Slug, NEW row \in ConnRow, CreateOIDCConnection(c, row) PROVE ConnInv'
  <2>1. /\ c \in Conn /\ conn[c] = NoRow /\ conn' = [conn EXCEPT ![c] = row]
        /\ UNCHANGED <<enabled, default, request>>
    BY <1>12 DEF CreateOIDCConnection, Conn
  <2>2. ConnTypeOK'
    BY <2>1 DEF ConnInv, ConnTypeOK, ConnRows
  <2>3. \A d \in Conn : conn[d].on => conn'[d] = conn[d]
    BY <2>1 DEF ConnInv, ConnTypeOK, NoRow
  <2>4. CallbacksCurrent'
    BY <2>1, <2>3 DEF ConnInv, CallbacksCurrent, Live
  <2>5. ConnectionGate'
    BY <2>1, <2>3 DEF ConnInv, CallbacksCurrent, ConnectionGate
  <2>6. QED
    BY <2>2, <2>4, <2>5 DEF ConnInv
<1>13. CASE \/ \E m \in Builtin : EnableMethod(m)
            \/ \E on \in BOOLEAN : SaveUpstreamProviderConfig(on)
            \/ \E c \in Conn : SignState(c) \/ StateExpires(c)
            \/ AuthGoogleStart \/ ClearDefault \/ UNCHANGED connvars
  BY <1>2, <1>3, <1>13 DEF EnableMethod, SaveUpstreamProviderConfig, SignState, StateExpires,
     AuthGoogleStart, ClearDefault, connvars, confvars
<1>14. QED
  BY <1>6, <1>7, <1>8, <1>9, <1>10, <1>11, <1>12, <1>13
     DEF ConnNext, AuthSocialStart, HostedSocialStart, AuthOIDCStart, HostedOIDCStart,
         AuthSocialCallback, HostedSocialCallback, AuthOIDCCallback, HostedOIDCCallback, Conn

(* FirstIn finds a member of S if the sequence has one.                    *)
LEMMA FirstOfThree ==
    ASSUME NEW S, NEW a, NEW b, NEW c
    PROVE  IF {a, b, c} \cap S = {} THEN FirstIn(<<a, b, c>>, S) = NoMethod
                                    ELSE FirstIn(<<a, b, c>>, S) \in {a, b, c} \cap S
<1> DEFINE seq == <<a, b, c>>
           hits == {i \in 1..Len(seq) : seq[i] \in S}
<1>1. Len(seq) = 3 /\ seq[1] = a /\ seq[2] = b /\ seq[3] = c
  OBVIOUS
<1>2. hits = {} <=> {a, b, c} \cap S = {}
  BY <1>1
<1>3. hits # {} => \E i \in hits : \A j \in hits : i <= j
  BY <1>1
<1>4. hits # {} => (CHOOSE i \in hits : \A j \in hits : i <= j) \in hits
  BY <1>3
<1>5. \A i \in hits : seq[i] \in {a, b, c} \cap S
  BY <1>1
<1>6. FirstIn(seq, S) = IF hits = {} THEN NoMethod ELSE seq[CHOOSE i \in hits : \A j \in hits : i <= j]
  BY DEF FirstIn
<1> HIDE DEF hits
<1>7. QED
  BY <1>2, <1>4, <1>5, <1>6

(* The same for the five candidates of resolvePrimaryMethod.               *)
LEMMA FirstOfFive ==
    ASSUME NEW S, NEW a, NEW b, NEW c, NEW d, NEW e, {a, b, c, d, e} \cap S # {}
    PROVE  FirstIn(<<a, b, c, d, e>>, S) \in {a, b, c, d, e} \cap S
<1> DEFINE seq == <<a, b, c, d, e>>
           hits == {i \in 1..Len(seq) : seq[i] \in S}
<1>1. Len(seq) = 5 /\ seq[1] = a /\ seq[2] = b /\ seq[3] = c /\ seq[4] = d /\ seq[5] = e
  OBVIOUS
<1>2. hits # {}
  BY <1>1
<1>3. \E i \in hits : \A j \in hits : i <= j
  BY <1>1, <1>2
<1>4. (CHOOSE i \in hits : \A j \in hits : i <= j) \in hits
  BY <1>3
<1>5. \A i \in hits : seq[i] \in {a, b, c, d, e} \cap S
  BY <1>1
<1>6. FirstIn(seq, S) = seq[CHOOSE i \in hits : \A j \in hits : i <= j]
  BY <1>2 DEF FirstIn
<1> HIDE DEF hits
<1>7. QED
  BY <1>4, <1>5, <1>6

(* Whatever the settings are, the page leads with a way in that it offers. *)
LEMMA PageLeads == ConnTypeOK => PageUsable
<1> SUFFICES ASSUME ConnTypeOK, AnyMethodEnabled
             PROVE  resolvePrimaryMethod \in hostedPageData \cup Unshown
  BY DEF PageUsable
<1> DEFINE t1 == IF primaryMethodAvailable(default) THEN default ELSE NoMethod
           t2 == FirstIn(<<"passkey", "password", "magic_link">>, enabled)
           t3 == AnyOf({c \in Kind : Live(c)})
           t4 == AnyOf({c \in Slug : Live(c)})
           t5 == FirstIn(<<"google", "totp", "oidc_upstream">>, enabled)
           Shown == hostedPageData \cup Unshown
<1>1. NoMethod \notin Method /\ enabled \subseteq Method /\ Conn \subseteq Method
  BY ConnectionsAssumption DEF ConnTypeOK, Method, Conn
<1>2. enabled \subseteq Shown
  BY ConnectionsAssumption DEF ConnTypeOK, hostedPageData, Unshown
<1>3. \A c \in Conn : Live(c) => c \in Shown
  BY DEF Conn, hostedPageData, buildSocialButtons, buildOIDCButtons, Unshown
<1>4. t1 \in Method => t1 \in Shown
  BY <1>1, <1>2, <1>3 DEF primaryMethodAvailable, defaultMethodEnabled
<1>5. /\ t2 = NoMethod \/ t2 \in enabled
      /\ t5 = NoMethod \/ t5 \in enabled
      /\ enabled # {} => t2 \in enabled \/ t5 \in enabled
  <2>1. enabled # {} => \/ {"passkey", "password", "magic_link"} \cap enabled # {}
                        \/ {"google", "totp", "oidc_upstream"} \cap enabled # {}
    BY ConnectionsAssumption DEF ConnTypeOK
  <2>2. IF {"passkey", "password", "magic_link"} \cap enabled = {} THEN t2 = NoMethod ELSE t2 \in enabled
    BY FirstOfThree
  <2>3. IF {"google", "totp", "oidc_upstream"} \cap enabled = {} THEN t5 = NoMethod ELSE t5 \in enabled
    BY FirstOfThree
  <2> HIDE DEF t2, t5
  <2>4. QED
    BY <2>1, <2>2, <2>3
<1>6. /\ t3 = NoMethod \/ (t3 \in Kind /\ Live(t3))
      /\ t4 = NoMethod \/ (t4 \in Slug /\ Live(t4))
      /\ (\E c \in Conn : Live(c)) => t3 # NoMethod \/ t4 # NoMethod
  <2>1. \A S : S # {} => AnyOf(S) \in S
    BY DEF AnyOf
  <2>2. AnyOf({}) = NoMethod
    BY DEF AnyOf
  <2>3. Kind \subseteq Method /\ Slug \subseteq Method /\ Conn = Kind \cup Slug
    BY DEF Method, Conn
  <2>4. t3 = NoMethod \/ (t3 \in Kind /\ Live(t3))
    BY <2>1, <2>2
  <2>5. t4 = NoMethod \/ (t4 \in Slug /\ Live(t4))
    BY <2>1, <2>2
  <2>6. ASSUME NEW c \in Conn, Live(c) PROVE t3 # NoMethod \/ t4 # NoMethod
    <3>1. CASE c \in Kind
      <4>1. t3 \in {k \in Kind : Live(k)}
        BY <2>1, <2>6, <3>1
      <4>2. QED
        BY <1>1, <2>3, <4>1
    <3>2. CASE c \in Slug
      <4>1. t4 \in {k \in Slug : Live(k)}
        BY <2>1, <2>6, <3>2
      <4>2. QED
        BY <1>1, <2>3, <4>1
    <3>3. QED
      BY <2>3, <3>1, <3>2
  <2>7. QED
    BY <2>4, <2>5, <2>6
<1>7. resolvePrimaryMethod = FirstIn(<<t1, t2, t3, t4, t5>>, Method)
  BY DEF resolvePrimaryMethod
<1>8. Kind \subseteq Conn /\ Slug \subseteq Conn
  BY DEF Conn
<1> HIDE DEF t1, t2, t3, t4, t5, Shown
<1>9. {t1, t2, t3, t4, t5} \cap Method # {}
  BY <1>1, <1>5, <1>6, <1>8 DEF AnyMethodEnabled
<1>10. resolvePrimaryMethod \in {t1, t2, t3, t4, t5} \cap Method
  BY <1>7, <1>9, FirstOfFive
<1>11. resolvePrimaryMethod \in Shown
  BY <1>1, <1>2, <1>3, <1>4, <1>5, <1>6, <1>8, <1>10
<1>12. QED
  BY <1>11 DEF Shown

(* An upstream sign-in that was not overtaken by a change of its           *)
(* connection went through an enabled one whose allow-list admits it.      *)
THEOREM UpstreamIsGated == ConnSpec => []ConnectionGate
<1>1. ConnInv => ConnectionGate
  BY DEF ConnInv
<1>2. QED
  BY <1>1, ConnInvInit, ConnInvStep, PTL DEF ConnSpec

(* The sign-in page of a tenant is never left without a way in that it     *)
(* shows while one is enabled, in whatever order settings are saved.       *)
THEOREM PageStaysUsable == ConnSpec => []PageUsable
<1>1. ConnInv => PageUsable
  BY PageLeads DEF ConnInv
<1>2. QED
  BY <1>1, ConnInvInit, ConnInvStep, PTL DEF ConnSpec

=============================================================================
