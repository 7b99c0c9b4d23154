----------------------------- MODULE SigningKeys -----------------------------
(***************************************************************************)
(* The signing keys of one tenant and the life cycle of the tenant:        *)
(*   internal/oidc/rotation.go             ForceRotate, RotateDue          *)
(*   internal/httpserver/signing_key_handlers.go  forceRotateSigningKey    *)
(*   internal/httpserver/handlers.go       createTenant,                   *)
(*       scheduleTenantDeletion, cancelTenantDeletion,                     *)
(*       RunTenantDeletionCleanup                                          *)
(*   internal/oidc/provider.go             SigningKeys, activeSigningKey   *)
(*   cmd/cypra/main.go                     adminRotateKey                  *)
(* Keys of different tenants never meet (kid is <tenant>:<seq>), so one    *)
(* tenant is modelled and a key is its sequence number.                    *)
(*                                                                         *)
(* Rotations, deletions and sweeps run in transactions of their own, from  *)
(* the hourly tickers, the dashboard and the command line.  At READ        *)
(* COMMITTED an UPDATE sees the rows committed when it starts (seen),      *)
(* waits for those another transaction has updated, and re-evaluates its   *)
(* WHERE clause on them; rows inserted meanwhile are not seen.  The unique *)
(* indexes on kid, on the active and on the overlap key of a tenant make a *)
(* statement fail, which rolls its transaction back.                       *)
(*                                                                         *)
(* The clock runs on while a job is under way.  A rotation writes the time *)
(* it read before it began its transaction, a deletion and a cancellation  *)
(* the time their transaction began (now() of PostgreSQL), and the cleanup *)
(* compares with a cutoff older than its list (at).                        *)
(***************************************************************************)
EXTENDS Naturals, FiniteSets

CONSTANTS
    Proc,        \* jobs and requests that can be in flight at once
    MaxKid,      \* bound on the number of keys
    MaxTime,     \* bound on the clock
    Interval,    \* 90 days between rotations
    Overlap,     \* 30 days an old key stays published
    Sunset,      \* 30 days keys of a deleted tenant stay published
    Cancellable, \* 7 days a deletion can be cancelled
    HardDelete,  \* 30 days until the tenant may be removed
    Patience     \* a deletion or cancellation request is open no longer: 11 days would do

ASSUME KeyTimesAssumption ==
    /\ {MaxKid, MaxTime, Interval, Overlap, Sunset, Cancellable, HardDelete, Patience} \subseteq Nat
    /\ MaxKid > 0 /\ Cancellable > 0
    /\ Cancellable + 2 * Patience <= Sunset /\ Cancellable + Patience <= HardDelete

VARIABLES
    now,     \* the clock
    key,     \* the rows of oidc_signing_keys
    tenant,  \* the tenant's row: existence and deletion settings
    job,     \* the transaction each process runs
    owed,    \* history: until when a key must be published
    crossed  \* history: the active key's rotation read the clock before an
             \* earlier one did

vars == <<now, key, tenant, job, owed, crossed>>

Kid == 1..MaxKid

States == {"active", "overlap", "retired", "sunsetting", "absent"}

Absent == [state |-> "absent", activated |-> 0, until |-> 0]

(* until is retires_at, and sunset_until for a sunsetting key.             *)
KeyRow == [state : States, activated : Nat, until : Nat]

(***************************************************************************)
(* pc: "due" RotateDue has listed the tenant or the rotation was asked     *)
(* for; "started" ForceRotate has read the clock; "retiring" and "moving"  *)
(* its first and its second UPDATE have started; "retired" and "moved"     *)
(* they are done; "sweep" the last UPDATE of RotateDue is next; "opened"   *)
(* the transaction of scheduleTenantDeletion has begun, "scheduling" its   *)
(* UPDATE of the keys has started; "cancelling" the transaction of         *)
(* cancelTenantDeletion has begun; "purging" the cleanup has listed the    *)
(* tenant.  old and cur are the rows ForceRotate has updated.  History:    *)
(* overtaken, a rotation that read the clock later has committed.          *)
(***************************************************************************)
Rotating == {"started", "retiring", "retired", "moving", "moved"}

Open == {"opened", "scheduling", "cancelling"}

Places == {"idle", "due", "sweep", "purging"} \cup Rotating \cup Open

Job == [pc : Places, ticker : BOOLEAN, at : Nat, seen : SUBSET Kid,
        old : SUBSET Kid, cur : SUBSET Kid, overtaken : BOOLEAN]

NoJob == [pc |-> "idle", ticker |-> FALSE, at |-> 0, seen |-> {},
          old |-> {}, cur |-> {}, overtaken |-> FALSE]

Rows == {k \in Kid : key[k].state # "absent"}

InState(s) == {k \in Kid : key[k].state = s}

(* The rows other transactions have updated and not committed.             *)
LockedByOthers(p) == UNION {job[q].old \cup job[q].cur : q \in Proc \ {p}}

(* createTenant: the tenant and its first key in one transaction.          *)
Init ==
    /\ now = 0
    /\ key = [k \in Kid |-> IF k = 1 THEN [state |-> "active", activated |-> 0, until |-> Interval]
                                     ELSE Absent]
    /\ tenant = [exists |-> TRUE, scheduled |-> FALSE, cancelUntil |-> 0, hardAfter |-> 0]
    /\ job = [p \in Proc |-> NoJob]
    /\ owed = [k \in Kid |-> 0]
    /\ crossed = FALSE

-----------------------------------------------------------------------------
(* RotateDue: select the tenants whose active key is due.                  *)
ListDue(p) ==
    /\ job[p].pc = "idle"
    /\ LET due == \E k \in InState("active") : key[k].activated + Interval <= now
       IN  job' = [job EXCEPT ![p] = [NoJob EXCEPT !.ticker = TRUE,
                                      !.pc = IF due THEN "due" ELSE "sweep"]]
    /\ UNCHANGED <<now, key, tenant, owed, crossed>>

(* forceRotateSigningKey: the kid typed in the dashboard is the active     *)
(* one.                                                                    *)
Confirm(p) ==
    /\ job[p].pc = "idle"
    /\ tenant.exists
    /\ InState("active") # {}
    /\ job' = [job EXCEPT ![p] = [NoJob EXCEPT !.pc = "due"]]
    /\ UNCHANGED <<now, key, tenant, owed, crossed>>

(* adminRotateKey: the command line asks for no confirmation.              *)
AdminRotateKey(p) ==
    /\ job[p].pc = "idle"
    /\ tenant.exists
    /\ job' = [job EXCEPT ![p] = [NoJob EXCEPT !.pc = "due"]]
    /\ UNCHANGED <<now, key, tenant, owed, crossed>>

(* ForceRotate: now := s.now().                                            *)
StartRotate(p) ==
    /\ job[p].pc = "due"
    /\ job' = [job EXCEPT ![p].pc = "started", ![p].at = now]
    /\ UNCHANGED <<now, key, tenant, owed, crossed>>

(* The transaction begins, and the UPDATE of the overlap key starts.       *)
BeginRotate(p) ==
    /\ job[p].pc = "started"
    /\ job' = [job EXCEPT ![p].pc = "retiring", ![p].seen = InState("overlap")]
    /\ UNCHANGED <<now, key, tenant, owed, crossed>>

RetireOverlap(p) ==
    /\ job[p].pc = "retiring"
    /\ job[p].seen \cap LockedByOthers(p) = {}
    /\ job' = [job EXCEPT ![p].pc = "retired", ![p].seen = {},
                          ![p].old = job[p].seen \cap InState("overlap")]
    /\ UNCHANGED <<now, key, tenant, owed, crossed>>

(* The UPDATE of the active key starts.                                    *)
SeeActive(p) ==
    /\ job[p].pc = "retired"
    /\ job' = [job EXCEPT ![p].pc = "moving", ![p].seen = InState("active")]
    /\ UNCHANGED <<now, key, tenant, owed, crossed>>

(* The unique index on the overlap key admits the moved key only if this   *)
(* transaction has retired the one before it.                              *)
MoveActive(p) ==
    LET moved == job[p].seen \cap InState("active")
    IN  /\ job[p].pc = "moving"
        /\ job[p].seen \cap LockedByOthers(p) = {}
        /\ job' = [job EXCEPT ![p] =
                     IF moved # {} /\ ~(InState("overlap") \subseteq job[p].old)
                     THEN NoJob
                     ELSE [job[p] EXCEPT !.pc = "moved", !.seen = {}, !.cur = moved]]
        /\ UNCHANGED <<now, key, tenant, owed, crossed>>

NextSequence == Cardinality(Rows) + 1

(* Fault: the new key is inserted as a second overlap key.                 *)
Rotated_NotActivated(p, k) ==
    CASE k \in job[p].old -> [key[k] EXCEPT !.state = "retired"]
      [] k \in job[p].cur -> [key[k] EXCEPT !.state = "overlap", !.until = job[p].at + Overlap]
      [] k = NextSequence -> [state |-> "overlap", activated |-> job[p].at,
                              until |-> job[p].at + Interval]
      [] OTHER -> key[k]

(* The rows after ForceRotate commits.                                     *)
Rotated(p, k) ==
    CASE k \in job[p].old -> [key[k] EXCEPT !.state = "retired"]
      [] k \in job[p].cur -> [key[k] EXCEPT !.state = "overlap", !.until = job[p].at + Overlap]
      [] k = NextSequence -> [state |-> "active", activated |-> job[p].at,
                              until |-> job[p].at + Interval]
      [] OTHER -> key[k]

(* The tenant row is there, the kid is free, no other key is active.       *)
CanInsert(p) ==
    /\ tenant.exists
    /\ NextSequence \in Kid \ Rows
    /\ InState("active") \subseteq job[p].cur

(* q rotates too and has read an earlier time than p, which commits first. *)
Overtakes(p, q) == job[q].pc \in Rotating /\ job[q].at < job[p].at

InsertActive(p) ==
    /\ job[p].pc = "moved"
    /\ CanInsert(p)
    /\ key' = [k \in Kid |-> Rotated(p, k)]
    /\ job' = [q \in Proc |-> IF q # p THEN [job[q] EXCEPT !.overtaken = @ \/ Overtakes(p, q)]
                              ELSE IF job[p].ticker THEN [NoJob EXCEPT !.pc = "sweep"]
                              ELSE NoJob]
    /\ crossed' = job[p].overtaken
    /\ UNCHANGED <<now, tenant, owed>>

InsertFails(p) ==
    /\ job[p].pc = "moved"
    /\ ~CanInsert(p)
    /\ job' = [job EXCEPT ![p] = NoJob]
    /\ UNCHANGED <<now, key, tenant, owed, crossed>>

(* RotateDue: retire the overlap keys whose window is over.  With a time   *)
(* read too early for that it would change nothing, as Abort does.         *)
SweepOverlap(p) ==
    LET done == {k \in InState("overlap") : key[k].until <= now}
    IN  /\ job[p].pc = "sweep"
        /\ done \cap LockedByOthers(p) = {}
        /\ key' = [k \in Kid |-> IF k \in done THEN [key[k] EXCEPT !.state = "retired"]
                                               ELSE key[k]]
        /\ job' = [job EXCEPT ![p] = NoJob]
        /\ UNCHANGED <<now, tenant, owed, crossed>>

-----------------------------------------------------------------------------
(* scheduleTenantDeletion: the tenant is there and the transaction begins; *)
(* sessions and refresh tokens are revoked first.                          *)
OpenSchedule(p) ==
    /\ job[p].pc = "idle"
    /\ tenant.exists
    /\ job' = [job EXCEPT ![p] = [NoJob EXCEPT !.pc = "opened", !.at = now]]
    /\ UNCHANGED <<now, key, tenant, owed, crossed>>

(* The UPDATE of the keys starts.                                          *)
BeginSchedule(p) ==
    /\ job[p].pc = "opened"
    /\ job' = [job EXCEPT ![p].pc = "scheduling", ![p].seen = Rows \ InState("sunsetting")]
    /\ UNCHANGED <<now, key, tenant, owed, crossed>>

(* Only sunsetting rows have a sunset_until, so COALESCE takes the new one. *)
CommitSchedule(p) ==
    LET hit == job[p].seen \cap (Rows \ InState("sunsetting"))
        end == job[p].at + Sunset
    IN  /\ job[p].pc = "scheduling"
        /\ job[p].seen \cap LockedByOthers(p) = {}
        /\ key' = [k \in Kid |-> IF k \in hit
                                 THEN [key[k] EXCEPT !.state = "sunsetting", !.until = end]
                                 ELSE key[k]]
        /\ tenant' = IF tenant.exists
                     THEN [exists |-> TRUE, scheduled |-> TRUE,
                           cancelUntil |-> job[p].at + Cancellable,
                           hardAfter |-> job[p].at + HardDelete]
                     ELSE tenant
        /\ job' = [job EXCEPT ![p] = NoJob]
        /\ owed' = [k \in Kid |-> IF k \in hit /\ key[k].state \in {"active", "overlap"}
                                  THEN end ELSE owed[k]]
        /\ UNCHANGED <<now, crossed>>

Newest(S) == {k \in S : \A j \in S : key[j].activated <= key[k].activated}

(* Fault: every sunsetting key retires, the newest one too.                *)
Restored_AllRetired(k, new) ==
    IF k \in InState("sunsetting") THEN [key[k] EXCEPT !.state = "retired"] ELSE key[k]

(* The rows after cancelTenantDeletion.                                    *)
Restored(k, new) ==
    CASE k = new -> [key[k] EXCEPT !.state = "active"]
      [] k \in InState("sunsetting") \ {new} -> [key[k] EXCEPT !.state = "retired"]
      [] OTHER -> key[k]

(* cancelTenantDeletion: the transaction begins.                           *)
OpenCancel(p) ==
    /\ job[p].pc = "idle"
    /\ job' = [job EXCEPT ![p] = [NoJob EXCEPT !.pc = "cancelling", !.at = now]]
    /\ UNCHANGED <<now, key, tenant, owed, crossed>>

(* The newest sunsetting key signs again, the others retire.  It fails on  *)
(* the unique index if a key is active.                                    *)
CancelDeletion(p) ==
    /\ job[p].pc = "cancelling"
    /\ tenant.exists /\ tenant.scheduled /\ tenant.cancelUntil > job[p].at
    /\ InState("sunsetting") # {} => InState("active") = {}
    /\ tenant' = [tenant EXCEPT !.scheduled = FALSE, !.cancelUntil = 0, !.hardAfter = 0]
    /\ \/ /\ InState("sunsetting") = {}
          /\ UNCHANGED <<key, crossed>>
       \/ \E new \in Newest(InState("sunsetting")) :
             /\ key' = [k \in Kid |-> Restored(k, new)]
             /\ crossed' = FALSE
    /\ owed' = [k \in Kid |-> 0]
    /\ job' = [job EXCEPT ![p] = NoJob]
    /\ UNCHANGED now

(* RunTenantDeletionCleanup: select the tenants whose window had elapsed   *)
(* at the cutoff, the time of the tick that started it.                    *)
ListExpired(p) ==
    /\ job[p].pc = "idle"
    /\ tenant.exists /\ tenant.scheduled
    /\ \E cutoff \in tenant.hardAfter..now :
          job' = [job EXCEPT ![p] = [NoJob EXCEPT !.pc = "purging", !.at = cutoff]]
    /\ UNCHANGED <<now, key, tenant, owed, crossed>>

(* Fault: keys are deleted without looking at sunset_until.                *)
Sunken_Any(cutoff) == InState("sunsetting")

Sunken(cutoff) == {k \in InState("sunsetting") : key[k].until <= cutoff}

(* Fault: the tenant is deleted whatever keys it has.                      *)
Unkeyed_Always(deleted) == TRUE

(* NOT EXISTS (SELECT 1 FROM oidc_signing_keys WHERE tenant_id = $1)       *)
Unkeyed(deleted) == Rows \subseteq deleted

(* RunTenantDeletionCleanup: delete the keys whose sunset is over, and the *)
(* tenant if no key is left.  A row that comes back under the kid of a     *)
(* deleted one is a new row to the UPDATEs that have started.              *)
PurgeTenant(p) ==
    LET deleted == Sunken(job[p].at)
        remove  == Unkeyed(deleted)
    IN  /\ job[p].pc = "purging"
        /\ deleted \cap LockedByOthers(p) = {}
        /\ key' = [k \in Kid |-> IF k \in deleted THEN Absent ELSE key[k]]
        /\ tenant' = [tenant EXCEPT !.exists = @ /\ ~remove,
                                    !.scheduled = @ /\ ~remove]
        /\ job' = [q \in Proc |-> IF q = p THEN NoJob
                                  ELSE [job[q] EXCEPT !.seen = @ \ deleted]]
        /\ UNCHANGED <<now, owed, crossed>>

(* A failure rolls the transaction of the job back.                        *)
Abort(p) ==
    /\ job[p].pc # "idle"
    /\ job' = [job EXCEPT ![p] = NoJob]
    /\ UNCHANGED <<now, key, tenant, owed, crossed>>

(* Time passes, in the middle of jobs too; requests that schedule or       *)
(* cancel a deletion end before their Patience is over.                    *)
Tick ==
    /\ now < MaxTime
    /\ \A p \in Proc : job[p].pc \in Open => now < job[p].at + Patience
    /\ now' = now + 1
    /\ UNCHANGED <<key, tenant, job, owed, crossed>>

Next ==
    \/ \E p \in Proc :
          \/ ListDue(p) \/ Confirm(p) \/ AdminRotateKey(p)
          \/ StartRotate(p) \/ BeginRotate(p) \/ RetireOverlap(p)
          \/ SeeActive(p) \/ MoveActive(p) \/ InsertActive(p) \/ InsertFails(p)
          \/ SweepOverlap(p) \/ OpenSchedule(p) \/ BeginSchedule(p) \/ CommitSchedule(p)
          \/ OpenCancel(p) \/ CancelDeletion(p)
          \/ ListExpired(p) \/ PurgeTenant(p) \/ Abort(p)
    \/ Tick

Spec == Init /\ [][Next]_vars

-----------------------------------------------------------------------------
(* SigningKeys(): what JWKS publishes and UserInfo verifies with.          *)
Published ==
    InState("active") \cup InState("overlap")
        \cup {k \in InState("sunsetting") : key[k].until > now}

(* activeSigningKey(): the first of SigningKeys by activated_at.           *)
Signers == Newest(Published)

KeysTypeOK ==
    /\ now \in 0..MaxTime
    /\ key \in [Kid -> KeyRow]
    /\ tenant \in [exists : BOOLEAN, scheduled : BOOLEAN, cancelUntil : Nat, hardAfter : Nat]
    /\ job \in [Proc -> Job]
    /\ owed \in [Kid -> Nat] /\ crossed \in BOOLEAN
    /\ Cardinality(InState("active")) <= 1 /\ Cardinality(InState("overlap")) <= 1

(* Whatever rotations, schedulings, cancellations and sweeps overlap, a    *)
(* tenant that is not being deleted has an active key, and it is the one   *)
(* activeSigningKey finds, with one exception: a rotation that read the    *)
(* clock before another which committed first leaves an active key with    *)
(* the older activated_at, and the overlap key signs until the next        *)
(* rotation.                                                               *)
ActiveKeyAvailable ==
    tenant.exists /\ ~tenant.scheduled =>
        /\ InState("active") # {}
        /\ crossed \/ Signers \cap InState("active") # {}

(* The cleanup works from a list it read earlier, yet never removes a      *)
(* tenant whose deletion was cancelled meanwhile.                          *)
CancelledTenantSurvives ==
    [][tenant.exists /\ ~tenant'.exists => tenant.scheduled]_vars

(* Playbook: the keys that could verify tokens when the deletion was       *)
(* scheduled stay in JWKS for 30 days.                                     *)
JWKSThroughSunset ==
    \A k \in Kid : now < owed[k] => k \in Published

=============================================================================
