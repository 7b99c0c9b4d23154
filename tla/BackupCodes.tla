----------------------------- MODULE BackupCodes -----------------------------
(***************************************************************************)
(* The backup codes of one subject, a user or an instance admin.           *)
(*   internal/auth/backupcodes/backupcodes.go   RegenerateForUser,         *)
(*       RegenerateForInstanceAdmin, ConsumeForUser,                       *)
(*       ConsumeForInstanceAdmin                                           *)
(*   internal/httpserver/auth_handlers.go       authBackupCodesRegenerate, *)
(*       authBackupCodesConsume                                            *)
(*   internal/httpserver/instance_admin_login_handlers.go                  *)
(*       authInstanceAdminBackupCode                                       *)
(* Both are transactions at READ COMMITTED.  The first statement of each   *)
(* takes the unused codes committed when it starts, waits for those that   *)
(* another transaction holds, and drops those that were used meanwhile.    *)
(***************************************************************************)
EXTENDS Naturals, FiniteSets

CONSTANTS
    Batch,      \* sets of codes that can be drawn
    CodeCount,  \* codes in a set
    Client,     \* requests that can be in flight at once
    NoBatch,
    NoCode

ASSUME CodesAssumption == CodeCount \in Nat \ {0} /\ NoBatch \notin Batch

Code == Batch \X (1..CodeCount)

VARIABLES
    issued,    \* batches whose rows are committed
    spent,     \* codes whose used_at IS NOT NULL
    tx,        \* the transaction of each request
    accepted,  \* history: how often each code was accepted
    replaced   \* history: codes a committed regeneration had to invalidate

bcvars == <<issued, spent, tx, accepted, replaced>>

(***************************************************************************)
(* pc: "renewing" and "checking" the statement has its snapshot saw;       *)
(* "renewed" and "locked" it holds the rows.                               *)
(***************************************************************************)
Tx == [pc : {"idle", "renewing", "renewed", "checking", "locked"},
       saw : SUBSET Code, rows : SUBSET Code, code : Code \cup {NoCode}]

NoTx == [pc |-> "idle", saw |-> {}, rows |-> {}, code |-> NoCode]

Unused == {c \in Code : c[1] \in issued /\ c \notin spent}

(* The rows other transactions hold.                                       *)
HeldElsewhere(p) == UNION {tx[q].rows : q \in Client \ {p}}

BCInit ==
    /\ issued = {} /\ spent = {}
    /\ tx = [p \in Client |-> NoTx]
    /\ accepted = [c \in Code |-> 0]
    /\ replaced = {}

EndTx(p) == tx' = [tx EXCEPT ![p] = NoTx]

Starts(p, where, code) ==
    /\ tx[p].pc = "idle"
    /\ tx' = [tx EXCEPT ![p] = [NoTx EXCEPT !.pc = where, !.saw = Unused, !.code = code]]
    /\ UNCHANGED <<issued, spent, accepted, replaced>>

(* Fault: codes that another transaction holds are skipped.                *)
Acquired_Skip(p) == (tx[p].saw \cap Unused) \ HeldElsewhere(p)

(* What is left of the snapshot once nobody else holds a row of it.        *)
Acquired(p) == tx[p].saw \cap Unused

Acquires(p, from, to) ==
    /\ tx[p].pc = from
    /\ Acquired(p) \cap HeldElsewhere(p) = {}
    /\ tx' = [tx EXCEPT ![p].pc = to, ![p].rows = Acquired(p)]
    /\ UNCHANGED <<issued, spent, accepted, replaced>>

-----------------------------------------------------------------------------
(* RegenerateForUser and RegenerateForInstanceAdmin: the UPDATE starts.    *)
Regenerate(p) == Starts(p, "renewing", NoCode)

AuthBackupCodesRegenerate(p) == Regenerate(p)

InvalidateOld(p) == Acquires(p, "renewing", "renewed")

(* insertCodes and the commit.                                             *)
CommitCodes(p, b) ==
    /\ tx[p].pc = "renewed"
    /\ b \notin issued
    /\ issued' = issued \cup {b}
    /\ spent' = spent \cup tx[p].rows
    /\ replaced' = replaced \cup tx[p].saw
    /\ EndTx(p)
    /\ UNCHANGED accepted

(* ConsumeForUser and ConsumeForInstanceAdmin: SELECT ... FOR UPDATE.      *)
ConsumeCode(p, c) == Starts(p, "checking", c)

AuthBackupCodesConsume(p, c) == ConsumeCode(p, c)

LockCandidates(p) == Acquires(p, "checking", "locked")

(* Fault: the UPDATE marks no row.                                         *)
Marked_None(p) == {}

(* consume: what updateSQL marks as used.                                  *)
Marked(p) == {tx[p].code}

(* consume: the code matches a candidate; the UPDATE and the commit.       *)
AcceptCode(p) ==
    /\ tx[p].pc = "locked"
    /\ tx[p].code \in tx[p].rows
    /\ spent' = spent \cup Marked(p)
    /\ accepted' = [accepted EXCEPT ![tx[p].code] = @ + 1]
    /\ EndTx(p)
    /\ UNCHANGED <<issued, replaced>>

(* consume: it matches none; or a statement fails or the server dies.      *)
RefuseCode(p) ==
    /\ tx[p].pc # "idle"
    /\ EndTx(p)
    /\ UNCHANGED <<issued, spent, accepted, replaced>>

BCNext ==
    \E p \in Client :
        \/ AuthBackupCodesRegenerate(p) \/ InvalidateOld(p) \/ LockCandidates(p)
        \/ AcceptCode(p) \/ RefuseCode(p)
        \/ \E b \in Batch : CommitCodes(p, b)
        \/ \E c \in Code : AuthBackupCodesConsume(p, c)

BCSpec == BCInit /\ [][BCNext]_bcvars

-----------------------------------------------------------------------------
(* A code is accepted at most once, whoever presents it at the same time.  *)
CodeAcceptedOnce == \A c \in Code : accepted[c] <= 1

(* Regeneration is final: a code that was unused when it began is not      *)
(* accepted any more once it has committed, even by a request that had     *)
(* begun before.                                                           *)
RegenerationFinal == [][\A c \in replaced : accepted'[c] = accepted[c]]_bcvars

=============================================================================
