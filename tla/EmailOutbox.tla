----------------------------- MODULE EmailOutbox -----------------------------
(***************************************************************************)
(* The email outbox and the workers that drain it:                         *)
(*   internal/email/worker.go      Run, runBatch, backoffDelay             *)
(*   internal/email/sender.go      Resolve, as far as it can fail          *)
(*   magiclink.go, invite.go, hostedlogin_handlers.go  INSERT of the rows  *)
(*   cmd/cypra/main.go             serve: an error of Run stops the server *)
(*                                                                         *)
(* A batch is one transaction: its rows are locked from SELECT ... FOR     *)
(* UPDATE SKIP LOCKED to the commit, and the mails go out in between.      *)
(* What the transaction writes is kept in outcome until it commits.        *)
(***************************************************************************)
EXTENDS Naturals, FiniteSets, Functions

CONSTANTS
    Mail,        \* rows of email_outbox
    NoTenant,    \* mails without a tenant, for which there is no sender
    Unrenderable,\* mails whose template does not render
    Worker,      \* goroutines of Run
    BatchSize,   \* LIMIT of the SELECT
    MaxShift,    \* attempts after which the delay stays the same
    MaxFaults    \* bound on failed batches, and on sends with a late error

ASSUME OutboxAssumption ==
    /\ NoTenant \subseteq Mail /\ Unrenderable \subseteq Mail
    /\ BatchSize \in Nat \ {0} /\ MaxShift \in Nat \ {0} /\ MaxFaults \in Nat

(* The powers of two are positive: arithmetic the prover does not have.    *)
ASSUME BackoffAssumption == \A n \in 1..MaxShift : 2 ^ (n - 1) \in Nat \ {0}

VARIABLES
    state,     \* of each row: sent_at and failed_at
    place,     \* among the rows with next_attempt_at <= now(), oldest first; 0: not due
    wait,      \* minutes until next_attempt_at of the other pending rows
    attempts,  \* attempts, counted up to MaxShift
    todo,      \* rows a worker has locked and not handled
    outcome,   \* what a worker's transaction has written to its rows
    up,        \* the server is running
    faults,    \* faults that happened
    delivered, \* history: how often a mail reached its recipient
    lost       \* history: deliveries whose sent_at was not committed

rowVars   == <<state, place, wait, attempts>>
batchVars == <<todo, outcome>>
vars == <<rowVars, batchVars, up, faults, delivered, lost>>

States   == {"absent", "pending", "sent", "failed"}
Outcomes == {"none", "sent", "failed", "retry"}

NoOutcome == [m \in Mail |-> "none"]

(* time.Duration(1<<(attempts-1)) * time.Minute                            *)
backoffDelay(n) == 2 ^ (n - 1)

(* The rows a worker's transaction has locked.                             *)
Batch(w) == todo[w] \cup {m \in Mail : outcome[w][m] # "none"}

Idle(w) == Batch(w) = {}

(* The rows the WHERE clause admits: pending and due.                      *)
Due == {m \in Mail : place[m] # 0}

(* ORDER BY next_attempt_at: the number of m among the rows S.             *)
Rank(S, m) == Cardinality({n \in S : place[n] <= place[m]})

Init ==
    /\ state = [m \in Mail |-> "absent"]
    /\ place = [m \in Mail |-> 0]
    /\ wait = [m \in Mail |-> 0]
    /\ attempts = [m \in Mail |-> 0]
    /\ todo = [w \in Worker |-> {}]
    /\ outcome = [w \in Worker |-> NoOutcome]
    /\ up = TRUE /\ faults = 0
    /\ delivered = [m \in Mail |-> 0]
    /\ lost = [m \in Mail |-> 0]

-----------------------------------------------------------------------------
(* A handler inserts a row; next_attempt_at is now().                      *)
Enqueue(m) ==
    /\ up
    /\ state[m] = "absent"
    /\ state' = [state EXCEPT ![m] = "pending"]
    /\ place' = [place EXCEPT ![m] = Cardinality(Due) + 1]
    /\ UNCHANGED <<wait, attempts, batchVars, up, faults, delivered, lost>>

(* Fault: FOR UPDATE without SKIP LOCKED, and no lock taken.               *)
Selectable_Locked(w, m) == TRUE

(* SKIP LOCKED                                                             *)
Selectable(w, m) == \A v \in Worker : m \notin Batch(v)

(* runBatch: begin, SELECT.                                                *)
SelectBatch(w) ==
    LET free == {m \in Due : Selectable(w, m)}
    IN  /\ up
        /\ Idle(w)
        /\ free # {}
        /\ todo' = [todo EXCEPT ![w] = {m \in free : Rank(free, m) <= BatchSize}]
        /\ UNCHANGED <<rowVars, outcome, up, faults, delivered, lost>>

(* The row the loop over the batch has reached.                            *)
First(w, m) == m \in todo[w] /\ \A n \in todo[w] : place[m] <= place[n]

(* The row is handled: the UPDATE of the row.                              *)
Handle(w, m, result) ==
    /\ up
    /\ First(w, m)
    /\ todo' = [todo EXCEPT ![w] = @ \ {m}]
    /\ outcome' = [outcome EXCEPT ![w][m] = result]
    /\ UNCHANGED <<rowVars, up>>

(* Mails that reach sender.Send.                                           *)
Sendable == Mail \ (NoTenant \cup Unrenderable)

(* Send returned nil.                                                      *)
SendOk(w, m) ==
    /\ Handle(w, m, "sent")
    /\ m \in Sendable
    /\ delivered' = [delivered EXCEPT ![m] = @ + 1]
    /\ UNCHANGED <<faults, lost>>

(* Resolve or Send returned an error and nothing went out.                 *)
SendFails(w, m) ==
    /\ Handle(w, m, "retry")
    /\ m \notin NoTenant
    /\ UNCHANGED <<faults, delivered, lost>>

(* Send returned an error, a timeout say, although the mail went out.      *)
SendFailsLate(w, m) ==
    /\ Handle(w, m, "retry")
    /\ m \in Sendable
    /\ faults < MaxFaults
    /\ faults' = faults + 1
    /\ delivered' = [delivered EXCEPT ![m] = @ + 1]
    /\ lost' = [lost EXCEPT ![m] = @ + 1]

(* There is no sender, or Render failed: the row is given up.              *)
GiveUp(w, m) ==
    /\ Handle(w, m, "failed")
    /\ m \notin Sendable
    /\ UNCHANGED <<faults, delivered, lost>>

Saturated(n) == IF n < MaxShift THEN n + 1 ELSE MaxShift

(* Fault: failed_at is not written.                                        *)
Settled_NeverFailed(result) == IF result = "sent" THEN "sent" ELSE "pending"

(* Fault: sent_at is written before the error of Send is looked at.        *)
Settled_DespiteError(result) == IF result = "failed" THEN "failed" ELSE "sent"

(* The state of a row after an UPDATE.                                     *)
Settled(result) == IF result = "retry" THEN "pending" ELSE result

(* runBatch: the commit, once every row of the batch is handled.           *)
CommitBatch(w) ==
    LET done    == Batch(w)
        again   == {m \in done : Settled(outcome[w][m]) = "pending"}
    IN  /\ up
        /\ todo[w] = {} /\ ~Idle(w)
        /\ state' = [m \in Mail |-> IF m \in done THEN Settled(outcome[w][m]) ELSE state[m]]
        /\ attempts' = [m \in Mail |-> IF m \in again THEN Saturated(attempts[m])
                                                      ELSE attempts[m]]
        /\ wait' = [m \in Mail |-> IF m \in again THEN backoffDelay(attempts'[m]) ELSE wait[m]]
        /\ place' = [m \in Mail |-> IF m \in Due \ done THEN Rank(Due \ done, m) ELSE 0]
        /\ outcome' = [outcome EXCEPT ![w] = NoOutcome]
        /\ UNCHANGED <<todo, up, faults, delivered, lost>>

(* A statement or a commit fails, or the server is stopped or dies.  Run   *)
(* cancels the other workers and serve ends: every batch rolls back, what  *)
(* was sent stays sent.                                                    *)
BatchFails ==
    /\ up
    /\ faults < MaxFaults
    /\ faults' = faults + 1
    /\ up' = FALSE
    /\ todo' = [w \in Worker |-> {}]
    /\ outcome' = [w \in Worker |-> NoOutcome]
    /\ lost' = [m \in Mail |-> lost[m] +
                    Cardinality({w \in Worker : outcome[w][m] = "sent"})]
    /\ UNCHANGED <<rowVars, delivered>>

(* The process is started again.                                           *)
Restart ==
    /\ ~up
    /\ up' = TRUE
    /\ UNCHANGED <<rowVars, batchVars, faults, delivered, lost>>

(* A minute passes; the rows that become due queue up behind the others,   *)
(* in any order among themselves.                                          *)
Tick ==
    LET late  == {m \in Mail : wait[m] = 1}
        first == Cardinality(Due) + 1
        last  == Cardinality(Due) + Cardinality(late)
    IN  /\ \E m \in Mail : wait[m] > 0
        /\ wait' = [m \in Mail |-> IF wait[m] > 0 THEN wait[m] - 1 ELSE 0]
        /\ \E order \in Bijection(late, first..last) :
              place' = [m \in Mail |-> IF m \in late THEN order[m] ELSE place[m]]
        /\ UNCHANGED <<state, attempts, batchVars, up, faults, delivered, lost>>

Work(w) ==
    \/ SelectBatch(w) \/ CommitBatch(w)
    \/ \E m \in Mail : SendOk(w, m) \/ SendFails(w, m) \/ SendFailsLate(w, m) \/ GiveUp(w, m)

Next ==
    \/ \E m \in Mail : Enqueue(m)
    \/ \E w \in Worker : Work(w)
    \/ BatchFails \/ Restart \/ Tick

Spec == Init /\ [][Next]_vars

(* The mail m is handled for good.                                         *)
Succeeds(w, m) == SendOk(w, m) \/ GiveUp(w, m)

(* Time passes, the server is started again after a failure and the        *)
(* goroutines of Run are scheduled.  A provider that accepts mail again    *)
(* and again in the course of the retries is the one assumption about the  *)
(* outside: for each mail in turn, not for the batch it happens to be in.  *)
FairSpec ==
    /\ Spec
    /\ WF_vars(Tick) /\ WF_vars(Restart)
    /\ \A w \in Worker : WF_vars(Work(w))
    /\ \A m \in Mail : SF_vars(\E w \in Worker : Succeeds(w, m))

-----------------------------------------------------------------------------
(* Rows, batches and counters have their types, and every pending row is   *)
(* either due or waits for its next attempt.                               *)
OutboxTypeOK ==
    /\ state \in [Mail -> States]
    /\ place \in [Mail -> Nat] /\ wait \in [Mail -> Nat]
    /\ attempts \in [Mail -> 0..MaxShift]
    /\ todo \in [Worker -> SUBSET Mail]
    /\ outcome \in [Worker -> [Mail -> Outcomes]]
    /\ up \in BOOLEAN /\ faults \in 0..MaxFaults
    /\ delivered \in [Mail -> Nat] /\ lost \in [Mail -> Nat]
    /\ \A m, n \in Due : place[m] = place[n] => m = n
    /\ \A m \in Mail : state[m] = "pending" <=> (place[m] # 0 <=> wait[m] = 0)

(* A recipient gets a mail twice only when an earlier delivery was not     *)
(* recorded: the batch that made it was rolled back, or Send reported an   *)
(* error after the mail went out.  Workers that poll at once never make a  *)
(* duplicate.                                                              *)
DuplicatesExplained ==
    \A m \in Mail : delivered[m] <= lost[m] + 1

(* A row says sent only if the mail went out, and one that was given up    *)
(* never did: no retry, crash or second worker touches a settled row.      *)
SettledIsTrue ==
    \A m \in Mail : /\ state[m] = "sent" => delivered[m] = lost[m] + 1
                    /\ state[m] = "failed" => delivered[m] = 0

(* Every queued mail is sent or given up, whatever batches fail meanwhile  *)
(* and however many mails queue up behind a small batch.                   *)
Drains ==
    \A m \in Mail : state[m] = "pending" ~> state[m] \in {"sent", "failed"}

=============================================================================
