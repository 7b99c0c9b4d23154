------------------------------ MODULE RateLimit ------------------------------
(***************************************************************************)
(* One bucket of rate_limit_buckets, as the login, sign-up, password-reset *)
(* and OIDC handlers use it:                                               *)
(*   internal/ratelimit/ratelimit.go           Allow                       *)
(*   internal/httpserver/ratelimit_helpers.go  allowRate, allowHostedRate  *)
(* Allow runs two statements, each in a transaction of its own, so the     *)
(* requests for a bucket interleave between them.  A bucket refills Limit  *)
(* tokens in Window time units; tokens are counted in parts of 1/Window so *)
(* that a request costs Window parts and a time unit refills Limit parts.  *)
(***************************************************************************)
EXTENDS Naturals, FiniteSets

CONSTANTS
    Caller,   \* requests for the bucket that can be in flight at once
    Limit,    \* limit
    Window,   \* window
    RateTime  \* bound on the clock

ASSUME RateAssumption == {Limit, Window} \subseteq Nat \ {0} /\ RateTime \in Nat

VARIABLES
    rnow,     \* now()
    bucket,   \* the row, once it is inserted
    pc,       \* where each request is in Allow
    admitted  \* history: how many requests were allowed up to each time

rlvars == <<rnow, bucket, pc, admitted>>

Full == Limit * Window

RLInit ==
    /\ rnow = 0
    /\ bucket = [seeded |-> FALSE, tokens |-> 0, last |-> 0]
    /\ pc = [p \in Caller |-> "idle"]
    /\ admitted = [t \in 0..RateTime |-> 0]

(* Fault: ON CONFLICT DO UPDATE, every request fills the bucket.           *)
Seeded_Always == [seeded |-> TRUE, tokens |-> Full, last |-> rnow]

(* INSERT ... ON CONFLICT DO NOTHING.                                      *)
Seeded == IF bucket.seeded THEN bucket
          ELSE [seeded |-> TRUE, tokens |-> Full, last |-> rnow]

Seed(p) ==
    /\ pc[p] = "idle"
    /\ bucket' = Seeded
    /\ pc' = [pc EXCEPT ![p] = "seeded"]
    /\ UNCHANGED <<rnow, admitted>>

(* LEAST(limit, tokens + elapsed * refillRate)                             *)
Refilled == LET parts == bucket.tokens + (rnow - bucket.last) * Limit
            IN  IF parts < Full THEN parts ELSE Full

(* WHERE tokens >= 1: the tokens stored, before the refill.                *)
Affordable == bucket.tokens >= Window

(* The UPDATE finds the row: one token less, true.                         *)
Take(p) ==
    /\ pc[p] = "seeded"
    /\ Affordable
    /\ bucket' = [seeded |-> TRUE, tokens |-> Refilled - Window, last |-> rnow]
    /\ pc' = [pc EXCEPT ![p] = "idle"]
    /\ admitted' = [t \in 0..RateTime |-> IF t < rnow THEN admitted[t] ELSE admitted[t] + 1]
    /\ UNCHANGED rnow

(* No row: false, and the handler answers 429.                             *)
Refuse(p) ==
    /\ pc[p] = "seeded"
    /\ ~Affordable
    /\ pc' = [pc EXCEPT ![p] = "idle"]
    /\ UNCHANGED <<rnow, bucket, admitted>>

(* A statement fails: the handler answers 500.                             *)
Fail(p) ==
    /\ pc[p] = "seeded"
    /\ pc' = [pc EXCEPT ![p] = "idle"]
    /\ UNCHANGED <<rnow, bucket, admitted>>

RLTick ==
    /\ rnow < RateTime
    /\ rnow' = rnow + 1
    /\ UNCHANGED <<bucket, pc, admitted>>

RLNext ==
    \/ \E p \in Caller : Seed(p) \/ Take(p) \/ Refuse(p) \/ Fail(p)
    \/ RLTick

RLSpec == RLInit /\ [][RLNext]_rlvars

-----------------------------------------------------------------------------
(* Requests allowed between a and b, both included.                        *)
AdmittedIn(a, b) == admitted[b] - (IF a = 0 THEN 0 ELSE admitted[a - 1])

(* However requests interleave, fail and pause, no stretch of time admits  *)
(* more than a full bucket and what it refills meanwhile.                  *)
AdmissionBounded ==
    \A a, b \in 0..RateTime : a <= b =>
        AdmittedIn(a, b) * Window <= Full + (b - a) * Limit

(* ratelimit_helpers.go tells the refused client to try again in Window: a *)
(* request is refused only if less than Window passed since the last one   *)
(* that was allowed.                                                       *)
RefusedOnlyInWindow ==
    [][\A p \in Caller : Refuse(p) => rnow < bucket.last + Window]_rlvars

=============================================================================
