---------------------------- MODULE RefreshTokens ----------------------------
(***************************************************************************)
(* The oidc_refresh_tokens table and everything that writes it:            *)
(*   internal/sessions/refresh.go   Mint, Consume, handleReuse             *)
(*   internal/oidc/provider.go      exchangeRefreshToken, Revoke           *)
(*   internal/oidc/cleanup.go       CleanupExpired (refresh-token rows)    *)
(*   handlers.go, cmd/cypra/main.go tenant-wide revocations                *)
(*                                                                         *)
(* Every request runs on its own goroutine with its own transaction, so a  *)
(* process of the model is a request in flight and a transaction is the    *)
(* steps between its first statement and its commit.  The database is      *)
(* PostgreSQL at READ COMMITTED:                                           *)
(*  - an UPDATE sees the rows committed when the statement starts (hit),   *)
(*    waits for rows another transaction has locked, and re-evaluates its  *)
(*    WHERE clause on the version that is there after the wait;            *)
(*  - a row inserted after the statement started is not seen.              *)
(*                                                                         *)
(* A token stands for its row, its hash and its plaintext.  A family id is *)
(* represented by the family's first token: both are drawn once, by Mint.  *)
(* The sets consumed and revoked and the columns keep the last value of a  *)
(* row that CleanupExpired deleted; only rows says which rows exist.       *)
(***************************************************************************)
EXTENDS Naturals

CONSTANTS
    Token,       \* refresh tokens that can be drawn
    Client,      \* OIDC clients (uuid; a client belongs to one tenant)
    Proc,        \* requests that can be in flight at the same time
    NoToken,     \* parent_id NULL, and the argument of tenant-wide requests
    NoClient,    \* the client of requests that authenticate none
    RefreshTTL,  \* 30 days
    Retention,   \* 7 days a consumed row is kept
    MaxTime      \* bound on the clock

ASSUME NoTokenAssumption == NoToken \notin Token
ASSUME NoClientAssumption == NoClient \notin Client
ASSUME TimeAssumption ==
    /\ RefreshTTL \in Nat \ {0}
    /\ Retention \in Nat
    /\ MaxTime \in Nat

VARIABLES
    now,         \* the clock
    rows,        \* rows of oidc_refresh_tokens
    issued,      \* tokens drawn so far
    consumed,    \* consumed_at IS NOT NULL
    revoked,     \* revoked_at IS NOT NULL
    family,      \* family_id
    parent,      \* parent_id as inserted
    client,      \* oidc_client_uuid
    expires,     \* expires_at
    consumedAt,  \* consumed_at
    held,        \* tokens each client received in a response
    req,         \* the request each process is serving
    killed,      \* history: families a committed revocation was about
    raced,       \* history: families rotated between the snapshot and the
                 \*   commit of a revocation about them
    replayed     \* history: consumed tokens whose replay was handled

rowVars == <<rows, issued, consumed, revoked, family, parent, client, expires,
             consumedAt>>
ghostVars == <<killed, raced, replayed>>
vars == <<now, rowVars, held, req, ghostVars>>

(***************************************************************************)
(* A request in flight.  pc: "consume" the UPDATE of Consume is about to   *)
(* run or waits for a row lock; "rotating" it has updated the row and not  *)
(* committed; "minted" the transaction that inserted tok is committed and  *)
(* the response is not written; "revoking" a revoking UPDATE has taken its *)
(* snapshot hit and not committed.  at is the s.now() it computed.  why is *)
(* the revocation: "replay" and "stale" are handleReuse for a consumed     *)
(* token and for one that was only revoked or expired, "revoked" is the    *)
(* revocation endpoint, "suspend" a suspension or a scheduled deletion of  *)
(* the tenant, "operator" the command-line revocation.                     *)
(***************************************************************************)
PCs     == {"idle", "consume", "rotating", "minted", "revoking"}
Reasons == {"none", "replay", "stale", "revoked", "suspend", "operator"}

Request == [pc : PCs, tok : Token \cup {NoToken}, by : Client \cup {NoClient},
            at : Nat, hit : SUBSET Token, why : Reasons]

Serving(where, t, c, time, seenRows, reason) ==
    [pc |-> where, tok |-> t, by |-> c, at |-> time, hit |-> seenRows, why |-> reason]

Idle == Serving("idle", NoToken, NoClient, 0, {}, "none")

-----------------------------------------------------------------------------
(* Neither consumed nor revoked: the WHERE clause of Consume but for the   *)
(* expiry.                                                                 *)
Live(t) == t \in rows /\ t \notin consumed /\ t \notin revoked

(* Fault: consumed_at IS NULL left out of the WHERE clause.                *)
Usable_IgnoresConsumed(t, time) ==
    t \in rows /\ t \notin revoked /\ expires[t] > time

Usable(t, time) == Live(t) /\ expires[t] > time

(* Fault: the revoking UPDATE selects one row instead of the family.       *)
Unrevoked_RootOnly(f) == {u \in rows : u = f /\ u \notin revoked}

(* WHERE family_id = f AND revoked_at IS NULL.                             *)
Unrevoked(f) == {u \in rows : family[u] = f /\ u \notin revoked}

(* The row locks of uncommitted rotations.                                 *)
Rotating(q, t) == req[q].pc = "rotating" /\ req[q].tok = t

(* Fault: rows are read and written back without their lock.               *)
RowsFree_Unlocked(others, S) == TRUE

(* A statement that writes the rows S waits for the other transactions     *)
(* that have updated one of them and are not committed.                    *)
RowsFree(others, S) == \A q \in others, t \in S : ~Rotating(q, t)

(* The families a revoking request is about.                               *)
Scope(r) == {family[u] : u \in r.hit \cup ({r.tok} \cap Token)}

(* Fault: the client check is left out.                                    *)
Entitled_Anyone(r) == TRUE

(* refresh.ClientID = client.ID, and the same for the tenant.              *)
Entitled(r) == client[r.tok] = r.by

(* A token can be presented once some client has received it, by anyone.   *)
Known(t) == \E c \in Client : t \in held[c]

Init ==
    /\ now = 0
    /\ rows = {} /\ issued = {} /\ consumed = {} /\ revoked = {}
    /\ family = [t \in Token |-> t]
    /\ parent = [t \in Token |-> NoToken]
    /\ client = [t \in Token |-> NoClient]
    /\ expires = [t \in Token |-> 0]
    /\ consumedAt = [t \in Token |-> 0]
    /\ held = [c \in Client |-> {}]
    /\ req = [p \in Proc |-> Idle]
    /\ killed = {} /\ raced = {} /\ replayed = {}

-----------------------------------------------------------------------------
(* Fault: family_id is not stored.                                         *)
RootFamily_Unset(t) == NoToken

(* familyID := uuid.New().                                                 *)
RootFamily(t) == t

(* Mint, called by mintTokens with no parent: a fresh token opens a family *)
(* of its own.                                                             *)
Mint(p, t, c) ==
    /\ req[p].pc = "idle"
    /\ t \notin issued
    /\ issued' = issued \cup {t}
    /\ rows' = rows \cup {t}
    /\ family' = [family EXCEPT ![t] = RootFamily(t)]
    /\ parent' = [parent EXCEPT ![t] = NoToken]
    /\ client' = [client EXCEPT ![t] = c]
    /\ expires' = [expires EXCEPT ![t] = now + RefreshTTL]
    /\ req' = [req EXCEPT ![p] = Serving("minted", t, c, 0, {}, "none")]
    /\ UNCHANGED <<now, consumed, revoked, consumedAt, held, ghostVars>>

(* exchangeRefreshToken after client authentication: a client presents a   *)
(* token and Consume begins its transaction.                               *)
Present(p, t, c) ==
    /\ req[p].pc = "idle"
    /\ Known(t)
    /\ req' = [req EXCEPT ![p] = Serving("consume", t, c, now, {}, "none")]
    /\ UNCHANGED <<now, rowVars, held, ghostVars>>

(* Consume: the UPDATE matches the row.  It waits while another request    *)
(* has the row locked.                                                     *)
MatchRow(p) ==
    /\ req[p].pc = "consume"
    /\ Usable(req[p].tok, req[p].at)
    /\ RowsFree(Proc \ {p}, {req[p].tok})
    /\ req' = [req EXCEPT ![p].pc = "rotating"]
    /\ UNCHANGED <<now, rowVars, held, ghostVars>>

(* Fault: the rotation inserts the child and does not consume the parent.  *)
ConsumedBy_Nothing(t) == consumed

(* SET consumed_at = now.                                                  *)
ConsumedBy(t) == consumed \cup {t}

(* Consume: the child is inserted and the transaction commits.             *)
CommitRotation(p, child) ==
    LET t == req[p].tok
        f == family[t]
    IN  /\ req[p].pc = "rotating"
        /\ child \notin issued
        /\ issued' = issued \cup {child}
        /\ rows' = rows \cup {child}
        /\ consumed' = ConsumedBy(t)
        /\ consumedAt' = [consumedAt EXCEPT ![t] = req[p].at]
        /\ family' = [family EXCEPT ![child] = f]
        /\ parent' = [parent EXCEPT ![child] = t]
        /\ client' = [client EXCEPT ![child] = client[t]]
        /\ expires' = [expires EXCEPT ![child] = req[p].at + RefreshTTL]
        /\ req' = [req EXCEPT ![p].pc = "minted", ![p].tok = child]
        /\ raced' = raced \cup {g \in {f} : \E q \in Proc :
                        req[q].pc = "revoking" /\ g \in Scope(req[q])}
        /\ UNCHANGED <<now, revoked, held, killed, replayed>>

(* Fault: the deferred rollback is missing, the row stays locked.          *)
Rollback_Missing(p) == req' = req

(* defer tx.Rollback()                                                     *)
Rollback(p) == req' = [req EXCEPT ![p] = Idle]

(* Consume: randomToken returns an error and the transaction rolls back.   *)
(* In the model this is also what happens when Token is used up.           *)
RandomFails(p) ==
    /\ req[p].pc = "rotating"
    /\ issued = Token
    /\ Rollback(p)
    /\ UNCHANGED <<now, rowVars, held, ghostVars>>

(* The response carries the minted token.                                  *)
Respond(p) ==
    /\ req[p].pc = "minted"
    /\ Entitled(req[p])
    /\ held' = [held EXCEPT ![req[p].by] = @ \cup {req[p].tok}]
    /\ req' = [req EXCEPT ![p] = Idle]
    /\ UNCHANGED <<now, rowVars, ghostVars>>

(* exchangeRefreshToken checks the client only after Consume committed:    *)
(* the request fails, the rotation stays.                                  *)
RefuseClient(p) ==
    /\ req[p].pc = "minted"
    /\ ~Entitled(req[p])
    /\ req' = [req EXCEPT ![p] = Idle]
    /\ UNCHANGED <<now, rowVars, held, ghostVars>>

-----------------------------------------------------------------------------
(* Consume and handleReuse: the UPDATE matched no row although the token   *)
(* is in the table, and the UPDATE of its family takes its snapshot.       *)
DetectReuse(p) ==
    LET t == req[p].tok
    IN  /\ req[p].pc = "consume"
        /\ t \in rows
        /\ ~Usable(t, req[p].at)
        /\ req' = [req EXCEPT ![p] =
                      Serving("revoking", t, req[p].by, req[p].at, Unrevoked(family[t]),
                              IF t \in consumed THEN "replay" ELSE "stale")]
        /\ UNCHANGED <<now, rowVars, held, ghostVars>>

(* handleReuse: the token is not in the table; nothing is revoked.         *)
RejectUnknown(p) ==
    /\ req[p].pc = "consume"
    /\ req[p].tok \notin rows
    /\ req' = [req EXCEPT ![p] = Idle]
    /\ UNCHANGED <<now, rowVars, held, ghostVars>>

(* Revoke: one UPDATE over the family of the presented token.  A token     *)
(* that is not in the table updates no row.                                *)
Revoke(p, t) ==
    /\ req[p].pc = "idle"
    /\ Known(t) /\ t \in rows
    /\ req' = [req EXCEPT ![p] = 
                  Serving("revoking", t, NoClient, 0, Unrevoked(family[t]), "revoked")]
    /\ UNCHANGED <<now, rowVars, held, ghostVars>>

(* The UPDATE over all tokens of the tenant: suspension, scheduled         *)
(* deletion and the operator's command.                                    *)
RevokeTenant(p, reason) ==
    /\ req[p].pc = "idle"
    /\ reason \in {"suspend", "operator"}
    /\ req' = [req EXCEPT ![p] = 
                  Serving("revoking", NoToken, NoClient, 0, rows \ revoked, reason)]
    /\ UNCHANGED <<now, rowVars, held, ghostVars>>

(* The revoking UPDATE has every row of its snapshot: it waited for those  *)
(* a rotation had locked.  Then the transaction commits.                   *)
CommitRevocation(p) ==
    LET r == req[p]
    IN  /\ r.pc = "revoking"
        /\ RowsFree(Proc \ {p}, r.hit)
        /\ revoked' = revoked \cup (r.hit \cap rows)
        /\ killed' = killed \cup Scope(r)
        /\ replayed' = replayed \cup {t \in {r.tok} : r.why = "replay"}
        /\ req' = [req EXCEPT ![p] = Idle]
        /\ UNCHANGED <<now, rows, issued, consumed, family, parent, client,
                       expires, consumedAt, held, raced>>

(* A statement or a commit fails, the client disconnects, the server dies: *)
(* an open transaction rolls back, a response is lost.                     *)
Abort(p) ==
    /\ req[p].pc # "idle"
    /\ req' = [req EXCEPT ![p] = Idle]
    /\ UNCHANGED <<now, rowVars, held, ghostVars>>

-----------------------------------------------------------------------------
Purgeable == {t \in rows : \/ expires[t] < now
                           \/ t \in consumed /\ consumedAt[t] + Retention < now}

(* CleanupExpired, its DELETE from oidc_refresh_tokens.  parent_id of the  *)
(* children becomes NULL, which no code reads.                             *)
Cleanup ==
    /\ Purgeable # {}
    /\ RowsFree(Proc, Purgeable)
    /\ rows' = rows \ Purgeable
    /\ UNCHANGED <<now, issued, consumed, revoked, family, parent, client,
                   expires, consumedAt, held, req, ghostVars>>

Tick ==
    /\ now < MaxTime
    /\ now' = now + 1
    /\ UNCHANGED <<rowVars, held, req, ghostVars>>

Step(p) ==
    \/ MatchRow(p)
    \/ \E child \in Token : CommitRotation(p, child)
    \/ RandomFails(p)
    \/ Respond(p)
    \/ RefuseClient(p)
    \/ DetectReuse(p)
    \/ RejectUnknown(p)
    \/ CommitRevocation(p)

Next ==
    \/ \E p \in Proc, t \in Token, c \in Client : Mint(p, t, c) \/ Present(p, t, c)
    \/ \E p \in Proc : Step(p) \/ Abort(p)
    \/ \E p \in Proc, t \in Token : Revoke(p, t)
    \/ \E p \in Proc, reason \in Reasons : RevokeTenant(p, reason)
    \/ Cleanup
    \/ Tick

Spec == Init /\ [][Next]_vars

(* A waiter for a row lock is served in turn by the lock manager, and a    *)
(* goroutine that can run is scheduled: each step of a request is strongly *)
(* fair.  Nothing makes a client come, the clock advance or the sweep run. *)
FairSpec == Spec /\ \A p \in Proc : SF_vars(Step(p))

-----------------------------------------------------------------------------
(* Every variable has its type; rows, histories and request arguments only *)
(* mention tokens that were drawn.                                         *)
TypeOK ==
    /\ now \in Nat
    /\ issued \subseteq Token
    /\ rows \subseteq issued /\ consumed \subseteq issued /\ revoked \subseteq issued
    /\ killed \subseteq issued /\ raced \subseteq issued /\ replayed \subseteq issued
    /\ family \in [Token -> Token]
    /\ parent \in [Token -> Token \cup {NoToken}]
    /\ client \in [Token -> Client \cup {NoClient}]
    /\ expires \in [Token -> Nat]
    /\ consumedAt \in [Token -> Nat]
    /\ held \in [Client -> SUBSET issued]
    /\ req \in [Proc -> Request]
    /\ \A t \in issued : family[t] \in issued
    /\ \A p \in Proc :
          /\ req[p].hit \subseteq issued
          /\ req[p].tok \in issued \cup {NoToken}
          /\ req[p].pc \in {"consume", "rotating", "minted"} => req[p].tok \in issued
          /\ req[p].why = "replay" => req[p].tok \in issued

(* Consume's UPDATE is the mutual exclusion of rotation: whatever requests *)
(* race, a family never has two tokens that are neither consumed nor       *)
(* revoked.                                                                *)
SingleLive ==
    \A t, u \in issued : Live(t) /\ Live(u) /\ family[t] = family[u] => t = u

(* A token is rotated into one child, by one request, even when several    *)
(* present it at once; a child's parent is consumed.                       *)
OneSuccessor ==
    /\ \A t, u \in issued : parent[t] = parent[u] /\ parent[t] # NoToken => t = u
    /\ \A t \in issued : parent[t] # NoToken => parent[t] \in consumed

(* Once handleReuse for a consumed token has committed, the token it was   *)
(* rotated into cannot be used, in whatever order the requests ran.        *)
ReplayKillsSuccessor ==
    \A t \in issued : parent[t] \in replayed => ~Live(t)

(* After a revocation about a family committed, the family has a usable    *)
(* token only if a rotation committed between the revocation's snapshot    *)
(* and its commit.                                                         *)
KilledUnlessRaced ==
    \A t \in issued : Live(t) /\ family[t] \in killed => family[t] \in raced

(* ADR-0003: re-presenting a consumed token triggers family-wide           *)
(* revocation, so once that is done the family has no usable token.        *)
ReplayedFamilyDead ==
    \A r \in replayed : \A t \in issued : family[t] = family[r] => ~Live(t)

(* A client only ever receives tokens of its own grants.                   *)
HeldByOwner ==
    \A c \in Client : \A t \in held[c] : client[t] = c

(* The current token of a family: its one live token.                      *)
Head(f) == IF \E t \in issued : Live(t) /\ family[t] = f
           THEN CHOOSE t \in issued : Live(t) /\ family[t] = f
           ELSE NoToken

Families == INSTANCE RefreshFamily
    WITH head <- [f \in Token |-> Head(f)], seen <- issued

(* Every step of the tables is a step of a family: one current token, each *)
(* successor fresh, and no family regains a token after losing its last.   *)
ImplementsFamilies == Families!AbsSpec

(* Every request is answered: no request waits for a row lock forever.     *)
RequestsFinish ==
    \A p \in Proc : req[p].pc # "idle" ~> req[p].pc = "idle"

=============================================================================
