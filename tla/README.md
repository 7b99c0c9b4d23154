# Cypra in TLA+

Cypra is a self-hosted identity provider: a Go server (`cmd/cypra`, `internal/`)
over PostgreSQL that signs users of many tenants in, hands out OIDC tokens and is
run by operators from a dashboard and a command line. This directory models its
stateful parts in TLA+ and checks the models with TLC on small instances. With
TLAPS it proves every safety and action property the passing runs check for any
number of rows and of requests in flight; the two liveness properties are
model-checked.

Almost everything that is hard about Cypra happens in its transactions. The
server keeps no shared state in memory: each request is a goroutine with its own
connection, background tickers and commands run beside them, and rows are
the only thing they share. The isolation level is PostgreSQL's default, READ
COMMITTED. The models therefore agree on one way of describing a statement:

- an `UPDATE` or `DELETE` sees the rows that were committed when it started
  (the fields `hit`, `seen`, `saw` and `found` hold that snapshot), waits for rows
  another open transaction has written, and evaluates its `WHERE` clause again on
  the version that is there after the wait;
- a row inserted after the statement started is not seen by it;
- what a transaction wrote is visible to others when it commits, so a
  transaction is a few steps of a process, with the locks it holds as a condition
  on the steps of the others;
- a unique index makes the statement that would violate it fail, and the
  transaction roll back;
- a process can fail at any step: the deferred `tx.Rollback()` releases its locks,
  a response that was not written is lost.

## Inventory

| Component | State it keeps | Operations | Interacts with | What makes it hard | Where |
|---|---|---|---|---|---|
| Refresh tokens | `oidc_refresh_tokens`: family, parent, consumed, revoked, expiry | mint, rotate, detect reuse, revoke, sweep | token endpoint, tenant suspension, cleanup ticker | replays racing with rotations, lost responses, rotation before the client check | `RefreshTokens`, `RefreshFamily` |
| Authorization codes | `oidc_authorization_codes` | authorize, exchange, sweep | refresh tokens, suspension | one code presented twice, failure between redeeming and minting | `TokenEndpoint` |
| Signing keys, tenant life cycle | `oidc_signing_keys`, settings of the tenant | rotate (ticker, dashboard, command), schedule, cancel and carry out a deletion | JWKS, token minting | jobs that act on what they read earlier, a clock read before the locks, unique indexes, deadlines | `SigningKeys` |
| Rate limiting | `rate_limit_buckets` | allow | sign-in, sign-up, OIDC handlers | two statements per request, refill arithmetic | `RateLimit` |
| Bootstrap | `bootstrap_tokens`, `instance_admins` | mint, redeem, create the first admin, reset | setup page, command line | check before the transaction, count before the insert | `Bootstrap` |
| Email outbox | `email_outbox`, batches of the workers | enqueue, select, send, retry, commit | magic links, invites, resets; `serve` | sending inside a transaction that may roll back | `EmailOutbox` |
| Master-key rotation | encrypted columns, `master_key_rotations` | start, resume, rewrap, cut over, confirm | the server that writes secrets meanwhile | interruption, lists that shift, several commands | `MasterKeyRotation` |
| Consent and continuation | `oidc_consents`, `oidc_clients`, signed continuations | authorize, log in, resume, consent, change a client | authorization codes, sessions | consent checked before the code is inserted; a continuation answered late and by anybody | `Consent` |
| Membership and personal access tokens | `tenant_memberships`, `personal_access_tokens` | change role, remove (a trigger revokes the tokens with it), create and revoke a token | every authenticated request | check-then-act on the last owner; a role read before an insert | `Members` |
| Sessions | `sessions` (cookies and one row per token used) | sign in, list, revoke one, revoke others, sign out, tear down, patch the profile, erase | tokens, erasure | a row upserted behind the request | `Sessions` |
| Sign-up and invitations | `users`, registration settings, `pending_invitations`, invitation continuations | four ways to sign up, find-or-create of upstream users, invite, re-invite, revoke, redeem | policy, membership, outbox | settings read before the insert; continuations of invitations that were replaced | `Registration` |
| Passwords and resets | `password_credentials`, `password_reset_tokens` | set, verify, issue, reset | sessions, outbox | resets that revoke each other's tokens under locks, in opposite orders | `Passwords` |
| Magic links | `magic_link_tokens` | issue up to a limit, consume | outbox, sessions | count before insert | `MagicLinks` |
| Backup codes | `user_backup_codes`, `instance_admin_backup_codes` | regenerate, consume | sign-in | candidates locked one by one while they are replaced | `BackupCodes` |
| Passkeys, second factors, TOTP | `passkey_credentials`, `webauthn_challenges`, `totp_credentials` | begin and finish a ceremony, delete, disable, enrol, verify | sign-in, administration | verified credentials that are deleted before they are used; count before delete | `Factors` |
| Ways in of a tenant, upstream sign-in | `tenant_auth_methods`, `social_connections`, `oidc_connections`, `upstream_providers`, `default_auth_method`, signed state | enable, save, delete, choose the default, start, callback, render the page | registration, sessions | two tables for Google; a default that is stored by name; a policy read after the exchange | `Connections` |
| Instance admins | `instance_admins`, their sessions and codes, invitations | invite, redeem, sign in, demote, revoke a session | bootstrap, middleware | count before demotion; sessions that outlive it | `InstanceAdmins` |
| Tenant logo | object store, `storage_objects`, `tenants.logo_object_id` | upload, replace, delete, serve | storage backends | three stores written one after the other, each of which can fail; errors of statements that were applied | `TenantLogo` |
| Supervision | goroutines of `serve` | start, stop | all tickers | one failing ticker stops the server | in part, in `EmailOutbox` |

## Modules

`MC*.tla` modules only add symmetry sets and constant values for TLC. Definitions
that begin with `Fault:` in their comment are variants of the definition below
them, each with one plausible programming error. The specification does not use
them; they are substituted to see that a property notices the error.

### RefreshTokens

A token stands for its row, its hash and its plaintext; a family is named by its
first token. `rows` says which rows exist, `consumed`, `revoked`, `expires` and
the other columns are functions or sets over tokens and keep the last value of a
deleted row. `req[p]` is the request process `p` is serving:

| Action | Code |
|---|---|
| `Mint` | `RefreshService.Mint`, called by `mintTokens` |
| `Present`, `MatchRow`, `CommitRotation`, `RandomFails` | `Consume`: begin, the conditional `UPDATE`, the `INSERT` of the child and the commit |
| `Respond`, `RefuseClient` | `exchangeRefreshToken` after `Consume`: the client is compared only then |
| `DetectReuse`, `RejectUnknown`, `CommitRevocation` | `handleReuse` |
| `Revoke`, `RevokeTenant` | the revocation endpoint; suspension, scheduled deletion, `admin revoke-tenant-tokens` |
| `Cleanup` | `CleanupExpired` |
| `Abort` | every error return and every lost response |

`killed`, `raced` and `replayed` are history: which families a committed
revocation was about, which of them were rotated between its snapshot and its
commit, and which consumed tokens were presented again.

`RefreshFamily` is the abstract specification. It knows neither requests nor
rows: a family has one current token, a new current token was never seen before,
and a family that lost its token never gets another. `RefreshTokens` implements
it with `head[f]` as the one live token of family `f`.

### TokenEndpoint

Extends `RefreshTokens` by authorization codes and by the tenant's suspension. A
process serves either a request of `RefreshTokens` or a grant; `MintTokens` hands
the grant over to `Mint`. `genuine` stands for the comparison of `redirect_uri`
and the PKCE verifier with the row; client authentication has succeeded.
Hiding the codes, every behaviour is one of `RefreshTokens` (theorem
`Composition`), so what holds of the table holds behind the endpoint.

### Consent

Users visit the authorization endpoint of one tenant. `visiting[v]` is a request
between its statements: `oidcAuthorize` validates, `finishOIDCAuthorize`
validates again, asks `ConsentCovers`, and `Authorize` loads the client once more
before it inserts the code. A continuation is what it is in the code: the request
with a tenant and a deadline, without a user; so `continuations` is a set of requests
that anyone can take up. `replaced` and `changed` remember that the user replaced
the consent, or an administrator the client, while a visit was between the check
and the insert. The code that comes out is where `TokenEndpoint` begins.

### SigningKeys

One tenant, because a `kid` contains the tenant's id and no statement crosses
tenants but the sweep, which treats each key alone. A key is its sequence number.
`job[p]` is a rotation (its three statements with their snapshots and locks), a
`RotateDue`, a scheduling or cancelling of the deletion or a cleanup. The clock runs
on while jobs are under way, and each keeps the time the code uses in `at`: what
`ForceRotate` read before it began its transaction (`rotation.go:43`), the `now()` of
PostgreSQL at the beginning of the transaction of a scheduling or a cancellation,
and the tick that started a cleanup. So a rotation that waited for row locks may
activate a key with an older time than one that committed before it (`overtaken`);
`crossed` remembers that the active key was made by such a rotation, and
`activeSigningKey` then signs with the key in overlap. `owed[k]` remembers until when
a scheduled deletion promised to publish a key.

A rotation, a `RotateDue` and a cleanup may take any time. A request that schedules or
cancels a deletion ends within `Patience` of the beginning of its transaction. The
sunset must outlast it (`Cancellable + 2 * Patience <= Sunset`): with 7 and 30 days,
11 days. A cancellation that was granted while a deletion was cancellable and stayed
open for more than three weeks could find that a cleanup had removed every key.

### RateLimit, Bootstrap

`RateLimit` is one bucket and the two statements of `Allow`. Tokens are counted
in parts of 1/`Window`, so that the refill stays a whole number. `admitted[t]` is
history: the requests admitted up to time `t`. `Bootstrap` has
the setup tokens, the check for the first boot, the redemption and the steps of
`createFirstInstanceAdmin`.

### EmailOutbox

`place[m]` numbers the rows that are due in the order of `next_attempt_at` (0: not
due), `wait` has the minutes until the others are. The batch is the rows with the
lowest numbers that nobody has locked. A worker's batch is `todo` (locked, not handled)
and `outcome` (written, not committed). `BatchFails` is an error of one worker:
`Run` cancels the others and `serve` ends, so every batch rolls back, while the
mails stay sent. `delivered` and `lost` count deliveries, and those that no
committed row records. `attempts` is counted up to the cap of `backoffDelay`.

### MasterKeyRotation

Each row has the key its DEK is wrapped with. Rows are natural numbers, in the
order of the `ORDER BY`; a column is a set of them, and `Number` is the position of
a row in its list. `run[p]` is a `Resume`: the column it comes to next, the rows it
read of the current one and has not come to, and its counters. The skipping of rows
already done is part of reading a column. The
server writes rows under the old key and deletes rows meanwhile, up to
`MaxWrites` times.

### Members, Sessions

`Members` has the roles of the users of a tenant and their tokens.
`job[p]` is a request of `updateTenantMember`, `removeTenantMember` or `createPAT`:
`LoadMember`, `CheckOwner`, `WriteRole` and `CommitRole` are its statements. With the
`UPDATE` or `DELETE` runs the trigger of `db/migrations/0008_pat_membership_revocation`,
which revokes the tokens it sees (`RevokedByTrigger`, `found`); role and tokens change
together at the commit. `RevokeForUser` follows and finds only what was inserted
meanwhile; when it fails nothing the trigger did is undone. `overlapped` marks a
request whose check was out of date when it wrote, `missed` the tokens inserted
between the trigger and its commit, `late` all those inserted by a request that was
admitted before the change and so out of reach of the trigger.

In `Sessions` every session has an id; the session of a token has the token's. A
use of a token leaves an upsert behind (`upserts`) that lands later or is lost.
`RevokePAT` and `TearDown` are the two statements of `revokePAT`. Erasure redacts
the user and leaves the sessions alone, as the code does; `PatchUserMe` then meets
the guard of its `WHERE` clause.

### Registration

`visit[v]` is a sign-up, an upstream callback or the redemption of an invitation.
The handlers differ in where the gate is: `CheckSignup` first for sign-ups, after
the look-up of the account for social and OIDC users, and a gate of its own for
invitations (`GateInviteByTenant`). `stale` marks a visit during which the
settings were changed. An invitation that `Issue` finds unredeemed for the same
address gets a new token, so tokens, not invitations, are counted.

### Passwords, MagicLinks, BackupCodes, Factors

`Passwords` has the three statements of `ResetPassword` with the locks they hold;
two resets of one account can deadlock, and PostgreSQL then breaks one
(`BreakDeadlock`). The `UPDATE` that revokes the competing tokens takes its snapshot
when it starts (`BeginSweep`, `BeginRevoke`), waits for rows held by another reset, and
revokes those of the snapshot that are still unspent. `before[t]` is the set of tokens
whose reset had begun that `UPDATE` when token `t` was issued: `t` escapes it.
`MagicLinks` counts and inserts in two steps. In
`BackupCodes` a statement takes a snapshot (`saw`), waits, and keeps the rows that
are still unused (`Acquired`). `Factors` has the ceremonies with their purpose and
owner, the passkeys as first and as second factor, and the TOTP secrets, whose
`Verify` picks one by an `ORDER BY` that need not decide.

### Connections

What a tenant offers and what the sign-in page makes of it. `conn` has the rows of
both kinds of connections; `legacy` says whether the older table for Google enables it.
`resolvePrimaryMethod`, `primaryMethodAvailable`, `buildSocialButtons` and
`hostedPageData` are the functions of those names. Requests read in one step and
write in another; a callback is validated, loaded (`Callback`), checked against
the policy it reads then (`AllowsEmail`) and opens the session. The page's reads
are taken as one.

### InstanceAdmins

Extends `Bootstrap`: an admin is named by the setup token or the invitation that
made the row. Signing in is two steps (the credential, then the session), a
demotion two (the count, then the `UPDATE`). `dashboardSPA` decides between the
dashboard, the login and the setup page.

### TenantLogo

`blobs` is the object store, `rows` and `retired` are `storage_objects`, `logo` is
the reference. Every statement of `putTenantLogo` and `deleteTenantLogo` is a
step, and every one can fail. The statements run under the request's context: when it
is cancelled or the connection breaks, `ExecContext` returns an error although the
`UPDATE` was, or will be, applied. `SetLogoFails` therefore leaves the reference
`indoubt`, `ApplyInDoubt` writes it at any time after, and `unsure` remembers that it
did. `disturbed` remembers that a request failed or met another. The tenant is not
deleted, and the storage backend not replaced, meanwhile.

### Composition for TLC

`MCAccounts`, `MCSignIn`, `MCConfig` and `MCTokenEndpoint` check several modules
in one run. These modules share no variable: the code couples them only through
the outcome of an operation (a verified password, an admitted address, a code),
which each takes as an input. So one of them moves while the others stay in an
initial state, which covers the states of each without their product.
`InstanceAdmins` and `TokenEndpoint` are true compositions: they extend the module
they build on, and move its variables.

## Properties and runs

| Run | Instance | Checks |
|---|---|---|
| `refresh_safety` | 3 tokens, 2 clients, 2 requests, 2 times | types; one live token per family; one child per token; a replay kills the successor; what a revocation can leave alive; tokens only reach their own client; the refinement of `RefreshFamily` |
| `refresh_live` | 2 tokens, 2 requests, fair | every request is answered, though requests wait for locks |
| `code_exchange` | 1 code, 2 tokens, 2 clients, 2 requests, 3 times; 2 users, 1 project, 2 scopes, 2 visits | one family per code, for the code's client; a code is made out within the consent of its own user, and within what the client is allowed by then |
| `email_outbox` | 3 mails (one without a tenant), 2 workers, batches of 2, one fault, fair | duplicates only after a delivery that was not recorded; settled rows tell the truth; the outbox drains |
| `config` | 3 keys, 2 jobs, 4 times; 3 rows in 2 columns, 2 commands, 2 writes | an active key, which signs unless its rotation was overtaken; a cancelled deletion is not carried out; keys published through their sunset; the resume point is exact; a reported cutover is complete |
| `instance` | 2 setup tokens, 1 guest, 2 requests of each kind, 2 times | a setup token is redeemed once and not after it was withdrawn; demotions in sequence leave an admin |
| `accounts` | 2 users, 2 tokens, 2 requests; 2 persons, 1 cookie, 1 bearer; 1 address, 2 invitation tokens, 2 visits; 3 objects, 2 requests | changes in sequence keep an owner; tokens follow the role; a withdrawn token leaves the list; erasure is final; the sign-up gate; a superseded invitation makes no account; the logo is served unless its `UPDATE` was reported as failed, and nothing is left behind |
| `sign_in` | 1 account, 3 reset tokens, 2 requests; 3 links, limit 2; 2 sets of 2 codes; 2 passkeys, 2 TOTP secrets, 1 ceremony; 3 callers of a bucket of 3 in 2 units, 6 times; 1 built-in method, the Google and 1 OIDC connection, 2 requests | of two reset tokens one wins, unless the other was issued behind its sweep; the limit of links, up to requests in flight; a code is accepted once, and not after a regeneration; a removed passkey is refused; the last passkey stays; no stretch of time admits more than a bucket and its refill; the page leads with a method it offers; a connection admits only the addresses it names |
| `refresh_replay` | violation | see Findings, 1 |
| `rate_lockout` | violation | see Findings, 2 |
| `bootstrap_second` | violation | see Findings, 3 |
| `demoted_admin` | violation | see Findings, 4 |

Several properties say what holds *unless* a request overlapped another
(`SequentialChangesKeepOwner`, `LastPasskeyKept`, `LastAdminKept`, `GateHeld`,
`CodeWithinConsent`, `ConnectionGate`, `TokensFollowRole`). The code checks and
then writes without a lock there, so the unqualified sentence is false. The
exception names the window exactly, by a history variable or a field of the
request that is set only if something changed between the check and the write.
Three more carry an exception of another kind, of which Findings has the traces:
`ActiveKeyAvailable` (a rotation that read the clock before one that committed first),
`OneResetWins` (a token issued while the sweep of a reset waits) and `LogoServed` (an
`UPDATE` applied although an error was returned).

Why the bounds are enough for the cases that matter. A family of three tokens is
the smallest in which a replayed token has a successor that is itself being
rotated; the race of Findings 1 needs exactly that. Two requests give every
pairwise interleaving, and each property speaks of at most two rows or two
requests. Two clients are needed for one to present the token of the other, two
users for one to answer the continuation of the other. Three keys give an active,
an overlapping and a retired one, and the time bound lets a key become due,
overlap, expire and a deletion window close; the sunset is just long enough for the
assumption about `Patience`. The bucket can be drained, wait for
longer than its window and be drained again. Three mails exceed the batch, so that
one waits behind a full batch while the others are retried. Three rows in two
columns give a list that shifts in one column while the other is still to be read.
Three reset tokens allow two resets in flight and one issued after them; three
links exceed the limit by one; two tokens of a user let one be revoked by the
trigger and one be inserted past it; two sets of two codes let one set replace the other
while a code of it is being used. Two owners can demote each other, two
invitation tokens supersede one another, and three objects give a logo, its
replacement and an upload that overlaps. A built-in method and a connection of each
kind give a default that can go while another way in stays, and two requests let a
callback meet a save; `google` as a built-in method is one of `Unshown`, so a second
one would not change what `PageUsable` says. The theorems remove these bounds from
everything but the two liveness properties and the four violations.

Deadlock is not checked where the model may stop because a bound is reached
(tokens, codes and links used up, mails all settled, rotation confirmed).

### Fairness

`RefreshTokens!FairSpec` makes each step of a request strongly fair. A goroutine
that can run is scheduled by the Go runtime, and PostgreSQL's lock manager grants
a row lock in the order of the queue, so a request that is again and again able
to take its row takes it. Nothing obliges a client to come, the clock to
advance or the sweep to run.

`EmailOutbox!FairSpec` makes the workers, the clock and the restart of the server
weakly fair (the deployment files restart the container) and assumes that the
provider accepts a mail sometime in the course of its retries (strong fairness of
the success of each mail); faults are finitely many.

## Proofs

Eight modules hold the theorems. A module of proofs extends the modules it is
about; where it extends several they share no variable, as in the runs.

| Module | About |
|---|---|
| `RefreshTokensProofs` | `RefreshTokens`, and that it implements `RefreshFamily` |
| `TokenEndpointProofs` | `TokenEndpoint`, and that it implements `RefreshTokens` |
| `ConsentProofs` | `Consent` |
| `EmailOutboxProofs` | `EmailOutbox` |
| `ConfigProofs` | `SigningKeys`, `MasterKeyRotation`, `Connections` |
| `InstanceProofs` | `InstanceAdmins`, `Bootstrap` |
| `AccountsProofs` | `Members`, `Sessions`, `Registration`, `TenantLogo` |
| `SignInProofs` | `Passwords`, `MagicLinks`, `BackupCodes`, `Factors`, `RateLimit` |

They hold for all values of the constants that satisfy the assumptions named in the
modules. There is no bound on the number of tokens, clients, users, rows or requests
in flight, and `MaxTime`, `MaxKid`, `MaxWrites` and `MaxFaults` are any numbers.
Most assumptions say that a null value is not a token, a user or an object, and that
times and limits are natural numbers. Those that say more:

- `KeyTimesAssumption`: requests about a deletion end within `Patience`, and the sunset
  and the delay of the removal outlast them (`Cancellable + 2 * Patience <= Sunset`,
  `Cancellable + Patience <= HardDelete`). Without it a cleanup could remove the last
  key while a cancellation that was granted has yet to restore it. The code has 7, 30
  and 30 days, which leaves a request 11 days.
- `ColumnsAssumption`: finitely many rows, and the columns in the order in which
  `Resume` reads them.
- `LinksAssumption`: finitely many requests (`Sender`), because `LinksBounded` counts
  them.
- `BackoffAssumption`: the delays are positive. It is a fact of arithmetic, which the
  prover lacks for powers.

| Theorem | Says |
|---|---|
| `TypeCorrect` | `Spec => []TypeOK` |
| `OneLiveTokenPerFamily` | `Spec => []SingleLive` |
| `RotationIsExclusive` | `Spec => []OneSuccessor` |
| `ReplayIsContained` | `Spec => []ReplayKillsSuccessor` |
| `RevocationWindow` | `Spec => []KilledUnlessRaced` |
| `TokensReachTheirOwner` | `Spec => []HeldByOwner` |
| `Refinement` | `Spec => ImplementsFamilies`, the abstract family |
| `EndpointTypes`, `CodeIsSingleUse`, `CodeIsBound` | types of the endpoint, one family per code, for its client |
| `Composition` | the endpoint implements `RefreshTokens` |
| `EndpointSingleLive` | one live token per family behind the endpoint |
| `CodesNeedConsent` | `CSpec => []CodeWithinConsent` |
| `CodesNeedClient` | `CSpec => []ContinuationRevalidated` |
| `DuplicatesOnlyByLoss` | `Spec => []DuplicatesExplained` |
| `SettledRowsAreTrue` | `Spec => []SettledIsTrue` |
| `NoRowIsStranded` | `Spec => []OutboxTypeOK`: a pending row is due or will be, and the rows due are in one order |
| `KeysStayUnique` | `Spec => []KeysTypeOK`: never two active or two overlap keys |
| `TenantsCanSign` | `Spec => []ActiveKeyAvailable` |
| `SunsetKeysPublished` | `Spec => []JWKSThroughSunset` |
| `CancellationHolds` | `Spec => CancelledTenantSurvives` |
| `ResumesWhereItStopped` | `MKSpec => []ResumePoint` |
| `CutoverIsComplete` | `MKSpec => []CutoverComplete` |
| `RotationTypes` | `MKSpec => []RotationTypeOK`: `rows_done` never exceeds `rows_total` |
| `UpstreamIsGated` | `ConnSpec => []ConnectionGate` |
| `PageStaysUsable` | `ConnSpec => []PageUsable` |
| `SetupTokenIsSingleUse` | `IASpec => []RedeemedOnce` |
| `ResetIsFinal` | `IASpec => ResetWithdraws` |
| `AdminsRunOutOnlyByOverlap` | `IASpec => LastAdminKept` |
| `OneSetupTokenOpen` | `Spec => []BootTypeOK`: one open setup token at most |
| `TokensWithdrawn` | `MSpec => []TokensFollowRole` |
| `LastOwnerKept` | `MSpec => SequentialChangesKeepOwner` |
| `WithdrawnTokensLeaveTheList` | `SSpec => []WithdrawnTokenUnlisted` |
| `ErasedForGood` | `SSpec => []ErasureFinal` |
| `InvitesRedeemOnce` | `RegSpec => []SupersededInviteDead` |
| `SignupIsGated` | `RegSpec => GateHeld` |
| `LogoAlwaysServed` | `LSpec => []LogoServed` |
| `NothingLeftBehind` | `LSpec => []NoOrphans` |
| `ResetsExclude` | `PWSpec => []OneResetWins` |
| `LinksStayBounded` | `MLSpec => []LinksBounded` |
| `SignInProofs!CodeIsSingleUse` | `BCSpec => []CodeAcceptedOnce` |
| `RegenerationEndsCodes` | `BCSpec => RegenerationFinal` |
| `RemovedPasskeysRefused` | `FSpec => []RemovedPasskeyRefused` |
| `PasskeysRunOutOnlyByOverlap` | `FSpec => LastPasskeyKept` |
| `AdmissionStaysBounded` | `RLSpec => []AdmissionBounded` |

Each proof rests on an inductive invariant: the property itself, and what requests
in flight may count on. The lemmas then follow the actions.

**Refresh tokens** (`IndInv`). `LocksHeld`: the row a rotation has updated is
live until its commit (a revocation or a sweep waits for the lock), and two
rotations never hold the same row. Without it `SingleLive` is not inductive,
because the commit of a rotation creates a live token and has to consume the only
other one. `SnapshotsComplete`: a revocation in flight has every live token of
the families it is about in its snapshot, unless the family has raced. That is
what makes its commit leave nothing alive. `ReplaysPending`: a replay being
handled has the successor of its token in its snapshot if that is live.
`FamilyInherited` and `ReplayedConsumed` tie children to their parents and
replays to consumed tokens.

The refinement maps the live token of a family to `head`. `HeadNow` and
`HeadNext` characterise it without `CHOOSE`; every step then opens a family,
advances one, closes a set of them or leaves all heads as they were.

**Endpoint** (`TEInv`). Requests in flight name a client and an issued
code (`GrantsNamed`), a code is claimed by one process at a time
(`ClaimsExclusive`), a redeemed code which has not been minted for is the
source of no token (`RedemptionsFresh`), and undrawn tokens have no source.

**Consent.** A statement of another request that writes what a request has checked
marks that request, so the two properties are inductive once it is known that a
request under way has a user and asks for something (`VisitsNamed`).

**Email outbox** (`OutboxInv`). `Accounts` balances deliveries: each is lost, recorded
in an open transaction, or committed, and never two of these. The balance holds
because a row is in one batch at most and is handled once in it (`BatchesApart`). A
failed batch moves what it recorded to the losses, and `Cardinality` of the workers
that recorded it is then 0 or 1. Rows are counted, so the finiteness of the pending
rows is part of the invariant. `RowsOrdered` adds that the numbers of the rows due are
distinct and none exceeds their count; a commit renumbers them by rank, and a rank is
strictly monotone because the row itself is counted.

**Signing keys** (`KeysInv`). What a rotation has updated and not committed is still an
overlap and an active key, and no other job moves it (`Locks`); so its commit replaces
the active key and never only takes it away. A deletion that takes the active key
takes the overlap key too (`Behind`), so a cancellation restores the only key that is
published. While a cancellation can be granted there is a key to restore
(`Restorable`). `Deletions` concerns jobs that began before no key was active: a
cleanup that listed the tenant, or a deletion that had not seen a key, leaves one
behind, because its sunset is not over, which needs that requests about deletions end
in time (`Brief`). That the active key is the one that signs is an argument about the
clock: a rotation that none has overtaken read it later than every key was activated
(`Current`), so the overlap key is no newer than the active one unless `crossed`
(`ActiveIsNewest`). `DebtsKept`: nobody moves a key whose publication was promised.

**Master-key rotation** (`MKInv`). A run knows a column as it was when it read it, and
skips as many rows as were done when it began. `Counted(S)` fixes the set `S` of the
rows there were at the start, as many as `rows_total`. A row deleted since then
shifts the lists, and a run that skips by count can then pass over a row that was not
rewrapped. `RunSound` says why this does no harm: as long as the rows up to one are
still there, its number is exact; and a run counts all rows of the columns it has read
(`Whole`) only if it missed none. So a run that missed one cannot get to
`rows_total`, and reports no cutover. Only an added row can make up for the one that was
missed, which is the exception of `CutoverComplete`. `InStep` is the stronger fact for
one command and a quiet server: the rows done are the first ones. `WithinTotal` (in
`BoundsInv`) bounds every run by the total, even when rows are added.

**Ways in** (`ConnInv`). A callback that holds the credentials of a connection and was
not overtaken holds those of an enabled one (`CallbacksCurrent`). `PageUsable` follows
from the types, by the order in which `resolvePrimaryMethod` looks.

**Instance** (`InstanceInv`, `BootInv`). A token that is not consumed was redeemed by
nobody (`RedeemersKnown`), and as long as the count of a demotion is up to date two
admins are enabled (`DemotionsHold`). For the setup alone, a request past
`RedeemSetupToken` works with a consumed token (`RunsHold`).

**Members** (`MembersInv`). `ChecksHold`: a request which has passed the last-owner
check and was not overlapped has another owner to leave the tenant to; without it
the commit of the role could take the last one. A membership row has one writer
(`RowHeld`), so the role its trigger compared is there until the commit, and what the
trigger did not find was inserted since (`WritesSound`); a `createPAT` whose user has
lost the role is marked (`CreatesMarked`). `TokensFollowRole` follows at the commit.

**Sessions** (`SessionsInv`). `TornSettled`: a token that was withdrawn with its
session has a revoked one, which a late write leaves revoked, or none and nobody is
about to write one.

**Registration** (`RegInv`). An open invitation has made no account and was not
withdrawn (`OpenInvites`); what a visitor presents was drawn and cannot be drawn again
(`KeysDrawn`); what a gate made of the settings is what they say, unless they were
changed since (`GatesHold`).

**Logo** (`LogoInv`). `LogoServed` says nothing of objects that are about to become
the logo. `UploadsKept` (what an upload has written so far is still
there, and is not yet the logo), `UploadsOwn` (no other request has that object, as
its new or as its previous one) and `PreviousGone` (what a request retires or
deletes was the logo once and is not any more) do. `DoubtsApart`: an object whose
`UPDATE` is in doubt is nobody's new or previous object, so that writing its reference
late harms no other. `Tidy` describes, for a request
that is served alone and has not failed, what is stored at each of its statements;
`NoOrphans` is its case for nobody being served.

**Passwords** (`PasswordsInv`). A reset holds an unspent token. Once its sweep has
begun, every other unspent token of the account is in its snapshot or was issued
since (`ResetsSound`), and when the sweep is done it holds what it found; no two resets
hold the same row (`RowsApart`); so what is unspent was issued after every reset that
won had begun its sweep (`WinnersSeen`).

**Magic links** (`LinksInv`). `LinksBounded` is inductive with the types: a request that
has counted is itself in flight, and inserting turns it from one into the other.

**Backup codes** (`CodesInv`). Two transactions
never hold the same row (`LocksDisjoint`), a row that is held stays unused
(`LocksHold`), and what a regeneration saw and does not hold was used meanwhile
(`SnapshotsSettled`). The commit of either transaction then uses up rows nobody
else is about to accept, and a code that was accepted or replaced is used
(`AcceptedSpent`).

**Passkeys** (`FactorsInv`). Whoever counted more than one passkey, and none was removed
since, still has more than one (`CountsHold`); a TOTP code is compared with a TOTP
secret (`SecretsPicked`).

**Rate limiting** (`RateInv`). `BucketPays` is the potential: what was admitted since a
time and what the bucket holds now come from a full bucket and its refill since then.
`AdmissionBounded` speaks of stretches that are over, and follows from the potential
when they ended (`HistorySettled`, `PastBounded`).

Checked by TLC only: `RequestsFinish` and `Drains`, because liveness under fairness is
beyond the prover, and the four violations, of which a trace is the evidence.

## Findings

Runs that end in a violation, each of a sentence the repository says of itself.

1. `refresh_replay`: `handleReuse` revokes the rows its `UPDATE` saw when it
   started. If the family's newest token is being rotated at that moment, the
   child is inserted after the snapshot and stays usable. `ReplayKillsSuccessor`
   and `KilledUnlessRaced` say exactly what is left of the promise of ADR-0003.
2. `rate_lockout`: `Allow` refills only a bucket that still holds a token. Once it
   has less than one, it refuses for ever.
3. `bootstrap_second`: two setups that redeemed two tokens both count no admin,
   and both create one.
4. `demoted_admin`: `demoteInstanceAdmin` leaves the sessions of the admin alone,
   the middleware does not look at `disabled_at`, and the passkey of a disabled
   admin signs in again, while the dashboard tells the operator that the admin
   "will lose instance-admin access".

Seen while modelling, without a run of their own:

- `CleanupExpired` deletes a consumed refresh token after seven days; a replay
  after that is an unknown token and revokes nothing (`cleanup.go:15`).
- While a deletion is scheduled, `activeSigningKey` returns a sunsetting key
  (`provider.go:329`), and retired keys are published again, because
  `scheduleTenantDeletion` moves every key that is not sunsetting
  (`handlers.go:262`).
- A key inserted by a rotation while `scheduleTenantDeletion` waits for its row
  locks stays active. The deletion then cannot be cancelled (the unique index
  refuses a second active key), and the cleanup never removes the tenant.
- `ForceRotate` does not check again that the key is due: two tickers that listed
  the same tenant rotate twice and retire a key that had just entered overlap.
- `MintSetupToken` asks `IsFirstBoot` before its transaction; an admin created in
  between leaves a live setup token.
- Mails without a tenant (invitations of instance admins) have no sender in
  `serve`: the worker marks them failed at the first attempt (`worker.go:147`).
- `ConfirmCutover` does not look at the phase, and `rewrapRow` overwrites a secret
  that was stored after its column was listed. A row added during the rotation
  shifts the lists without being counted, so that a reported cutover can have
  missed a row.

- A blocked tenant: `oidcToken` does not ask `tenantAuthBlocked`
  (`oidc_handlers.go:168`), so a code issued before a suspension yields tokens
  after it, while `docs/playbook/README.md:65` says "New sign-ins stop immediately
  when suspended or deletion is scheduled." Passkey assertions, magic links and
  upstream callbacks do not ask it either. The model allows all of these.
- `updateTenantMember`: two owners who demote each other at once both find another
  owner; a tenant without owners remains. Likewise two deletions of passkeys take
  the last two, although the comment at `auth_account_handlers.go:140` calls it a
  guard, and two demotions disable all instance admins. The instance is then
  closed: `IsFirstBoot` counts disabled admins and `hasInstanceAdmin` does not, so
  the dashboard points to a setup that is refused, and only `cypra admin invite`
  leads back.
- Two overlapping regenerations of backup codes leave both sets usable
  (`DESIGN.md:538` speaks of one), and the limit of magic links can be exceeded by
  the requests in flight.
- TOTP: a pending enrolment can shadow the confirmed secret, a success confirms
  every row of the user, and a secret that was read before it was removed is still
  accepted.
- Two rotations at once, the second of which read the clock first: it waits for the
  locks, moves the key of the other to overlap and activates one with the older
  `activated_at`. `activeSigningKey` orders by that column (`provider.go:313`) and
  signs with the key in overlap until the next rotation, while
  `docs/adr/0005-oidc-signing-key-rotation-schedule.md:20` says "Token minting uses only
  `active` keys." `JWKSThroughSunset` is not touched by it, and verifiers see both keys.
- A reset token issued while the sweep of another reset of the account waits for a row
  lock is not in the snapshot of that sweep. Three tokens show it: a reset with one
  waits for the row of a second, a third is issued, the second rolls back; the first
  and the third both set a password.
- A personal access token inserted by a request that was admitted before the downgrade
  or removal of its user committed stays usable: neither the trigger nor, if it came
  first, `RevokeForUser` sees it.
- `putTenantLogo` undoes the upload when the `UPDATE` of the reference returns an error
  (`branding_logo.go:72-77`). If that was applied all the same (a cancelled request, a
  lost connection), the tenant refers to a retired row or to bytes that are gone, and
  the logo is not found until the next upload or deletion.
- A sign-up whose password the policy refuses has already created the account.
- An invitation for an address that has an account cannot be redeemed: the user is
  not inserted (`ON CONFLICT DO NOTHING`), the membership then refers to nobody and
  the transaction rolls back. The invitations that the user actions send are
  therefore never redeemed. A re-invitation keeps the first role, while its mail
  names the new one. An invited instance admin gets neither passkey nor codes.
- Erasure keeps `display_name`, the sessions and the tokens of the user.
- `must_reset` is written (`resetUserPassword`, `admin reset-passwords`) and read
  by nothing; `IsResetEnabled` is called by nothing.
- `rotateProjectSecret` replaces the secret at once, while `DESIGN.md:768` and
  `dashboard/src/screens.tsx:2000` speak of five minutes. `RecordConsent` replaces
  the scopes instead of adding to them. A continuation names no user.
- The saves of email and upstream providers are a `DELETE` and an `INSERT` without a
  unique constraint: two at once can leave two rows.
- `buildSocialButtons` skips Google always, although its comment makes that depend
  on the older table; a Google connection whose older row was disabled has no
  button. `saveSocialConnection` can bring back a connection deleted meanwhile. A
  connection deleted during a callback makes `LoadSocial` return the open default
  policy. The signed state is not single use. The older Google callback has no
  check of the domain.

## Not modelled

With the reasons in `PROJECT.json`: tenant isolation in the database layer (a
rewriting of queries), cryptographic primitives, the storage backends, backups,
migrations, audit records (written, never read back to decide anything), bot
mitigation, logging and metrics, the SDK and the dashboard. Of modelled parts:
the signing and parsing of access tokens, signature counters, the challenge rows
of instance admins, the parsing and defaults of policies, read-only lists,
summaries and exports, page rendering, and the order of the shutdown of `serve`.

## Plan

1. A theorem that `InstanceAdmins` implements an abstract setup that knows tokens
   and admins only, beside the refinements of refresh tokens and of the endpoint.
2. The operators that the proofs unfold again and again (`LockedByOthers`,
   `Acquired`, `Selectable`) described once by lemmas about READ COMMITTED, so that
   the proofs about keys, codes and mails rest on the same few facts.
