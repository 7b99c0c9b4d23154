------------------------------ MODULE Sessions -------------------------------
(***************************************************************************)
(* Sessions, the sessions that stand for personal access tokens, and the   *)
(* erasure of a user.                                                      *)
(*   internal/auth/auth.go                  MiddlewareWithPAT,             *)
(*       actorFromSessionCookie, upsertPATSession                          *)
(*   internal/httpserver/session_helpers.go establishUserSession           *)
(*   internal/httpserver/auth_handlers.go   authLogout,                    *)
(*       authRevokeOtherSessions                                           *)
(*   internal/httpserver/auth_account_handlers.go  authRevokeSession       *)
(*   internal/httpserver/pat_handlers.go    revokePAT                      *)
(*   internal/httpserver/phase10_handlers.go  deleteUserDSR                *)
(*   internal/httpserver/profile_handlers.go  patchUserMe                  *)
(* A token's session row is written by a goroutine of its own, after the   *)
(* request that used the token was let through.                            *)
(***************************************************************************)
EXTENDS Naturals, FiniteSets

CONSTANTS
    Person,   \* users of the tenant
    Cookie,   \* ids of cookie sessions that can be drawn
    Bearer,   \* personal access tokens
    Nobody

ASSUME SessionsAssumption ==
    /\ Nobody \notin Person
    /\ Bearer \cap Cookie = {}

VARIABLES
    bearerOf,  \* personal_access_tokens.user_id
    withdrawn, \* tokens whose revoked_at IS NOT NULL
    sessOwner, \* sessions.subject_id; a token's session has the token's id
    revoked,   \* sessions whose revoked_at IS NOT NULL
    expired,   \* tokens and sessions whose expires_at has passed
    upserts,   \* tokens whose session a goroutine has yet to write
    tearing,   \* tokens for which revokePAT has its session still to revoke
    erased,    \* users.deleted_at IS NOT NULL
    personal,  \* users whose row holds an e-mail address or metadata of theirs
    torn,      \* history: tokens withdrawn together with their session
    overtaken  \* history: tokens whose first session write was still to come then

userVars == <<erased, personal>>
tokenVars == <<bearerOf, withdrawn, tearing, torn, overtaken>>
svars == <<tokenVars, userVars, sessOwner, revoked, expired, upserts>>

Id == Bearer \cup Cookie

(* The WHERE clause of actorFromSessionCookie and of currentUserSession.   *)
SessionLive(s) == sessOwner[s] # Nobody /\ s \notin revoked \cup expired

(* The WHERE clause of Authenticate.                                       *)
BearerLive(t) == t \notin withdrawn \cup expired

(* The actor MiddlewareWithPAT resolves from a cookie or a token.          *)
Actor(x) == IF x \in Bearer THEN bearerOf[x] ELSE sessOwner[x]

Resolves(x) == IF x \in Bearer THEN BearerLive(x) ELSE SessionLive(x)

(* authListSessions: what the session list of a user shows.                *)
authListSessions(u) == {s \in Id : SessionLive(s) /\ sessOwner[s] = u}

SInit ==
    /\ bearerOf \in [Bearer -> Person]
    /\ withdrawn = {} /\ tearing = {} /\ torn = {} /\ overtaken = {}
    /\ sessOwner = [s \in Id |-> Nobody]
    /\ revoked = {} /\ expired = {} /\ upserts = {}
    /\ erased = {} /\ personal = Person

-----------------------------------------------------------------------------
(* Authenticate; the middleware starts a goroutine that writes the session.*)
(* More than one for a token write the same row.                           *)
Authenticate(t) ==
    /\ BearerLive(t)
    /\ upserts' = upserts \cup {t}
    /\ UNCHANGED <<tokenVars, userVars, sessOwner, revoked, expired>>

(* Fault: the upsert clears revoked_at.                                    *)
KeptRevoked_Cleared(t) == revoked \ {t}

(* ON CONFLICT DO UPDATE leaves revoked_at alone.                          *)
KeptRevoked(t) == revoked

UpsertPATSession(t) ==
    /\ t \in upserts
    /\ sessOwner' = [sessOwner EXCEPT ![t] = bearerOf[t]]
    /\ revoked' = KeptRevoked(t)
    /\ upserts' = upserts \ {t}
    /\ UNCHANGED <<tokenVars, userVars, expired>>

(* Its second of time is over, or the server dies.                         *)
LoseUpsert(t) ==
    /\ t \in upserts
    /\ upserts' = upserts \ {t}
    /\ UNCHANGED <<tokenVars, userVars, sessOwner, revoked, expired>>

(* revokePAT by an instance admin: the UPDATE matches.                     *)
RevokeAnyPAT(t) ==
    /\ t \notin withdrawn
    /\ withdrawn' = withdrawn \cup {t}
    /\ tearing' = tearing \cup {t}
    /\ UNCHANGED <<bearerOf, torn, overtaken, userVars, sessOwner, revoked, expired, upserts>>

(* revokePAT by a user: the UPDATE may match nothing and is not looked at. *)
RevokePAT(x, t) ==
    /\ Resolves(x)
    /\ withdrawn' = IF bearerOf[t] = Actor(x) THEN withdrawn \cup {t} ELSE withdrawn
    /\ tearing' = tearing \cup {t}
    /\ UNCHANGED <<bearerOf, torn, overtaken, userVars, sessOwner, revoked, expired, upserts>>

(* A change of membership: its trigger, or RevokeForUser.  The sessions    *)
(* stay.                                                                   *)
WithdrawForUser(u) ==
    /\ withdrawn' = withdrawn \cup {t \in Bearer : bearerOf[t] = u}
    /\ UNCHANGED <<bearerOf, tearing, torn, overtaken, userVars, sessOwner, revoked, expired,
                   upserts>>

(* Fault: the session of a token is looked for among those of cookies.     *)
TokenSession_Cookie(t) == {s \in Cookie : s = t}

(* The rows the second UPDATE of revokePAT matches.                        *)
TokenSession(t) == {s \in Bearer : s = t /\ sessOwner[s] # Nobody}

(* revokePAT: the token's session is revoked.                              *)
TearDown(t) ==
    /\ t \in tearing
    /\ revoked' = revoked \cup TokenSession(t)
    /\ tearing' = tearing \ {t}
    /\ torn' = torn \cup ({t} \cap withdrawn)
    /\ overtaken' = overtaken \cup {s \in {t} \cap upserts : sessOwner[s] = Nobody}
    /\ UNCHANGED <<bearerOf, withdrawn, userVars, sessOwner, expired, upserts>>

(* That UPDATE fails, which revokePAT does not report, or the server dies. *)
LoseTearDown(t) ==
    /\ t \in tearing
    /\ tearing' = tearing \ {t}
    /\ UNCHANGED <<bearerOf, withdrawn, torn, overtaken, userVars, sessOwner, revoked,
                   expired, upserts>>

-----------------------------------------------------------------------------
(* establishUserSession, at the end of a sign-in.                          *)
EstablishUserSession(u, s) ==
    /\ sessOwner[s] = Nobody
    /\ u \notin erased
    /\ sessOwner' = [sessOwner EXCEPT ![s] = u]
    /\ UNCHANGED <<tokenVars, userVars, revoked, expired, upserts>>

RevokeSessions(S) ==
    /\ revoked' = revoked \cup S
    /\ UNCHANGED <<tokenVars, userVars, sessOwner, expired, upserts>>

(* authLogout: the session of the cookie, whoever presents it.             *)
Logout(s) ==
    /\ sessOwner[s] # Nobody /\ s \notin revoked
    /\ RevokeSessions({s})

(* authRevokeSession: any other session of the caller, a token's too.      *)
RevokeSession(x, other) ==
    /\ Resolves(x)
    /\ other # x /\ other \notin revoked /\ sessOwner[other] = Actor(x)
    /\ RevokeSessions({other})

(* authRevokeOtherSessions.                                                *)
RevokeOthers(x) ==
    /\ Resolves(x)
    /\ RevokeSessions({s \in Id : sessOwner[s] = Actor(x)} \ ({x} \cap Cookie))

(* Time passes; a token and its session expire together.                   *)
Expire(x) ==
    /\ x \notin expired
    /\ Actor(x) # Nobody
    /\ expired' = expired \cup {x}
    /\ UNCHANGED <<tokenVars, userVars, sessOwner, revoked, upserts>>

(* cypra admin revoke-tenant-tokens, its first UPDATE; the second is       *)
(* RevokeTenant of RefreshTokens.  Personal access tokens stay.            *)
AdminRevokeTenantTokens ==
    /\ revoked' = revoked \cup {s \in Id : sessOwner[s] # Nobody}
    /\ UNCHANGED <<tokenVars, userVars, sessOwner, expired, upserts>>

(* deleteUserDSR: one transaction.  Memberships, tokens and sessions stay. *)
DeleteUserDSR(u) ==
    /\ erased' = erased \cup {u}
    /\ personal' = personal \ {u}
    /\ UNCHANGED <<tokenVars, sessOwner, revoked, expired, upserts>>

(* Fault: the UPDATE does not look at deleted_at.                          *)
Patched_Any(u) == {u}

(* The row the UPDATE of patchUserMe matches.                              *)
Patched(u) == {u} \ erased

(* patchUserMe: a session outlives the erasure of its user.                *)
PatchUserMe(x) ==
    /\ Resolves(x)
    /\ personal' = personal \cup Patched(Actor(x))
    /\ UNCHANGED <<tokenVars, erased, sessOwner, revoked, expired, upserts>>

SNext ==
    \/ \E t \in Bearer :
          \/ Authenticate(t) \/ UpsertPATSession(t) \/ LoseUpsert(t)
          \/ RevokeAnyPAT(t) \/ TearDown(t) \/ LoseTearDown(t)
          \/ \E x \in Id : RevokePAT(x, t)
    \/ \E u \in Person :
          \/ WithdrawForUser(u) \/ DeleteUserDSR(u)
          \/ \E s \in Cookie : EstablishUserSession(u, s)
    \/ \E s \in Cookie : Logout(s)
    \/ AdminRevokeTenantTokens
    \/ \E x \in Id :
          \/ RevokeOthers(x) \/ Expire(x) \/ PatchUserMe(x)
          \/ \E other \in Id : RevokeSession(x, other)

SSpec == SInit /\ [][SNext]_svars

-----------------------------------------------------------------------------
SessionsTypeOK ==
    /\ bearerOf \in [Bearer -> Person]
    /\ sessOwner \in [Id -> Person \cup {Nobody}]
    /\ withdrawn \cup tearing \cup upserts \cup torn \cup overtaken \subseteq Bearer
    /\ revoked \subseteq {x \in Id : sessOwner[x] # Nobody}
    /\ expired \subseteq Id
    /\ erased \subseteq Person /\ personal \subseteq Person

(* The session list stops showing a withdrawn token, unless the token had  *)
(* no session yet when revokePAT revoked it and a request that used the    *)
(* token was about to write the first.                                     *)
WithdrawnTokenUnlisted ==
    \A t \in torn : t \in authListSessions(bearerOf[t]) => t \in overtaken

(* An erased user's row never holds an e-mail address or metadata of the   *)
(* user again, although the sessions and tokens of the user still work.    *)
(* The display name is not meant: deleteUserDSR leaves it.                 *)
ErasureFinal == erased \cap personal = {}

=============================================================================
