---------------------------- MODULE TokenEndpoint ----------------------------
(***************************************************************************)
(* The authorization-code grant in front of the refresh tokens:            *)
(*   internal/httpserver/oidc_handlers.go  oidcAuthorize, oidcToken        *)
(*   internal/oidc/provider.go             Authorize,                      *)
(*                                         exchangeAuthorizationCode       *)
(*   internal/httpserver/handlers.go       suspend, resume, schedule       *)
(*   internal/oidc/cleanup.go              CleanupExpired (codes)          *)
(* The module composes with RefreshTokens: a process serves one request,   *)
(* which is either one of RefreshTokens (req) or an authorization or code  *)
(* exchange (grant) until the exchange calls Mint.                         *)
(***************************************************************************)
EXTENDS RefreshTokens

CONSTANTS
    Code,     \* authorization codes that can be drawn
    NoCode,
    CodeTTL   \* 1 minute

ASSUME CodeAssumption == NoCode \notin Code /\ CodeTTL \in Nat \ {0}

VARIABLES
    blocked,      \* the tenant is suspended or scheduled for deletion
    codes,        \* rows of oidc_authorization_codes
    codesIssued,  \* codes drawn so far
    codesUsed,    \* consumed_at IS NOT NULL
    codeClient,   \* oidc_client_uuid
    codeExpires,  \* expires_at
    grant,        \* the authorization or exchange each process is serving
    source        \* history: the code each first token was minted for

codeVars == <<codes, codesIssued, codesUsed, codeClient, codeExpires>>
allVars  == <<vars, blocked, codeVars, grant, source>>

(***************************************************************************)
(* pc: "authorizing" tenantAuthBlocked was false, the code is not          *)
(* inserted; "exchange" the UPDATE is about to run or waits for the row;   *)
(* "claimed" the row is updated and not committed; "redeemed" committed,   *)
(* the tokens are not minted.  genuine: redirect_uri and code_verifier     *)
(* match the row.                                                          *)
(***************************************************************************)
Grant == [pc : {"none", "authorizing", "exchange", "claimed", "redeemed"},
          code : Code \cup {NoCode}, by : Client \cup {NoClient}, at : Nat,
          genuine : BOOLEAN]

NoGrant == [pc |-> "none", code |-> NoCode, by |-> NoClient, at |-> 0,
            genuine |-> FALSE]

Free(p) == req[p].pc = "idle" /\ grant[p].pc = "none"

CodeUsable(k, time) == k \in codes /\ k \notin codesUsed /\ codeExpires[k] > time

(* Fault: the code is read, checked and marked in separate transactions.   *)
CodeFree_Unlocked(p, k) == TRUE

(* No other exchange has updated the code's row without committing.        *)
CodeFree(p, k) ==
    \A q \in Proc \ {p} : ~(grant[q].pc = "claimed" /\ grant[q].code = k)

(* Fault: the client of the code is not compared.                          *)
Matches_AnyClient(g) == g.genuine

(* Client, redirect URI and PKCE verifier are those of the code.           *)
Matches(g) == g.genuine /\ codeClient[g.code] = g.by

TEInit ==
    /\ Init
    /\ blocked = FALSE
    /\ codes = {} /\ codesIssued = {} /\ codesUsed = {}
    /\ codeClient = [k \in Code |-> NoClient]
    /\ codeExpires = [k \in Code |-> 0]
    /\ grant = [p \in Proc |-> NoGrant]
    /\ source = [t \in Token |-> NoCode]

-----------------------------------------------------------------------------
(* oidcAuthorize: the tenant is not blocked; the rest of the request       *)
(* (session, consent) is still to run.                                     *)
AuthorizeBegin(p, c) ==
    /\ Free(p)
    /\ ~blocked
    /\ grant' = [grant EXCEPT ![p] = [pc |-> "authorizing", code |-> NoCode, by |-> c,
                                      at |-> 0, genuine |-> FALSE]]
    /\ UNCHANGED <<vars, blocked, codeVars, source>>

(* Authorize inserts the code.                                             *)
AuthorizeFinish(p, k) ==
    /\ grant[p].pc = "authorizing"
    /\ k \notin codesIssued
    /\ codesIssued' = codesIssued \cup {k}
    /\ codes' = codes \cup {k}
    /\ codeClient' = [codeClient EXCEPT ![k] = grant[p].by]
    /\ codeExpires' = [codeExpires EXCEPT ![k] = now + CodeTTL]
    /\ grant' = [grant EXCEPT ![p] = NoGrant]
    /\ UNCHANGED <<vars, blocked, codesUsed, source>>

(* oidcToken, grant_type=authorization_code: an authenticated client       *)
(* presents a code.                                                        *)
Exchange(p, k, c, genuine) ==
    /\ Free(p)
    /\ k \in codesIssued
    /\ grant' = [grant EXCEPT ![p] = [pc |-> "exchange", code |-> k, by |-> c,
                                      at |-> now, genuine |-> genuine]]
    /\ UNCHANGED <<vars, blocked, codeVars, source>>

(* The UPDATE matches the row of the code.                                 *)
ClaimCode(p) ==
    /\ grant[p].pc = "exchange"
    /\ CodeUsable(grant[p].code, grant[p].at)
    /\ CodeFree(p, grant[p].code)
    /\ grant' = [grant EXCEPT ![p].pc = "claimed"]
    /\ UNCHANGED <<vars, blocked, codeVars, source>>

(* The UPDATE matches no row: invalid_grant.                               *)
MissCode(p) ==
    /\ grant[p].pc = "exchange"
    /\ ~CodeUsable(grant[p].code, grant[p].at)
    /\ grant' = [grant EXCEPT ![p] = NoGrant]
    /\ UNCHANGED <<vars, blocked, codeVars, source>>

(* A mismatch rolls the transaction back: the code is not used up.         *)
RejectExchange(p) ==
    /\ grant[p].pc = "claimed"
    /\ ~Matches(grant[p])
    /\ grant' = [grant EXCEPT ![p] = NoGrant]
    /\ UNCHANGED <<vars, blocked, codeVars, source>>

CommitExchange(p) ==
    /\ grant[p].pc = "claimed"
    /\ Matches(grant[p])
    /\ codesUsed' = codesUsed \cup {grant[p].code}
    /\ grant' = [grant EXCEPT ![p].pc = "redeemed"]
    /\ UNCHANGED <<vars, blocked, codes, codesIssued, codeClient, codeExpires, source>>

(* mintTokens: the refresh token is minted in a statement of its own.      *)
MintTokens(p, t) ==
    /\ grant[p].pc = "redeemed"
    /\ Mint(p, t, grant[p].by)
    /\ grant' = [grant EXCEPT ![p] = NoGrant]
    /\ source' = [source EXCEPT ![t] = grant[p].code]
    /\ UNCHANGED <<blocked, codeVars>>

(* mintAccessPair or Mint fails, or the server dies: an open transaction   *)
(* rolls back, a redeemed code stays used up without tokens.               *)
AbortGrant(p) ==
    /\ grant[p].pc # "none"
    /\ grant' = [grant EXCEPT ![p] = NoGrant]
    /\ UNCHANGED <<vars, blocked, codeVars, source>>

-----------------------------------------------------------------------------
(* A step of RefreshTokens by a process that serves no grant.  The commit  *)
(* of a suspension or of a scheduled deletion also blocks the tenant.      *)
RefreshStep(p) ==
    /\ grant[p].pc = "none"
    /\ \/ \E t \in Token, c \in Client : Present(p, t, c)
       \/ \E t \in Token : Revoke(p, t)
       \/ \E reason \in Reasons : RevokeTenant(p, reason)
       \/ Step(p)
       \/ Abort(p)
    /\ blocked' = (blocked \/ (req[p].why = "suspend" /\ CommitRevocation(p)))
    /\ UNCHANGED <<codeVars, grant, source>>

(* resumeTenant, or cancelTenantDeletion.                                  *)
Resume ==
    /\ blocked
    /\ blocked' = FALSE
    /\ UNCHANGED <<vars, codeVars, grant, source>>

PurgeableCodes == {k \in codes : codeExpires[k] + Retention < now}

(* CleanupExpired, its DELETE from oidc_authorization_codes.               *)
CleanupCodes ==
    /\ PurgeableCodes # {}
    /\ \A q \in Proc : grant[q].pc = "claimed" => grant[q].code \notin PurgeableCodes
    /\ codes' = codes \ PurgeableCodes
    /\ UNCHANGED <<vars, blocked, codesIssued, codesUsed, codeClient, codeExpires,
                   grant, source>>

Environment ==
    /\ Cleanup \/ Tick
    /\ UNCHANGED <<blocked, codeVars, grant, source>>

GrantStep(p) ==
    \/ ClaimCode(p)
    \/ MissCode(p)
    \/ RejectExchange(p)
    \/ CommitExchange(p)
    \/ \E k \in Code : AuthorizeFinish(p, k)
    \/ \E t \in Token : MintTokens(p, t)

TENext ==
    \/ \E p \in Proc, c \in Client : AuthorizeBegin(p, c)
    \/ \E p \in Proc, k \in Code, c \in Client, genuine \in BOOLEAN :
          Exchange(p, k, c, genuine)
    \/ \E p \in Proc : GrantStep(p) \/ AbortGrant(p) \/ RefreshStep(p)
    \/ Resume
    \/ CleanupCodes
    \/ Environment

TESpec == TEInit /\ [][TENext]_allVars

-----------------------------------------------------------------------------
TETypeOK ==
    /\ TypeOK
    /\ blocked \in BOOLEAN
    /\ codesIssued \subseteq Code
    /\ codes \subseteq codesIssued /\ codesUsed \subseteq codesIssued
    /\ codeClient \in [Code -> Client \cup {NoClient}]
    /\ codeExpires \in [Code -> Nat]
    /\ grant \in [Proc -> Grant]
    /\ source \in [Token -> Code \cup {NoCode}]

(* However many exchanges of a code race, abort and retry, at most one     *)
(* family of refresh tokens comes out of it.                               *)
OneFamilyPerCode ==
    \A t, u \in issued : source[t] = source[u] /\ source[t] # NoCode => t = u

(* A first token belongs to the client its code was issued to, whoever     *)
(* presented the code before.                                              *)
GrantBoundToClient ==
    \A t \in issued : source[t] # NoCode =>
        client[t] = codeClient[source[t]] /\ source[t] \in codesUsed

(* The grant is a client of RefreshTokens and never disturbs it: whatever  *)
(* the two do together is a behaviour of RefreshTokens alone.              *)
ImplementsRefreshTokens == Spec

(* The playbook: when the tenant is suspended or its deletion is scheduled *)
(* new sign-ins stop immediately and refresh tokens are revoked, so while  *)
(* the tenant is blocked no refresh token can be used.                     *)
BlockedTenantHasNoToken ==
    blocked => \A t \in issued : ~Usable(t, now)

=============================================================================
