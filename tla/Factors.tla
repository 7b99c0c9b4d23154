------------------------------- MODULE Factors -------------------------------
(***************************************************************************)
(* Passkeys, as the primary and as a second factor, and TOTP secrets.      *)
(*   internal/auth/webauthn/webauthn.go, internal/auth/webauthn2fa         *)
(*   internal/auth/totp/totp.go                Enroll, Verify              *)
(*   internal/httpserver/auth_handlers.go      authPasskeyRegister, ...    *)
(*   internal/httpserver/auth_account_handlers.go  authDeletePasskey       *)
(*   internal/httpserver/user_action_handlers.go   disableUserMFA          *)
(* A ceremony is a row that Begin* inserts and Finish* consumes with one   *)
(* UPDATE; the credentials are read afterwards and written back after the  *)
(* library has verified the response.  Sign counters are left out.         *)
(***************************************************************************)
EXTENDS Naturals, FiniteSets

CONSTANTS
    Member,      \* users of the tenant
    Credential,  \* WebAuthn credentials that authenticators can create
    TotpKey,     \* TOTP secrets that can be drawn
    Ceremony,    \* live challenges there can be at once
    Browser,     \* requests that can be in flight at once
    None

ASSUME FactorsAssumption ==
    /\ None \notin Member \cup Credential \cup TotpKey \cup Browser
    /\ Credential \cap TotpKey = {}

VARIABLES
    ceremony,    \* webauthn_challenges
    credOf,      \* passkey_credentials: the user of each credential
    purpose,     \* and what it is for
    totpOf,      \* totp_credentials: the user of each secret
    confirmed,   \* the rank of confirmed_at, 0 where it IS NULL
    serving,     \* what each request is doing
    stale        \* history: factors accepted after they had been removed

totpVars == <<totpOf, confirmed>>
keyVars == <<credOf, purpose>>
fvars == <<ceremony, keyVars, totpVars, serving, stale>>

Purposes == {"primary", "second_factor"}

(* kind and user_id of a challenge.                                        *)
Challenge(op, for, u) == [op |-> op, for |-> for, who |-> u]

(* No challenge, or one that is consumed or expired.                       *)
NoChallenge == Challenge("none", "primary", None)

(***************************************************************************)
(* pc: "register" and "assert" the challenge is consumed; "verified" the   *)
(* library accepted the response of factor fac; "picked" a TOTP code is    *)
(* compared with secret fac; "counted" authDeletePasskey found more than   *)
(* one passkey.  overlapped: one of them was removed since.                *)
(***************************************************************************)
Serving(where, u, for, fac) ==
    [pc |-> where, who |-> u, for |-> for, fac |-> fac, overlapped |-> FALSE]

NotServing == Serving("idle", None, "primary", None)

Serves(p, s) == serving' = [serving EXCEPT ![p] = s]

Keys(u) == {k \in Credential : credOf[k] = u}

TotpKeys(u) == {s \in TotpKey : totpOf[s] = u}

(* loadCredentials: the user's credentials of a purpose.                   *)
LoadCredentials(u, for) == {k \in Keys(u) : purpose[k] = for}

FInit ==
    /\ ceremony = [c \in Ceremony |-> NoChallenge]
    /\ credOf = [k \in Credential |-> None] /\ purpose = [k \in Credential |-> "primary"]
    /\ totpOf = [s \in TotpKey |-> None] /\ confirmed = [s \in TotpKey |-> 0]
    /\ serving = [p \in Browser |-> NotServing]
    /\ stale = {}

-----------------------------------------------------------------------------
(* storeSession.                                                           *)
StoreSession(c, row) ==
    /\ ceremony[c] = NoChallenge
    /\ ceremony' = [ceremony EXCEPT ![c] = row]
    /\ UNCHANGED <<keyVars, totpVars, serving, stale>>

BeginRegistration(c, u) == StoreSession(c, Challenge("register", "primary", u))

BeginEnroll(c, u) == StoreSession(c, Challenge("register", "second_factor", u))

(* Without a user: the browser chooses the credential.                     *)
BeginAssertion(c) == StoreSession(c, Challenge("assert", "primary", None))

(* For a user or, with None, for whoever answers.                          *)
BeginVerify(c, u) == StoreSession(c, Challenge("assert", "second_factor", u))

(* consumeSession, of a kind; op and for are the kind.                     *)
ConsumeSession(p, c, op, for) ==
    /\ serving[p].pc = "idle"
    /\ ceremony[c].op = op /\ ceremony[c].for = for
    /\ ceremony' = [ceremony EXCEPT ![c] = NoChallenge]
    /\ Serves(p, Serving(ceremony[c].op, ceremony[c].who, ceremony[c].for, None))
    /\ UNCHANGED <<keyVars, totpVars, stale>>

(* The handlers: the first request begins a ceremony, the second, with its *)
(* id, consumes it.  A registration is begun by the user or for the user   *)
(* by an instance admin (requireUserFactorOwner).                          *)
AuthPasskeyRegister(p, c, u) ==
    BeginRegistration(c, u) \/ ConsumeSession(p, c, "register", "primary")

AuthWebAuthn2FAEnroll(p, c, u) ==
    BeginEnroll(c, u) \/ ConsumeSession(p, c, "register", "second_factor")

AuthPasskeyAssert(p, c) ==
    BeginAssertion(c) \/ ConsumeSession(p, c, "assert", "primary")

AuthWebAuthn2FAVerify(p, c, u) ==
    BeginVerify(c, u) \/ ConsumeSession(p, c, "assert", "second_factor")

ExpireCeremony(c) ==
    /\ ceremony[c] # NoChallenge
    /\ ceremony' = [ceremony EXCEPT ![c] = NoChallenge]
    /\ UNCHANGED <<keyVars, totpVars, serving, stale>>

(* FinishRegistration and FinishEnroll: insertCredential.                  *)
FinishRegistration(p, k) ==
    /\ serving[p].pc = "register"
    /\ credOf[k] = None /\ k \notin stale
    /\ \A q \in Browser : serving[q].fac # k
    /\ credOf' = [credOf EXCEPT ![k] = serving[p].who]
    /\ purpose' = [purpose EXCEPT ![k] = serving[p].for]
    /\ Serves(p, NotServing)
    /\ UNCHANGED <<ceremony, totpVars, stale>>

(* FinishAssertion and FinishVerify: the credential is loaded, with its    *)
(* user, and the library accepts the response.                             *)
FinishAssertion(p, k) ==
    /\ serving[p].pc = "assert"
    /\ credOf[k] # None
    /\ k \in LoadCredentials(credOf[k], serving[p].for)
    /\ serving[p].who \in {None, credOf[k]}
    /\ Serves(p, Serving("verified", credOf[k], purpose[k], k))
    /\ UNCHANGED <<ceremony, keyVars, totpVars, stale>>

(* Fault: the number of rows the UPDATE matched is not looked at.          *)
RowMatched_Any(k, for) == TRUE

(* The row updateCredential has to match.                                  *)
RowMatched(k, for) == credOf[k] # None /\ purpose[k] = for

(* updateCredential: the factor is accepted if its row is still there.     *)
UpdateCredential(p) ==
    LET k == serving[p].fac IN
    /\ serving[p].pc = "verified"
    /\ RowMatched(k, serving[p].for)
    /\ stale' = IF credOf[k] = None THEN stale \cup {k} ELSE stale
    /\ Serves(p, NotServing)
    /\ UNCHANGED <<ceremony, keyVars, totpVars>>

-----------------------------------------------------------------------------
(* Fault: one passkey is enough.                                           *)
MoreThanOne_Any(u) == Keys(u) # {}

MoreThanOne(u) == Cardinality(Keys(u)) > 1

(* authDeletePasskey: the count, over both purposes.                       *)
CountPasskeys(p, u) ==
    /\ serving[p].pc = "idle"
    /\ MoreThanOne(u)
    /\ Serves(p, Serving("counted", u, "primary", None))
    /\ UNCHANGED <<ceremony, keyVars, totpVars, stale>>

(* The requests that counted the passkeys of u are out of date.            *)
Overtaken(u, p) ==
    [q \in Browser |->
        IF q = p THEN NotServing
        ELSE [serving[q] EXCEPT !.overlapped = @ \/ (serving[q].pc = "counted" /\ serving[q].who = u)]]

(* authDeletePasskey: the DELETE and the commit.                           *)
DeletePasskey(p, k) ==
    /\ serving[p].pc = "counted"
    /\ credOf[k] = serving[p].who
    /\ credOf' = [credOf EXCEPT ![k] = None]
    /\ serving' = Overtaken(serving[p].who, p)
    /\ UNCHANGED <<ceremony, purpose, totpVars, stale>>

(* disableUserMFA: both DELETEs in one transaction.                        *)
DisableUserMFA(u) ==
    /\ TotpKeys(u) \cup LoadCredentials(u, "second_factor") # {}
    /\ totpOf' = [s \in TotpKey |-> IF s \in TotpKeys(u) THEN None ELSE totpOf[s]]
    /\ confirmed' = [s \in TotpKey |-> IF s \in TotpKeys(u) THEN 0 ELSE confirmed[s]]
    /\ credOf' = [k \in Credential |->
                    IF k \in LoadCredentials(u, "second_factor") THEN None ELSE credOf[k]]
    /\ serving' = Overtaken(u, None)
    /\ UNCHANGED <<ceremony, purpose, stale>>

(* cypra admin reset-passkey: every passkey of the user, of both purposes. *)
AdminResetPasskey(u) ==
    /\ Keys(u) # {}
    /\ credOf' = [k \in Credential |-> IF k \in Keys(u) THEN None ELSE credOf[k]]
    /\ serving' = Overtaken(u, None)
    /\ UNCHANGED <<ceremony, purpose, totpVars, stale>>

-----------------------------------------------------------------------------
(* authTOTPEnroll: Enroll adds a row, whatever the user already has.       *)
EnrollTOTP(u, s) ==
    /\ totpOf[s] = None
    /\ \A q \in Browser : serving[q].fac # s
    /\ totpOf' = [totpOf EXCEPT ![s] = u]
    /\ UNCHANGED <<ceremony, keyVars, confirmed, serving, stale>>

(* ORDER BY confirmed_at NULLS FIRST LIMIT 1.                              *)
FirstKeys(u) == {s \in TotpKeys(u) : \A t \in TotpKeys(u) : confirmed[s] <= confirmed[t]}

(* Verify reads the secret to compare.                                     *)
PickSecret(p, u, s) ==
    /\ serving[p].pc = "idle"
    /\ s \in FirstKeys(u)
    /\ Serves(p, Serving("picked", u, "second_factor", s))
    /\ UNCHANGED <<ceremony, keyVars, totpVars, stale>>

AuthTOTPVerify(p, u, s) == PickSecret(p, u, s)

HostedFactor(p, u, s) == PickSecret(p, u, s)

(* Verify: the code matches; every secret of the user is confirmed.        *)
VerifyTOTP(p) ==
    LET u    == serving[p].who
        rank == 1 + Cardinality({n \in 1..Cardinality(TotpKey) : \E s \in TotpKey : confirmed[s] = n})
    IN
    /\ serving[p].pc = "picked"
    /\ confirmed' = [s \in TotpKey |-> IF s \in TotpKeys(u) /\ confirmed[s] = 0
                                    THEN rank ELSE confirmed[s]]
    /\ stale' = IF totpOf[serving[p].fac] # u THEN stale \cup {serving[p].fac} ELSE stale
    /\ Serves(p, NotServing)
    /\ UNCHANGED <<ceremony, keyVars, totpOf>>

(* The code or the response is wrong, a statement fails, the server dies.  *)
AbandonServing(p) ==
    /\ serving[p].pc # "idle"
    /\ Serves(p, NotServing)
    /\ UNCHANGED <<ceremony, keyVars, totpVars, stale>>

FNext ==
    \/ \E c \in Ceremony : ExpireCeremony(c)
    \/ \E p \in Browser, c \in Ceremony :
          \/ AuthPasskeyAssert(p, c)
          \/ \E u \in Member : AuthPasskeyRegister(p, c, u) \/ AuthWebAuthn2FAEnroll(p, c, u)
          \/ \E u \in Member \cup {None} : AuthWebAuthn2FAVerify(p, c, u)
    \/ \E p \in Browser :
          \/ UpdateCredential(p) \/ VerifyTOTP(p) \/ AbandonServing(p)
          \/ \E k \in Credential :
                FinishRegistration(p, k) \/ FinishAssertion(p, k) \/ DeletePasskey(p, k)
          \/ \E u \in Member : CountPasskeys(p, u)
          \/ \E u \in Member, s \in TotpKey : AuthTOTPVerify(p, u, s) \/ HostedFactor(p, u, s)
    \/ \E u \in Member :
          \/ DisableUserMFA(u) \/ AdminResetPasskey(u)
          \/ \E s \in TotpKey : EnrollTOTP(u, s)

FSpec == FInit /\ [][FNext]_fvars

-----------------------------------------------------------------------------
(* A passkey that was deleted, or removed with the user's second factors,  *)
(* is not accepted any more, even by an assertion that had been verified   *)
(* before.  Of a TOTP secret this is not so: Verify does not look whether  *)
(* the row it confirms is still there.                                     *)
RemovedPasskeyRefused == stale \cap Credential = {}

(* passkey.last_remaining: a user who deletes passkeys one after the other *)
(* keeps one; only a deletion that counted before another took effect, or  *)
(* an administrator who removes the user's factors, takes the last.        *)
LastPasskeyKept ==
    [][\A u \in Member : Keys(u) # {} /\ Keys(u)' = {} =>
          \/ \E p \in Browser : serving[p].overlapped /\ serving'[p] # serving[p]
          \/ \A p \in Browser : serving[p].pc = serving'[p].pc]_fvars

=============================================================================
