---------------------------- MODULE Registration -----------------------------
(***************************************************************************)
(* How an account of a tenant comes into being: sign-up, the first sign-in *)
(* through an upstream provider, invitations, and the administrator.       *)
(*   internal/authpolicy/signup.go             CheckSignup                 *)
(*   internal/auth/invite/invite.go            Issue, StartContinuation,   *)
(*       RedeemContinuation, redeemHash                                    *)
(*   internal/httpserver/auth_handlers.go      authPasswordSignup,         *)
(*       authInviteRedeem, gateInviteByTenant, findOrCreateUpstreamUser    *)
(*   internal/httpserver/hostedlogin_handlers.go  hostedSignupPassword,    *)
(*       hostedSignupMagicLink, hostedSignupPasskey                        *)
(*   internal/httpserver/registration_handlers.go                          *)
(* CheckSignup reads the settings of the tenant, then those of the method; *)
(* the INSERT comes later still.  What the tenant's administrators change  *)
(* in between is not seen.                                                 *)
(***************************************************************************)
EXTENDS Naturals, FiniteSets

CONSTANTS
    Address,   \* e-mail addresses
    Invite,    \* invitation tokens that can be drawn
    Passage,   \* invite_continuations that can be started
    Visitor,   \* requests in flight at once
    Password, MagicLink, Passkey, Google, Social, Oidc,  \* methods of sign-up
    Nothing

ASSUME RegistrationAssumption ==
    Nothing \notin Address \cup Invite \cup Passage

VARIABLES
    settings,   \* tenants.signup_mode, signup_allowlist, invites_enabled
    openFor,    \* methods whose allow_signup is not false
    accounts,   \* addresses of users with deleted_at IS NULL
    pending,    \* token of the unredeemed invitation of each address
    invitee,    \* the address each token was drawn for
    lapsed,     \* tokens whose expires_at has passed
    passage,    \* invite_continuations.token_hash
    walked,     \* continuations consumed, expired, or deleted with their invitation
    visit,      \* the request each visitor makes
    withdrawnInv, \* history: tokens superseded or revoked before they were redeemed
    redeemed    \* history: how often each token made an account

policyVars == <<settings, openFor>>
inviteVars == <<pending, invitee, lapsed, passage, walked, withdrawnInv>>
regvars == <<policyVars, inviteVars, accounts, visit, redeemed>>

Methods == {Password, MagicLink, Passkey, Google, Social, Oidc}

(* The allowlist is kept in every mode and looked at in one only.          *)
Settings ==
    {s \in [mode : {"open", "restricted", "closed"}, listed : SUBSET Address, invites : BOOLEAN] :
        s.mode # "restricted" => s.listed = {}}

(***************************************************************************)
(* pc: "unknown" no user has the address; "read" CheckSignup has the       *)
(* settings, admitting records what it makes of them; "gated" it returned  *)
(* no error; "invited" gateInviteByTenant let the token or continuation    *)
(* in key pass; "redeeming" redeemHash is next.  stale: what the gate      *)
(* depends on was changed since the request began.                         *)
(***************************************************************************)
NoVisit == [pc |-> "idle", who |-> Nothing, method |-> Nothing, key |-> Nothing,
            admitting |-> FALSE, stale |-> FALSE]

Leave(v) == visit' = [visit EXCEPT ![v] = NoVisit]

RegInit ==
    /\ settings = [mode |-> "open", listed |-> {}, invites |-> TRUE]
    /\ openFor = Methods
    /\ accounts = {}
    /\ pending = [e \in Address |-> Nothing]
    /\ invitee = [t \in Invite |-> Nothing]
    /\ passage = [c \in Passage |-> Nothing]
    /\ lapsed = {} /\ walked = {} /\ withdrawnInv = {}
    /\ visit = [v \in Visitor |-> NoVisit]
    /\ redeemed = [t \in Invite |-> 0]

-----------------------------------------------------------------------------
(* Fault: an empty allowlist admits everyone.                              *)
AllowlistMatches_Empty(s, e) == s.listed = {} \/ e \in s.listed

allowlistMatches(s, e) == e \in s.listed

(* What CheckSignup makes of the settings of the tenant.                   *)
SettingsAdmit(s, e) ==
    /\ s.mode # "closed"
    /\ s.mode = "restricted" => allowlistMatches(s, e)

(* CheckSignup: LoadSignupSettings.  A closed tenant is refused.           *)
LoadSignupSettings(v, e, m) ==
    /\ settings.mode # "closed"
    /\ visit' = [visit EXCEPT ![v].pc = "read", ![v].who = e, ![v].method = m,
                              ![v].admitting = SettingsAdmit(settings, e)]
    /\ UNCHANGED <<policyVars, inviteVars, accounts, redeemed>>

RefuseClosed(v) ==
    /\ visit[v].pc = "unknown"
    /\ settings.mode = "closed"
    /\ Leave(v)
    /\ UNCHANGED <<policyVars, inviteVars, accounts, redeemed>>

(* CheckSignup: methodAllowsSignup, and then the allowlist that was read.  *)
CheckSignup(v) ==
    /\ visit[v].pc = "read"
    /\ IF visit[v].method \in openFor /\ visit[v].admitting
       THEN visit' = [visit EXCEPT ![v].pc = "gated"]
       ELSE Leave(v)
    /\ UNCHANGED <<policyVars, inviteVars, accounts, redeemed>>

(* The INSERT, which the unique index refuses for a known address.  What   *)
(* the handlers do with the new user then may fail; the account stays.     *)
CreateSignupUser(v) ==
    /\ visit[v].pc = "gated"
    /\ accounts' = accounts \cup {visit[v].who}
    /\ Leave(v)
    /\ UNCHANGED <<policyVars, inviteVars, redeemed>>

(* The handlers of sign-up.                                                *)
Signup(v, e, m) == visit[v].pc = "idle" /\ LoadSignupSettings(v, e, m)

AuthPasswordSignup(v, e) == Signup(v, e, Password)

HostedSignupPassword(v, e) == Signup(v, e, Password)

HostedSignupMagicLink(v, e) == Signup(v, e, MagicLink)

HostedSignupPasskey(v, e) == Signup(v, e, Passkey)

(* Fault: an unknown address is taken for admitted.                        *)
FindUser_Ungated(v, e, m) ==
    /\ visit[v].pc = "idle"
    /\ e \notin accounts
    /\ visit' = [visit EXCEPT ![v].pc = "gated", ![v].who = e, ![v].method = m]
    /\ UNCHANGED <<policyVars, inviteVars, accounts, redeemed>>

(* The SELECT by address; a known one is signed in and nothing is created. *)
FindUser(v, e, m) ==
    /\ visit[v].pc = "idle"
    /\ e \notin accounts
    /\ visit' = [visit EXCEPT ![v].pc = "unknown", ![v].who = e, ![v].method = m]
    /\ UNCHANGED <<policyVars, inviteVars, accounts, redeemed>>

FindOrCreateUpstreamUser(v, e) == FindUser(v, e, Google)

FindOrCreateSocialUser(v, e) == FindUser(v, e, Social)

FindOrCreateOIDCUser(v, e) == FindUser(v, e, Oidc)

(* The SELECT found no one: CheckSignup.                                   *)
GateUnknown(v) ==
    /\ visit[v].pc = "unknown"
    /\ LoadSignupSettings(v, visit[v].who, visit[v].method)

-----------------------------------------------------------------------------
(* createUser, by an administrator, who is exempt from the gate.           *)
CreateUser(e) ==
    /\ accounts' = accounts \cup {e}
    /\ UNCHANGED <<policyVars, inviteVars, visit, redeemed>>

(* deleteUserDSR redacts the address, which is free again.                 *)
EraseAccount(e) ==
    /\ accounts' = accounts \ {e}
    /\ UNCHANGED <<policyVars, inviteVars, visit, redeemed>>

MarkStale == visit' = [v \in Visitor |-> IF visit[v].pc = "idle" THEN visit[v]
                                         ELSE [visit[v] EXCEPT !.stale = TRUE]]

SaveRegistrationSettings(s) ==
    /\ s # settings
    /\ settings' = s
    /\ MarkStale
    /\ UNCHANGED <<openFor, inviteVars, accounts, redeemed>>

(* allow_signup of a method: saveAuthProvider, or the save of a connection.*)
SaveAllowSignup(m) ==
    /\ openFor' = IF m \in openFor THEN openFor \ {m} ELSE openFor \cup {m}
    /\ MarkStale
    /\ UNCHANGED <<settings, inviteVars, accounts, redeemed>>

-----------------------------------------------------------------------------
(* redeemed_at IS NULL AND expires_at > now(), by token_hash               *)
InviteLive(t) == invitee[t] # Nothing /\ pending[invitee[t]] = t /\ t \notin lapsed

PassageLive(c) == passage[c] # Nothing /\ c \notin walked

(* Issue: the unredeemed invitation of the address gets the new token.     *)
Issue(e, t) ==
    /\ invitee[t] = Nothing
    /\ invitee' = [invitee EXCEPT ![t] = e]
    /\ pending' = [pending EXCEPT ![e] = t]
    /\ withdrawnInv' = withdrawnInv \cup ({pending[e]} \ {Nothing})
    /\ UNCHANGED <<policyVars, lapsed, passage, walked, accounts, visit, redeemed>>

(* Who issues: adminInvite and cypra admin promote for any address, the    *)
(* actions on a user for the address of an account.                        *)
AdminInvite(e, t) == Issue(e, t)

AdminPromote(e, t) == Issue(e, t)

ReinviteUser(e, t) == e \in accounts /\ Issue(e, t)

ResetUserPassword(e, t) == e \in accounts /\ Issue(e, t)

InviteUserFactorEnrollment(e, t) == e \in accounts /\ Issue(e, t)

(* revokeTenantInvite: the DELETE takes the continuations with it.         *)
RevokeTenantInvite(e) ==
    /\ pending[e] # Nothing
    /\ pending' = [pending EXCEPT ![e] = Nothing]
    /\ walked' = walked \cup {c \in Passage : passage[c] # Nothing /\ invitee[passage[c]] = e}
    /\ withdrawnInv' = withdrawnInv \cup {pending[e]}
    /\ UNCHANGED <<policyVars, invitee, lapsed, passage, accounts, visit, redeemed>>

(* Time passes.                                                            *)
Lapse(x) ==
    /\ \/ x \in Invite /\ InviteLive(x) /\ lapsed' = lapsed \cup {x} /\ UNCHANGED walked
       \/ x \in Passage /\ PassageLive(x) /\ walked' = walked \cup {x} /\ UNCHANGED lapsed
    /\ UNCHANGED <<policyVars, pending, invitee, passage, withdrawnInv, accounts, visit, redeemed>>

(* hostedInvite: the page of a live invitation.                            *)
StartContinuation(c, t) ==
    /\ passage[c] = Nothing
    /\ InviteLive(t)
    /\ passage' = [passage EXCEPT ![c] = t]
    /\ UNCHANGED <<policyVars, pending, invitee, lapsed, walked, withdrawnInv, accounts,
                   visit, redeemed>>

(* gateInviteByTenant: what it does not find is left to the redemption.    *)
GateInviteByTenant(v, key) ==
    LET found == IF key \in Invite THEN InviteLive(key) ELSE PassageLive(key) IN
    /\ visit[v].pc = "idle"
    /\ key \in Invite => invitee[key] # Nothing
    /\ key \in Passage => passage[key] # Nothing
    /\ found => settings.invites
    /\ visit' = [visit EXCEPT ![v].pc = IF key \in Invite THEN "redeeming" ELSE "invited",
                              ![v].key = key]
    /\ UNCHANGED <<policyVars, inviteVars, accounts, redeemed>>

(* RedeemContinuation: its UPDATE.                                         *)
RedeemContinuation(v) ==
    LET c == visit[v].key IN
    /\ visit[v].pc = "invited"
    /\ IF PassageLive(c)
       THEN /\ walked' = walked \cup {c}
            /\ visit' = [visit EXCEPT ![v].pc = "redeeming", ![v].key = passage[c]]
       ELSE Leave(v) /\ UNCHANGED walked
    /\ UNCHANGED <<policyVars, pending, invitee, lapsed, passage, withdrawnInv, accounts, redeemed>>

(* Fault: the invitation is found by its id, which a new token keeps.      *)
Matches_ById(t) == pending[invitee[t]] # Nothing /\ pending[invitee[t]] \notin lapsed

(* The WHERE clause of redeemHash.                                         *)
Matches(t) == InviteLive(t)

(* redeemHash: one transaction.  For a known address the INSERT of the     *)
(* user does nothing, that of the membership has no user to refer to, and  *)
(* everything is rolled back.                                              *)
RedeemHash(v) ==
    LET t == visit[v].key
        e == invitee[t] IN
    /\ visit[v].pc = "redeeming"
    /\ IF Matches(t) /\ e \notin accounts
       THEN /\ accounts' = accounts \cup {e}
            /\ pending' = [pending EXCEPT ![e] = Nothing]
            /\ redeemed' = [redeemed EXCEPT ![t] = @ + 1]
       ELSE UNCHANGED <<accounts, pending, redeemed>>
    /\ Leave(v)
    /\ UNCHANGED <<policyVars, invitee, lapsed, passage, walked, withdrawnInv>>

(* A statement fails or the server dies.                                   *)
AbandonVisit(v) ==
    /\ visit[v].pc # "idle"
    /\ Leave(v)
    /\ UNCHANGED <<policyVars, inviteVars, accounts, redeemed>>

RegNext ==
    \/ \E v \in Visitor, e \in Address :
          \/ AuthPasswordSignup(v, e) \/ HostedSignupPassword(v, e)
          \/ HostedSignupMagicLink(v, e) \/ HostedSignupPasskey(v, e)
          \/ FindOrCreateUpstreamUser(v, e) \/ FindOrCreateSocialUser(v, e)
          \/ FindOrCreateOIDCUser(v, e)
    \/ \E v \in Visitor :
          \/ RefuseClosed(v) \/ GateUnknown(v) \/ CheckSignup(v) \/ CreateSignupUser(v)
          \/ RedeemContinuation(v) \/ RedeemHash(v) \/ AbandonVisit(v)
          \/ \E key \in Invite \cup Passage : GateInviteByTenant(v, key)
    \/ \E e \in Address :
          \/ CreateUser(e) \/ EraseAccount(e) \/ RevokeTenantInvite(e)
          \/ \E t \in Invite :
                \/ AdminInvite(e, t) \/ AdminPromote(e, t) \/ ReinviteUser(e, t)
                \/ ResetUserPassword(e, t) \/ InviteUserFactorEnrollment(e, t)
    \/ \E s \in Settings : SaveRegistrationSettings(s)
    \/ \E m \in Methods : SaveAllowSignup(m)
    \/ \E x \in Invite \cup Passage : Lapse(x)
    \/ \E c \in Passage, t \in Invite : StartContinuation(c, t)

RegSpec == RegInit /\ [][RegNext]_regvars

-----------------------------------------------------------------------------
(* What the settings in force say of a request that creates an account.    *)
InForce(v) ==
    IF visit[v].pc = "gated"
    THEN SettingsAdmit(settings, visit[v].who) /\ visit[v].method \in openFor
    ELSE settings.invites

(* A request that creates an account is admitted by the settings in force  *)
(* at that moment, whichever way it came, unless they were changed while   *)
(* the request was served.                                                 *)
GateHeld ==
    [][\A v \in Visitor :
         accounts' # accounts /\ visit'[v] # visit[v] => visit[v].stale \/ InForce(v)]_regvars

(* An invitation makes one account at most, and none once it was revoked   *)
(* or a newer one took its place, even for a page opened before that.      *)
SupersededInviteDead ==
    \A t \in Invite : redeemed[t] <= IF t \in withdrawnInv THEN 0 ELSE 1

=============================================================================
