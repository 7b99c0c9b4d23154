------------------------------- MODULE Consent -------------------------------
(***************************************************************************)
(* The authorization endpoint of one tenant: the registered clients, the   *)
(* consent of users, and the signed continuation that carries a request    *)
(* past the login and the consent page.                                    *)
(*   internal/httpserver/oidc_handlers.go   oidcAuthorize,                 *)
(*       finishOIDCAuthorize, oidcConsent, resolveConsentPayload           *)
(*   internal/httpserver/hostedlogin_handlers.go  hostedConsentDecision    *)
(*   internal/oidc/provider.go  ValidateAuthorizeRequest, Authorize,       *)
(*       ConsentCovers, RecordConsent                                      *)
(*   internal/httpserver/handlers.go  createProject, updateProject,        *)
(*       deleteProject                                                     *)
(* A continuation lives in the browser, can be presented any number of     *)
(* times until it expires, and names no user.  What becomes of the code is *)
(* in TokenEndpoint; so is the suspension of the tenant.                   *)
(***************************************************************************)
EXTENDS Naturals, FiniteSets

CONSTANTS
    Enduser,   \* users with a session
    Project,   \* projects, each with its OIDC client
    Permission, \* scopes
    Visit,     \* requests in flight at once
    Absent     \* no project, no user

ASSUME ConsentAssumption == Absent \notin Enduser \cup Project

VARIABLES
    registered,    \* oidc_clients: redirect URI registered, allowed_scopes
    consent,       \* oidc_consents.scopes, {} where there is no row
    continuations, \* signed requests that have not expired
    visiting       \* what each request is doing

cvars == <<registered, consent, continuations, visiting>>

(* What a request asks for; its redirect URI is the project's one.         *)
Wanted == [project : Project, scopes : SUBSET Permission \ {{}}]

ClientRow == [life : {"live"}, redirect : BOOLEAN, scopes : SUBSET Permission]

(* life: "none" before the project is created, "over" once deleted_at is   *)
(* set; a project created later is another one.                            *)
NoRegistration(life) == [life |-> life, redirect |-> FALSE, scopes |-> {}]

(***************************************************************************)
(* pc: "finishing" finishOIDCAuthorize begins; "validated" the client is   *)
(* loaded; "covered" the consent is read and suffices; "inserting"         *)
(* Authorize has validated once more; "consenting" a decision to allow is  *)
(* resolved.  changed: the client was written since Authorize loaded it;   *)
(* replaced: the consent of the user was, since it was found to suffice.   *)
(***************************************************************************)
NotVisiting == [pc |-> "idle", user |-> Absent, project |-> Absent, scopes |-> {},
                changed |-> FALSE, replaced |-> FALSE]

Visits(v, where, u, w) ==
    visiting' = [visiting EXCEPT ![v] =
        [NotVisiting EXCEPT !.pc = where, !.user = u, !.project = w.project, !.scopes = w.scopes]]

Departs(v) == visiting' = [visiting EXCEPT ![v] = NotVisiting]

Asked(v) == [project |-> visiting[v].project, scopes |-> visiting[v].scopes]

CInit ==
    /\ registered = [c \in Project |-> NoRegistration("none")]
    /\ consent = [u \in Enduser |-> [c \in Project |-> {}]]
    /\ continuations = {}
    /\ visiting = [v \in Visit |-> NotVisiting]

-----------------------------------------------------------------------------
(* The client of c is written; requests that loaded it are out of date.    *)
WriteClient(c, row) ==
    /\ registered' = [registered EXCEPT ![c] = row]
    /\ visiting' = [v \in Visit |-> IF visiting[v].project = c /\ visiting[v].pc = "inserting"
                                    THEN [visiting[v] EXCEPT !.changed = TRUE] ELSE visiting[v]]
    /\ UNCHANGED <<consent, continuations>>

(* createProject: the default scopes, and no redirect URI yet.             *)
CreateProject(c) ==
    /\ registered[c].life = "none"
    /\ WriteClient(c, [life |-> "live", redirect |-> FALSE, scopes |-> Permission])

UpdateProject(c, row) ==
    /\ registered[c].life = "live"
    /\ WriteClient(c, row)

(* deleteProject: the consents of the client stay.                         *)
DeleteProject(c) ==
    /\ registered[c].life = "live"
    /\ WriteClient(c, NoRegistration("over"))

-----------------------------------------------------------------------------
(* Fault: the scopes of the client are not looked at.                      *)
ValidateAuthorizeRequest_AnyScope(w) == registered[w.project].redirect

(* LoadClient, RedirectURIMatches and scopeAllowed; a request without PKCE *)
(* is refused as well.                                                     *)
ValidateAuthorizeRequest(w) ==
    registered[w.project].redirect /\ w.scopes \subseteq registered[w.project].scopes

(* oidcAuthorize, for a user with a session.                               *)
OidcAuthorize(v, u, w) ==
    /\ visiting[v].pc = "idle"
    /\ ValidateAuthorizeRequest(w)
    /\ Visits(v, "finishing", u, w)
    /\ UNCHANGED <<registered, consent, continuations>>

(* issueOIDCAuthorizeContinuation.                                         *)
IssueContinuation(w) == continuations' = continuations \cup {w}

(* oidcAuthorize, without a session: to the login page.                    *)
SendToLogin(w) ==
    /\ ValidateAuthorizeRequest(w)
    /\ IssueContinuation(w)
    /\ UNCHANGED <<registered, consent, visiting>>

(* parseOIDCAuthorizeContinuation: the signature and expires_at.           *)
ParseContinuation(w) == w \in continuations

(* oidcAuthorize with a continuation, by whoever has a session by then.    *)
ResumeAuthorize(v, u, w) ==
    /\ visiting[v].pc = "idle"
    /\ ParseContinuation(w)
    /\ Visits(v, "finishing", u, w)
    /\ UNCHANGED <<registered, consent, continuations>>

ContinuationExpires(w) ==
    /\ w \in continuations
    /\ continuations' = continuations \ {w}
    /\ UNCHANGED <<registered, consent, visiting>>

(* finishOIDCAuthorize: the request is validated, or refused.              *)
FinishOIDCAuthorize(v) ==
    /\ visiting[v].pc = "finishing"
    /\ IF ValidateAuthorizeRequest(Asked(v))
       THEN Visits(v, "validated", visiting[v].user, Asked(v))
       ELSE Departs(v)
    /\ UNCHANGED <<registered, consent, continuations>>

(* Fault: any consent of the user for the client will do.                  *)
ConsentCovers_Existing(u, w) == consent[u][w.project] # {}

ConsentCovers(u, w) == w.scopes \subseteq consent[u][w.project]

(* finishOIDCAuthorize: on, or to the consent page.                        *)
CheckConsent(v) ==
    /\ visiting[v].pc = "validated"
    /\ IF ConsentCovers(visiting[v].user, Asked(v))
       THEN /\ visiting' = [visiting EXCEPT ![v].pc = "covered"]
            /\ UNCHANGED continuations
       ELSE Departs(v) /\ IssueContinuation(Asked(v))
    /\ UNCHANGED <<registered, consent>>

(* Authorize validates once more.                                          *)
Revalidate(v) ==
    /\ visiting[v].pc = "covered"
    /\ visiting' = [visiting EXCEPT ![v] =
           IF ValidateAuthorizeRequest(Asked(v))
           THEN [visiting[v] EXCEPT !.pc = "inserting"]
           ELSE NotVisiting]
    /\ UNCHANGED <<registered, consent, continuations>>

(* Authorize: the INSERT of the code, which is sent to the redirect URI.   *)
InsertCode(v) ==
    /\ visiting[v].pc = "inserting"
    /\ Departs(v)
    /\ UNCHANGED <<registered, consent, continuations>>

-----------------------------------------------------------------------------
(* resolveConsentPayload: the continuation, the session and LoadClient.    *)
ResolveConsentPayload(v, u, w) ==
    /\ visiting[v].pc = "idle"
    /\ ParseContinuation(w)
    /\ registered[w.project].life = "live"
    /\ Visits(v, "consenting", u, w)
    /\ UNCHANGED <<registered, consent, continuations>>

OidcConsent(v, u, w) == ResolveConsentPayload(v, u, w)

HostedConsentDecision(v, u, w) == ResolveConsentPayload(v, u, w)

(* RecordConsent replaces what the user had granted.                       *)
RecordConsent(v) ==
    LET u == visiting[v].user
        c == visiting[v].project IN
    /\ visiting[v].pc = "consenting"
    /\ consent' = [consent EXCEPT ![u][c] = visiting[v].scopes]
    /\ visiting' = [x \in Visit |->
           IF x = v THEN NotVisiting
           ELSE IF /\ visiting[x].user = u /\ visiting[x].project = c
                   /\ visiting[x].pc \in {"covered", "inserting"}
                THEN [visiting[x] EXCEPT !.replaced = TRUE]
                ELSE visiting[x]]
    /\ UNCHANGED <<registered, continuations>>

(* A statement fails or the server dies.                                   *)
DropVisit(v) ==
    /\ visiting[v].pc # "idle"
    /\ Departs(v)
    /\ UNCHANGED <<registered, consent, continuations>>

CNext ==
    \/ \E c \in Project :
          \/ CreateProject(c) \/ DeleteProject(c)
          \/ \E row \in ClientRow : UpdateProject(c, row)
    \/ \E w \in Wanted :
          \/ SendToLogin(w) \/ ContinuationExpires(w)
          \/ \E v \in Visit, u \in Enduser :
                \/ OidcAuthorize(v, u, w) \/ ResumeAuthorize(v, u, w)
                \/ OidcConsent(v, u, w) \/ HostedConsentDecision(v, u, w)
    \/ \E v \in Visit :
          \/ FinishOIDCAuthorize(v) \/ CheckConsent(v) \/ Revalidate(v) \/ InsertCode(v)
          \/ RecordConsent(v) \/ DropVisit(v)

CSpec == CInit /\ [][CNext]_cvars

-----------------------------------------------------------------------------
(* A code is made out only for scopes its own user granted to the client,  *)
(* although a continuation names no user and may be answered by another    *)
(* one, and unless the user replaced the consent while the code was made.  *)
CodeWithinConsent ==
    \A v \in Visit : visiting[v].pc \in {"covered", "inserting"} /\ ~visiting[v].replaced =>
        visiting[v].scopes \subseteq consent[visiting[v].user][visiting[v].project]

(* However old the continuation it comes from, a code is made out only if  *)
(* the client still has the redirect URI and is still allowed the scopes,  *)
(* unless the client was changed after Authorize loaded it.                *)
ContinuationRevalidated ==
    \A v \in Visit : visiting[v].pc = "inserting" /\ ~visiting[v].changed =>
        LET row == registered[visiting[v].project]
        IN  row.redirect /\ visiting[v].scopes \subseteq row.scopes

=============================================================================
