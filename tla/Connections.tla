----------------------------- MODULE Connections -----------------------------
(***************************************************************************)
(* The ways in that a tenant configures, the sign-in page that offers      *)
(* them, and the callbacks of upstream providers.                          *)
(*   internal/httpserver/auth_providers_handlers.go   saveAuthProvider,    *)
(*       setDefaultAuthMethod, defaultMethodEnabled                        *)
(*   internal/httpserver/social_handlers.go, oidc_connections_handlers.go  *)
(*   internal/httpserver/phase10_handlers.go  saveUpstreamProviderConfig   *)
(*   internal/httpserver/hosted_social_handlers.go                         *)
(*   internal/httpserver/hostedlogin_handlers.go  hostedPageData,          *)
(*       resolvePrimaryMethod                                              *)
(* Every handler reads in one statement and writes in another.  Whether an *)
(* unknown address may register is asked in Registration.                  *)
(***************************************************************************)
EXTENDS Naturals, FiniteSets, Sequences

CONSTANTS
    Builtin,    \* built-in methods, a subset of tenantAuthMethods
    Kind,       \* social connections
    GoogleKind, \* the one that drives the older Google path too
    Slug,       \* OIDC connections
    Domain,     \* domains an allow-list can name
    Elsewhere,  \* the domain of every other address
    Request,    \* requests in flight at once
    NoMethod

ASSUME ConnectionsAssumption ==
    /\ Builtin \subseteq {"passkey", "password", "magic_link", "google", "totp", "oidc_upstream"}
    /\ GoogleKind \in Kind
    /\ Elsewhere \notin Domain
    /\ NoMethod \notin Builtin \cup Kind \cup Slug

VARIABLES
    enabled,   \* built-in methods whose tenant_auth_methods.enabled is true
    conn,      \* rows of social_connections and oidc_connections
    legacy,    \* upstream_providers has google, enabled
    default,   \* tenants.default_auth_method
    states,    \* connections with a signed state that has not expired
    request    \* what each request is doing

confvars == <<enabled, conn, legacy, default>>
connvars == <<confvars, states, request>>

Conn == Kind \cup Slug

Method == Builtin \cup Conn

(* domains: config.allowed_domains, where none allows every one.           *)
ConnRow == [on : BOOLEAN, domains : SUBSET Domain]

NoRow == [on |-> FALSE, domains |-> {}, absent |-> TRUE]

(***************************************************************************)
(* pc: "disabling" the default was another method; "defaulting" the method *)
(* was enabled; "saving" the row of the connection was read; "loaded" a    *)
(* callback has the credentials; "admitted" its address was admitted;      *)
(* "google" the older callback found its provider.  stale: the connection  *)
(* was saved or deleted since the callback began.                          *)
(***************************************************************************)
Resting == [pc |-> "idle", at |-> NoMethod, domain |-> Elsewhere, stale |-> FALSE]

Begins(q, where, x) ==
    /\ request[q].pc = "idle"
    /\ request' = [request EXCEPT ![q] = [Resting EXCEPT !.pc = where, !.at = x]]

Replies(q) == request' = [request EXCEPT ![q] = Resting]

(* The request q ends, and callbacks of c are no longer up to date.        *)
EndsTouching(q, c) ==
    request' = [r \in Request |->
        IF r = q THEN Resting
        ELSE IF request[r].at = c /\ request[r].pc \in {"loaded", "admitted"}
             THEN [request[r] EXCEPT !.stale = TRUE]
             ELSE request[r]]

Live(c) == conn[c].on

ConnInit ==
    /\ enabled = {}
    /\ conn = [c \in Conn |-> NoRow]
    /\ legacy = FALSE
    /\ default = NoMethod
    /\ states = {}
    /\ request = [q \in Request |-> Resting]

-----------------------------------------------------------------------------
(* saveAuthProvider: the default is read before a method is disabled.      *)
ReadDefault(q, m) ==
    /\ default # m
    /\ Begins(q, "disabling", m)
    /\ UNCHANGED <<confvars, states>>

DisableMethod(q) ==
    /\ request[q].pc = "disabling"
    /\ enabled' = enabled \ {request[q].at}
    /\ Replies(q)
    /\ UNCHANGED <<conn, legacy, default, states>>

EnableMethod(m) ==
    /\ enabled' = enabled \cup {m}
    /\ UNCHANGED <<conn, legacy, default, states, request>>

defaultMethodEnabled(x) == x \in enabled \/ (x \in Conn /\ Live(x))

(* setDefaultAuthMethod: the method is found enabled.                      *)
CheckDefault(q, x) ==
    /\ defaultMethodEnabled(x)
    /\ Begins(q, "defaulting", x)
    /\ UNCHANGED <<confvars, states>>

SetDefaultAuthMethod(q) ==
    /\ request[q].pc = "defaulting"
    /\ default' = request[q].at
    /\ Replies(q)
    /\ UNCHANGED <<enabled, conn, legacy, states>>

ClearDefault ==
    /\ default' = NoMethod
    /\ UNCHANGED <<enabled, conn, legacy, states, request>>

-----------------------------------------------------------------------------
(* saveSocialConnection: the row is read.  A payload without credentials   *)
(* needs one.                                                              *)
LoadSocialRow(q, c, bare) ==
    /\ bare => conn[c] # NoRow
    /\ Begins(q, "saving", c)
    /\ UNCHANGED <<confvars, states>>

(* saveSocialConnection: the transaction.  The upsert brings a row back    *)
(* that was deleted meanwhile; Google's goes to the older tables too.      *)
SaveSocialConnection(q, row) ==
    LET c == request[q].at IN
    /\ request[q].pc = "saving" /\ c \in Kind
    /\ conn' = [conn EXCEPT ![c] = row]
    /\ IF c = GoogleKind
       THEN /\ legacy' = row.on
            /\ enabled' = IF row.on THEN enabled \cup ({"google"} \cap Builtin)
                                    ELSE enabled \ {"google"}
       ELSE UNCHANGED <<legacy, enabled>>
    /\ EndsTouching(q, c)
    /\ UNCHANGED <<default, states>>

(* deleteSocialConnection leaves tenant_auth_methods and the default alone.*)
DeleteSocialConnection(q, c) ==
    /\ request[q].pc = "idle"
    /\ conn' = [conn EXCEPT ![c] = NoRow]
    /\ legacy' = (legacy /\ c # GoogleKind)
    /\ EndsTouching(q, c)
    /\ UNCHANGED <<enabled, default, states>>

(* saveUpstreamProviderConfig replaces the older provider alone.           *)
SaveUpstreamProviderConfig(on) ==
    /\ legacy' = on
    /\ UNCHANGED <<enabled, conn, default, states, request>>

CreateOIDCConnection(c, row) ==
    /\ conn[c] = NoRow
    /\ conn' = [conn EXCEPT ![c] = row]
    /\ UNCHANGED <<enabled, legacy, default, states, request>>

(* updateOIDCConnection: the row is read, and must be there.               *)
LoadOIDCRow(q, c) ==
    /\ conn[c] # NoRow
    /\ Begins(q, "saving", c)
    /\ UNCHANGED <<confvars, states>>

(* updateOIDCConnection: the UPDATE matches nothing after a delete.        *)
UpdateOIDCConnection(q, row) ==
    LET c == request[q].at IN
    /\ request[q].pc = "saving" /\ c \in Slug
    /\ conn' = [conn EXCEPT ![c] = IF @ = NoRow THEN @ ELSE row]
    /\ EndsTouching(q, c)
    /\ UNCHANGED <<enabled, legacy, default, states>>

DeleteOIDCConnection(q, c) ==
    /\ request[q].pc = "idle"
    /\ conn' = [conn EXCEPT ![c] = NoRow]
    /\ EndsTouching(q, c)
    /\ UNCHANGED <<enabled, legacy, default, states>>

-----------------------------------------------------------------------------
(* A start signs a state for the connection, which must be enabled.        *)
SignState(c) ==
    /\ Live(c)
    /\ states' = states \cup {c}
    /\ UNCHANGED <<confvars, request>>

AuthSocialStart(c) == SignState(c)

HostedSocialStart(c) == SignState(c)

AuthOIDCStart(c) == SignState(c)

HostedOIDCStart(c) == SignState(c)

(* authGoogleStart: signed with the same secret, for no connection.        *)
AuthGoogleStart ==
    /\ legacy
    /\ states' = states \cup {GoogleKind}
    /\ UNCHANGED <<confvars, request>>

StateExpires(c) ==
    /\ c \in states
    /\ states' = states \ {c}
    /\ UNCHANGED <<confvars, request>>

(* ValidateState and what the callback compares: an OIDC callback wants    *)
(* its own slug, a social one the tenant only.  A state can be used again. *)
ValidateState(c) == IF c \in Slug THEN c \in states ELSE states # {}

(* loadSocialCredentials or loadOIDCRow, and the state.                    *)
Callback(q, c) ==
    /\ Live(c)
    /\ ValidateState(c)
    /\ Begins(q, "loaded", c)
    /\ UNCHANGED <<confvars, states>>

AuthSocialCallback(q, c) == Callback(q, c)

HostedSocialCallback(q, c) == Callback(q, c)

AuthOIDCCallback(q, c) == Callback(q, c)

HostedOIDCCallback(q, c) == Callback(q, c)

(* Fault: a row that names domains admits every address.                   *)
AllowsEmail_Any(row, d) == TRUE

AllowsEmail(row, d) == row.domains = {} \/ d \in row.domains

(* The provider's answer (Exchange) carries an address of domain d; the    *)
(* policy is loaded only now, and a row that is gone has an open one.      *)
LoadPolicy(q, d) ==
    LET c == request[q].at IN
    /\ request[q].pc = "loaded"
    /\ IF AllowsEmail(conn[c], d)
       THEN request' = [request EXCEPT ![q].pc = "admitted", ![q].domain = d]
       ELSE Replies(q)
    /\ UNCHANGED <<confvars, states>>

(* The user is found or created, and the session opened.                   *)
OpenUpstreamSession(q) ==
    /\ request[q].pc = "admitted"
    /\ Replies(q)
    /\ UNCHANGED <<confvars, states>>

(* authGoogleCallback: the provider is enabled and the state valid.  No    *)
(* allow-list is looked at.                                                *)
AuthGoogleCallback(q) ==
    /\ legacy
    /\ states # {}
    /\ Begins(q, "google", NoMethod)
    /\ UNCHANGED <<confvars, states>>

(* A request is answered with an error, or the server dies.                *)
AbandonRequest(q) ==
    /\ request[q].pc # "idle"
    /\ Replies(q)
    /\ UNCHANGED <<confvars, states>>

ConnNext ==
    \/ \E q \in Request :
          \/ \E m \in Builtin : ReadDefault(q, m)
          \/ \E x \in Method : CheckDefault(q, x)
          \/ \E c \in Kind :
                \/ \E bare \in BOOLEAN : LoadSocialRow(q, c, bare)
                \/ DeleteSocialConnection(q, c)
                \/ AuthSocialCallback(q, c) \/ HostedSocialCallback(q, c)
          \/ \E c \in Slug :
                \/ LoadOIDCRow(q, c) \/ DeleteOIDCConnection(q, c)
                \/ AuthOIDCCallback(q, c) \/ HostedOIDCCallback(q, c)
          \/ \E row \in ConnRow : SaveSocialConnection(q, row) \/ UpdateOIDCConnection(q, row)
          \/ \E d \in Domain \cup {Elsewhere} : LoadPolicy(q, d)
          \/ DisableMethod(q) \/ SetDefaultAuthMethod(q) \/ OpenUpstreamSession(q)
          \/ AuthGoogleCallback(q) \/ AbandonRequest(q)
    \/ \E m \in Builtin : EnableMethod(m)
    \/ \E on \in BOOLEAN : SaveUpstreamProviderConfig(on)
    \/ \E c \in Slug, row \in ConnRow : CreateOIDCConnection(c, row)
    \/ \E c \in Kind : AuthSocialStart(c) \/ HostedSocialStart(c)
    \/ \E c \in Slug : AuthOIDCStart(c) \/ HostedOIDCStart(c)
    \/ \E c \in Conn : StateExpires(c)
    \/ AuthGoogleStart \/ ClearDefault

ConnSpec == ConnInit /\ [][ConnNext]_connvars

-----------------------------------------------------------------------------
(* The first member of a sequence of methods that is in S, or NoMethod.    *)
FirstIn(seq, S) ==
    LET hits == {i \in 1..Len(seq) : seq[i] \in S}
    IN  IF hits = {} THEN NoMethod ELSE seq[CHOOSE i \in hits : \A j \in hits : i <= j]

AnyOf(S) == IF S = {} THEN NoMethod ELSE CHOOSE x \in S : TRUE

(* Fault: the configured default is taken as it is.                        *)
primaryMethodAvailable_Any(x) == TRUE

primaryMethodAvailable(x) == defaultMethodEnabled(x)

(* The candidates in the order the page tries them.                        *)
resolvePrimaryMethod ==
    LET tries == <<IF primaryMethodAvailable(default) THEN default ELSE NoMethod,
                   FirstIn(<<"passkey", "password", "magic_link">>, enabled),
                   AnyOf({c \in Kind : Live(c)}), AnyOf({c \in Slug : Live(c)}),
                   FirstIn(<<"google", "totp", "oidc_upstream">>, enabled)>>
    IN  FirstIn(tries, Method)

(* buildSocialButtons: never Google's, which the older path is to draw.    *)
buildSocialButtons == {c \in Kind \ {GoogleKind} : Live(c)}

buildOIDCButtons == {c \in Slug : Live(c)}

(* GoogleURL is set.                                                       *)
GoogleButton == "google" \in enabled /\ legacy

(* hostedPageData: what the page lets a user choose.                       *)
hostedPageData ==
    (enabled \cap {"passkey", "password", "magic_link"})
        \cup buildSocialButtons \cup buildOIDCButtons
        \cup IF GoogleButton THEN {"google"} ELSE {}

(* AnyMethodEnabled                                                        *)
AnyMethodEnabled == enabled # {} \/ \E c \in Conn : Live(c)

(* Methods without a button of their own, and Google's connection: its     *)
(* button hangs on the older tables, which other saves can disable.        *)
Unshown == {"google", "totp", "oidc_upstream", GoogleKind}

(* While any way in is enabled the page leads with one of those it offers  *)
(* (the Unshown apart), whatever became of the configured default.         *)
PageUsable == AnyMethodEnabled => resolvePrimaryMethod \in hostedPageData \cup Unshown

(* An address is signed in through a connection only if the connection is  *)
(* enabled and its allow-list admits the address, unless the connection    *)
(* was saved or deleted while the callback was served.                     *)
ConnectionGate ==
    \A q \in Request : request[q].pc = "admitted" /\ ~request[q].stale =>
        LET row == conn[request[q].at]
        IN  row.on /\ (row.domains # {} => request[q].domain \in row.domains)

=============================================================================
