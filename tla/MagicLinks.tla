----------------------------- MODULE MagicLinks ------------------------------
(***************************************************************************)
(* Sign-in links sent by mail.                                             *)
(*   internal/auth/magiclink/magiclink.go         Issue, Consume           *)
(*   internal/httpserver/auth_handlers.go         authMagicLinkIssue,      *)
(*       authMagicLinkVerify                                               *)
(*   internal/httpserver/hostedlogin_handlers.go  hostedMagicLink          *)
(* Issue counts the account's live links and inserts one in a transaction; *)
(* at READ COMMITTED two of them may count the same links.                 *)
(***************************************************************************)
EXTENDS Naturals, FiniteSets

CONSTANTS
    Holder,    \* accounts links are sent to
    Link,      \* links that can be drawn
    Sender,    \* requests that can be in flight at once
    MaxActive, \* MagicLinkPolicy.MaxActivePerUser
    NoHolder

ASSUME LinksAssumption ==
    MaxActive \in Nat \ {0} /\ NoHolder \notin Holder /\ IsFiniteSet(Sender)

VARIABLES
    linkFor,   \* magic_link_tokens.user_id
    linkUsed,  \* consumed_at IS NOT NULL
    linkOld,   \* expires_at has passed
    gone,      \* users.deleted_at IS NOT NULL
    sending    \* what each request is doing

mlvars == <<linkFor, linkUsed, linkOld, gone, sending>>

(* pc: "counted" Issue found room; "consumed" Consume is done.             *)
Sending == [pc : {"idle", "counted", "consumed"}, to : Holder \cup {NoHolder}]

NoSending == [pc |-> "idle", to |-> NoHolder]

Sends(p, where, a) == sending' = [sending EXCEPT ![p] = [pc |-> where, to |-> a]]

Rests(p) == sending' = [sending EXCEPT ![p] = NoSending]

(* The WHERE clause of the count and of Consume.                           *)
LinkLive(l) == linkFor[l] # NoHolder /\ l \notin linkUsed \cup linkOld

Active(a) == {l \in Link : LinkLive(l) /\ linkFor[l] = a}

MLInit ==
    /\ linkFor = [l \in Link |-> NoHolder]
    /\ linkUsed = {} /\ linkOld = {} /\ gone = {}
    /\ sending = [p \in Sender |-> NoSending]

-----------------------------------------------------------------------------
(* Fault: the limit is compared as if it were exclusive.                   *)
HasRoom_Inclusive(a) == Cardinality(Active(a)) <= MaxActive

HasRoom(a) == Cardinality(Active(a)) < MaxActive

(* Issue counts, for the account of the address.  Without room the request *)
(* is refused.                                                             *)
CountActive(p, a) ==
    /\ sending[p].pc = "idle"
    /\ a \notin gone
    /\ HasRoom(a)
    /\ Sends(p, "counted", a)
    /\ UNCHANGED <<linkFor, linkUsed, linkOld, gone>>

AuthMagicLinkIssue(p, a) == CountActive(p, a)

HostedMagicLink(p, a) == CountActive(p, a)

(* Issue: the link and its mail are inserted and committed.                *)
Issue(p, l) ==
    /\ sending[p].pc = "counted"
    /\ linkFor[l] = NoHolder
    /\ linkFor' = [linkFor EXCEPT ![l] = sending[p].to]
    /\ Rests(p)
    /\ UNCHANGED <<linkUsed, linkOld, gone>>

(* authMagicLinkVerify: Consume, one UPDATE.                               *)
Consume(p, l) ==
    /\ sending[p].pc = "idle"
    /\ LinkLive(l)
    /\ linkUsed' = linkUsed \cup {l}
    /\ Sends(p, "consumed", linkFor[l])
    /\ UNCHANGED <<linkFor, linkOld, gone>>

(* authMagicLinkVerify: the session, if the user is still there; otherwise *)
(* the link is spent for nothing.                                          *)
OpenSession(p) ==
    /\ sending[p].pc = "consumed"
    /\ Rests(p)
    /\ UNCHANGED <<linkFor, linkUsed, linkOld, gone>>

(* A statement fails or the server dies; Issue rolls back.                 *)
AbandonSending(p) ==
    /\ sending[p].pc = "counted"
    /\ Rests(p)
    /\ UNCHANGED <<linkFor, linkUsed, linkOld, gone>>

LinkExpires(l) ==
    /\ LinkLive(l)
    /\ linkOld' = linkOld \cup {l}
    /\ UNCHANGED <<linkFor, linkUsed, gone, sending>>

(* deleteUserDSR leaves the links of the user.                             *)
HolderGone(a) ==
    /\ a \notin gone
    /\ gone' = gone \cup {a}
    /\ UNCHANGED <<linkFor, linkUsed, linkOld, sending>>

MLNext ==
    \/ \E p \in Sender :
          \/ OpenSession(p) \/ AbandonSending(p)
          \/ \E a \in Holder : AuthMagicLinkIssue(p, a) \/ HostedMagicLink(p, a)
          \/ \E l \in Link : Issue(p, l) \/ Consume(p, l)
    \/ \E l \in Link : LinkExpires(l)
    \/ \E a \in Holder : HolderGone(a)

MLSpec == MLInit /\ [][MLNext]_mlvars

-----------------------------------------------------------------------------
(* Requests that found room for a link and have not inserted it.           *)
OnTheirWay(a) == {p \in Sender : sending[p].pc = "counted" /\ sending[p].to = a}

(* MaxActivePerUser is exceeded only by requests that counted before       *)
(* another had inserted: the links an account has and those on their way   *)
(* are never more than the limit and the other requests in flight.         *)
LinksBounded ==
    \A a \in Holder :
        Cardinality(Active(a)) + Cardinality(OnTheirWay(a)) <= MaxActive + Cardinality(Sender) - 1

=============================================================================
