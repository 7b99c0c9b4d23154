------------------------------- MODULE Members -------------------------------
(***************************************************************************)
(* Memberships of one tenant and the personal access tokens that hang on   *)
(* them.                                                                   *)
(*   internal/httpserver/member_handlers.go   updateTenantMember,          *)
(*       removeTenantMember                                                *)
(*   internal/httpserver/pat_handlers.go      createPAT, revokePAT         *)
(*   internal/pat/pat.go                      CreateWithExpiry, Revoke,    *)
(*       RevokeForUser, Authenticate                                       *)
(*   db/migrations/0008_pat_membership_revocation.up.sql   the trigger     *)
(*       revoke_pats_on_membership_change                                  *)
(* A handler's statements commit one by one, so each is a step; a change   *)
(* of membership is a transaction of two, the UPDATE or DELETE with its    *)
(* trigger, and the commit.  A request of an instance admin passes every   *)
(* role check, so a change of membership or the withdrawal of a token may  *)
(* come at any time.                                                       *)
(***************************************************************************)
EXTENDS Naturals, FiniteSets

CONSTANTS
    User,     \* users of the tenant
    Pat,      \* personal access tokens that can be drawn
    Proc,     \* requests of several statements in flight at once
    NoOne

ASSUME MembersAssumption == NoOne \notin User

VARIABLES
    role,      \* tenant_memberships, "none" where there is no row
    patOwner,  \* personal_access_tokens.user_id, NoOne where there is no row
    patEnded,  \* revoked_at IS NOT NULL or expires_at has passed
    job,       \* the request each process serves
    late       \* history: tokens inserted past the withdrawal of a user's tokens

patVars == <<patOwner, patEnded, late>>
mvars == <<role, patVars, job>>

Roles == {"owner", "admin", "member", "none"}

(***************************************************************************)
(* pc: "loaded" an owner's membership is read, the last-owner check is     *)
(* still to be made; "checked" it is passed or not needed; "writing" the   *)
(* UPDATE or DELETE and its trigger have run, and have found the tokens to *)
(* revoke; "written" that is committed, RevokeForUser is to follow;        *)
(* "creating" the actor of createPAT is known.  overlapped: a membership   *)
(* changed since this request read it, or, of createPAT, the user was not  *)
(* or is no longer privileged.  missed: history, tokens of the user        *)
(* inserted since the trigger ran.                                         *)
(***************************************************************************)
Job == [pc : {"idle", "loaded", "checked", "writing", "written", "creating"},
        who : User \cup {NoOne}, to : Roles, overlapped : BOOLEAN,
        found : SUBSET Pat, missed : SUBSET Pat]

NoJob == [pc |-> "idle", who |-> NoOne, to |-> "none", overlapped |-> FALSE,
          found |-> {}, missed |-> {}]

Doing(where, u) == [NoJob EXCEPT !.pc = where, !.who = u]

Finish(p) == job' = [job EXCEPT ![p] = NoJob]

Owners == {u \in User : role[u] = "owner"}

(* RequireTenantRoleOrPATScope, for a cookie.                              *)
Privileged(u) == role[u] \in {"owner", "admin"}

(* The WHERE clause of Authenticate.                                       *)
PATLive(t) == patOwner[t] # NoOne /\ t \notin patEnded

TokensOf(u) == {t \in Pat : patOwner[t] = u}

(* MiddlewareWithPAT and the role check let a request of u through.        *)
Admitted(u) == Privileged(u) \/ \E t \in TokensOf(u) : PATLive(t)

MInit ==
    /\ role \in [User -> Roles \ {"none"}] /\ Owners # {}
    /\ patOwner = [t \in Pat |-> NoOne] /\ patEnded = {}
    /\ job = [p \in Proc |-> NoJob]
    /\ late = {}

-----------------------------------------------------------------------------
(* loadTenantMember, for updateTenantMember or, with "none", for           *)
(* removeTenantMember.  deleteUserDSR leaves the membership, which counts  *)
(* as before and is not found here any more: no request about it passes.   *)
LoadMember(p, u, to) ==
    /\ job[p].pc = "idle"
    /\ role[u] # "none"
    /\ LET where == IF role[u] = "owner" /\ to # "owner" THEN "loaded" ELSE "checked"
       IN  job' = [job EXCEPT ![p] = [Doing(where, u) EXCEPT !.to = to]]
    /\ UNCHANGED <<role, patVars>>

(* Fault: the count includes the membership that is about to change.       *)
hasAnotherOwner_Self(u) == Owners # {}

hasAnotherOwner(u) == Owners \ {u} # {}

(* The last-owner check: passed, or refused with a conflict.               *)
CheckOwner(p) ==
    /\ job[p].pc = "loaded"
    /\ IF hasAnotherOwner(job[p].who)
       THEN job' = [job EXCEPT ![p].pc = "checked"]
       ELSE Finish(p)
    /\ UNCHANGED <<role, patVars>>

(* The roles without a claim to tokens; RevokeForUser follows a change to  *)
(* one.                                                                    *)
Withdraws(to) == to \in {"member", "none"}

(* Fault: the trigger runs on an UPDATE only.                              *)
RevokedByTrigger_Update(u, to) ==
    IF role[u] \notin {"none", to} /\ to = "member" THEN TokensOf(u) ELSE {}

(* revoke_pats_on_membership_change: after the UPDATE of a row to another  *)
(* role that has no claim to tokens, and after the DELETE of a row.        *)
RevokedByTrigger(u, to) ==
    IF role[u] \notin {"none", to} /\ Withdraws(to) THEN TokensOf(u) ELSE {}

(* The UPDATE or DELETE, which waits for the row and does not look at the  *)
(* role that was read, and the trigger.                                    *)
WriteRole(p) ==
    LET j == job[p] IN
    /\ j.pc = "checked"
    /\ \A q \in Proc : job[q].pc = "writing" => job[q].who # j.who
    /\ job' = [job EXCEPT ![p].pc = "writing", ![p].found = RevokedByTrigger(j.who, j.to)]
    /\ UNCHANGED <<role, patVars>>

CommitRole(p) ==
    LET j == job[p]
        Stale(q) == \/ job[q].pc \in {"loaded", "checked", "writing"}
                    \/ job[q].pc = "creating" /\ job[q].who = j.who /\ Withdraws(j.to)
    IN
    /\ j.pc = "writing"
    /\ role' = [role EXCEPT ![j.who] = IF @ = "none" THEN @ ELSE j.to]
    /\ patEnded' = patEnded \cup j.found
    /\ late' = IF Withdraws(j.to) THEN late \cup j.missed ELSE late
    /\ job' = [q \in Proc |->
                 IF q = p THEN IF Withdraws(j.to) THEN Doing("written", j.who) ELSE NoJob
                 ELSE IF Stale(q) THEN [job[q] EXCEPT !.overlapped = TRUE] ELSE job[q]]
    /\ UNCHANGED patOwner

(* What the trigger did, once more: it reaches the tokens inserted since.  *)
RevokeForUser(p) ==
    /\ job[p].pc = "written"
    /\ patEnded' = patEnded \cup TokensOf(job[p].who)
    /\ Finish(p)
    /\ UNCHANGED <<role, patOwner, late>>

(* A statement fails or the server dies; what is committed stays.          *)
AbortJob(p) ==
    /\ job[p].pc # "idle"
    /\ Finish(p)
    /\ UNCHANGED <<role, patVars>>

-----------------------------------------------------------------------------
(* createPAT: the request is admitted and patSubject has its user.         *)
BeginCreate(p, u) ==
    /\ job[p].pc = "idle"
    /\ Admitted(u)
    /\ job' = [job EXCEPT ![p] = [Doing("creating", u) EXCEPT !.overlapped = ~Privileged(u)]]
    /\ UNCHANGED <<role, patVars>>

(* CreateWithExpiry: the INSERT.                                           *)
CreateWithExpiry(p, t) ==
    /\ job[p].pc = "creating"
    /\ patOwner[t] = NoOne
    /\ patOwner' = [patOwner EXCEPT ![t] = job[p].who]
    /\ late' = IF job[p].overlapped THEN late \cup {t} ELSE late
    /\ job' = [q \in Proc |->
                 IF q = p THEN NoJob
                 ELSE IF job[q].pc = "writing" /\ job[q].who = job[p].who
                      THEN [job[q] EXCEPT !.missed = @ \cup {t}]
                      ELSE job[q]]
    /\ UNCHANGED <<role, patEnded>>

(* revokePAT, by the owner of the token or by an instance admin, or the    *)
(* expiry of the token.                                                    *)
EndPAT(t) ==
    /\ PATLive(t)
    /\ patEnded' = patEnded \cup {t}
    /\ UNCHANGED <<role, patOwner, late, job>>

MNext ==
    \/ \E p \in Proc :
          \/ \E u \in User, to \in Roles : LoadMember(p, u, to)
          \/ \E u \in User : BeginCreate(p, u)
          \/ \E t \in Pat : CreateWithExpiry(p, t)
          \/ CheckOwner(p) \/ WriteRole(p) \/ CommitRole(p) \/ RevokeForUser(p) \/ AbortJob(p)
    \/ \E t \in Pat : EndPAT(t)

MSpec == MInit /\ [][MNext]_mvars

-----------------------------------------------------------------------------
MembersTypeOK ==
    /\ role \in [User -> Roles]
    /\ patOwner \in [Pat -> User \cup {NoOne}]
    /\ patEnded \cup late \subseteq {t \in Pat : patOwner[t] # NoOne}
    /\ job \in [Proc -> Job]

(* member.last_owner: changes of membership that do not overlap another    *)
(* never take the last owner away; only one whose read or check was stale  *)
(* when it wrote can.                                                      *)
SequentialChangesKeepOwner ==
    [][Owners' = {} /\ Owners # {} =>
         \E p \in Proc : job[p].pc = "writing" /\ job[p].overlapped /\ job'[p] # job[p]]_mvars

(* A token that can be used belongs to an owner or admin: a user who is    *)
(* downgraded or removed keeps none, whatever fails after the commit,      *)
(* except tokens inserted past the trigger by a request that was admitted  *)
(* before the change was committed, and those made with such a token.      *)
TokensFollowRole ==
    \A t \in Pat : PATLive(t) /\ ~Privileged(patOwner[t]) => t \in late

=============================================================================
