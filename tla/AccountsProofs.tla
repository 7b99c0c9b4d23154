--------------------------- MODULE AccountsProofs ----------------------------
(***************************************************************************)
(* Proofs about the accounts of a tenant, for any number of users, tokens, *)
(* addresses, objects and requests in flight: Members, Sessions,           *)
(* Registration and TenantLogo, which share no variable.                   *)
(***************************************************************************)
EXTENDS Members, Sessions, Registration, TenantLogo, TLAPS

-----------------------------------------------------------------------------
(***************************************************************************)
(* Members.  MembersInv adds to the properties what requests in flight may *)
(* count on: who they are about (JobsNamed); that a request which passed   *)
(* the last-owner check and was not overtaken still has another owner to   *)
(* leave the tenant to (ChecksHold); that the row of a membership has one  *)
(* writer (RowHeld), so that its trigger judged the role it replaces and   *)
(* found every token but those inserted since (WritesSound); and that a    *)
(* token about to be inserted for a user without the role is marked        *)
(* (CreatesMarked).                                                        *)
(***************************************************************************)

(* A request that is under way is about a user, and the tokens it found    *)
(* exist.                                                                  *)
JobsNamed ==
    \A p \in Proc : /\ job[p].pc # "idle" => job[p].who \in User
                    /\ job[p].found \cup job[p].missed \subseteq {t \in Pat : patOwner[t] # NoOne}

(* A request about to take an owner away, whose check is not out of date,  *)
(* leaves another.                                                         *)
ChecksHold ==
    \A p \in Proc :
        job[p].pc \in {"checked", "writing"} /\ ~job[p].overlapped /\ job[p].to # "owner"
            /\ role[job[p].who] = "owner" => \E u \in Owners : u # job[p].who

(* The UPDATE or DELETE holds the row until its transaction ends.          *)
RowHeld ==
    \A p, q \in Proc :
        job[p].pc = "writing" /\ job[q].pc = "writing" /\ job[p].who = job[q].who => p = q

(* What the trigger of a transaction still open has missed.                *)
WritesSound ==
    \A p \in Proc :
        job[p].pc = "writing" /\ role[job[p].who] \notin {"none", job[p].to} /\ Withdraws(job[p].to)
            => TokensOf(job[p].who) \subseteq job[p].found \cup job[p].missed

(* A createPAT whose user has not the role, or lost it, knows.             *)
CreatesMarked ==
    \A p \in Proc : job[p].pc = "creating" /\ ~Privileged(job[p].who) => job[p].overlapped

MembersInv == /\ MembersTypeOK /\ JobsNamed /\ ChecksHold
              /\ RowHeld /\ WritesSound /\ CreatesMarked /\ TokensFollowRole

(* Initially there are no tokens and no requests.                          *)
LEMMA MembersInvInit == MInit => MembersInv
<1> SUFFICES ASSUME MInit PROVE MembersInv
  OBVIOUS
<1> USE DEF MInit, NoJob
<1>1. MembersTypeOK
  BY DEF MembersTypeOK, Job, Roles
<1>2. JobsNamed /\ ChecksHold /\ TokensFollowRole
  BY DEF JobsNamed, ChecksHold, TokensFollowRole, PATLive
<1>3. RowHeld /\ WritesSound /\ CreatesMarked
  BY DEF RowHeld, WritesSound, CreatesMarked
<1>4. QED
  BY <1>1, <1>2, <1>3 DEF MembersInv

(* What the commit of a change of membership does to the requests: its own *)
(* goes on or ends, the others are marked at most.                         *)
LEMMA CommitJobs ==
    ASSUME MembersInv, NEW p \in Proc, CommitRole(p)
    PROVE  /\ job' \in [Proc -> Job]
           /\ job'[p].pc \in {"idle", "written"} /\ job'[p].found = {} /\ job'[p].missed = {}
           /\ job'[p].pc = "written" => job'[p].who = job[p].who
           /\ \A q \in Proc \ {p} :
                 /\ job'[q].pc = job[q].pc /\ job'[q].who = job[q].who /\ job'[q].to = job[q].to
                 /\ job'[q].found = job[q].found /\ job'[q].missed = job[q].missed
                 /\ job[q].overlapped => job'[q].overlapped
                 /\ job[q].pc \in {"loaded", "checked", "writing"} => job'[q].overlapped
                 /\ job[q].pc = "creating" /\ job[q].who = job[p].who /\ Withdraws(job[p].to)
                       => job'[q].overlapped
<1> USE MembersAssumption DEF MembersInv, MembersTypeOK, JobsNamed
<1>1. job \in [Proc -> Job] /\ job[p].who \in User
  BY DEF CommitRole
<1>2. NoJob \in Job /\ Doing("written", job[p].who) \in Job
  BY <1>1 DEF NoJob, Doing, Job, Roles
<1>3. job'[p] = Doing("written", job[p].who) \/ job'[p] = NoJob
  BY DEF CommitRole
<1>4. \A q \in Proc \ {p} : job'[q] = job[q] \/ job'[q] = [job[q] EXCEPT !.overlapped = TRUE]
  BY DEF CommitRole
<1>5. \A q \in Proc \ {p} :
         \/ job[q].pc \in {"loaded", "checked", "writing"}
         \/ job[q].pc = "creating" /\ job[q].who = job[p].who /\ Withdraws(job[p].to)
         => job'[q] = [job[q] EXCEPT !.overlapped = TRUE]
  BY DEF CommitRole
<1>6. \A q \in Proc \ {p} : [job[q] EXCEPT !.overlapped = TRUE] \in Job
  <2>1. \A j \in Job : [j EXCEPT !.overlapped = TRUE] \in Job
    BY DEF Job
  <2>2. QED
    BY <1>1, <2>1
<1>7. job' \in [Proc -> Job]
  <2>1. DOMAIN job' = Proc /\ job' = [q \in Proc |-> job'[q]]
    BY DEF CommitRole
  <2>2. job'[p] \in Job /\ \A q \in Proc \ {p} : job[q] \in Job
    BY <1>1, <1>2, <1>3
  <2>3. \A q \in Proc \ {p} : job'[q] \in Job
    BY <2>2, <1>4, <1>6
  <2>4. QED
    BY <2>1, <2>2, <2>3
<1>8. /\ job'[p].pc \in {"idle", "written"} /\ job'[p].found = {} /\ job'[p].missed = {}
      /\ job'[p].pc = "written" => job'[p].who = job[p].who
  <2>1. NoJob.pc = "idle" /\ NoJob.found = {} /\ NoJob.missed = {}
    BY DEF NoJob
  <2>2. /\ Doing("written", job[p].who).pc = "written" /\ Doing("written", job[p].who).found = {}
        /\ Doing("written", job[p].who).missed = {} /\ Doing("written", job[p].who).who = job[p].who
    BY DEF NoJob, Doing
  <2>3. QED
    BY <1>3, <2>1, <2>2
<1>9. ASSUME NEW q \in Proc \ {p}
      PROVE  /\ job'[q].pc = job[q].pc /\ job'[q].who = job[q].who /\ job'[q].to = job[q].to
             /\ job'[q].found = job[q].found /\ job'[q].missed = job[q].missed
             /\ job[q].overlapped => job'[q].overlapped
             /\ job[q].pc \in {"loaded", "checked", "writing"} => job'[q].overlapped
             /\ job[q].pc = "creating" /\ job[q].who = job[p].who /\ Withdraws(job[p].to)
                   => job'[q].overlapped
  <2>1. job[q] \in Job
    BY <1>1
  <2>2. QED
    BY <2>1, <1>4, <1>5 DEF Job
<1>10. QED
  BY <1>7, <1>8, <1>9

(* What an INSERT does to the requests: its own ends, and a trigger that   *)
(* has run for the user missed the token.                                  *)
LEMMA CreateJobs ==
    ASSUME MembersInv, NEW p \in Proc, NEW t \in Pat, CreateWithExpiry(p, t)
    PROVE  /\ job' \in [Proc -> Job]
           /\ job'[p] = NoJob
           /\ \A q \in Proc \ {p} :
                 /\ job'[q].pc = job[q].pc /\ job'[q].who = job[q].who /\ job'[q].to = job[q].to
                 /\ job'[q].found = job[q].found /\ job'[q].overlapped = job[q].overlapped
                 /\ job'[q].missed \in {job[q].missed, job[q].missed \cup {t}}
                 /\ job[q].pc = "writing" /\ job[q].who = job[p].who => t \in job'[q].missed
<1> USE MembersAssumption DEF MembersInv, MembersTypeOK, JobsNamed
<1>1. job \in [Proc -> Job] /\ NoJob \in Job
  BY DEF NoJob, Job, Roles
<1>2. job'[p] = NoJob
  BY DEF CreateWithExpiry
<1>3. \A q \in Proc \ {p} :
         job'[q] = job[q] \/ job'[q] = [job[q] EXCEPT !.missed = job[q].missed \cup {t}]
  BY DEF CreateWithExpiry
<1>4. \A q \in Proc \ {p} : job[q].pc = "writing" /\ job[q].who = job[p].who
         => job'[q] = [job[q] EXCEPT !.missed = job[q].missed \cup {t}]
  BY DEF CreateWithExpiry
<1>5. \A q \in Proc \ {p} : [job[q] EXCEPT !.missed = job[q].missed \cup {t}] \in Job
  BY <1>1 DEF Job
<1>6. job' \in [Proc -> Job]
  <2>1. job' = [q \in Proc |-> job'[q]]
    BY DEF CreateWithExpiry
  <2>2. job'[p] \in Job /\ \A q \in Proc \ {p} : job[q] \in Job
    BY <1>1, <1>2
  <2>3. \A q \in Proc \ {p} : job'[q] \in Job
    BY <2>2, <1>3, <1>5
  <2>4. QED
    BY <2>1, <2>2, <2>3
<1>7. ASSUME NEW q \in Proc \ {p}
      PROVE  /\ job'[q].pc = job[q].pc /\ job'[q].who = job[q].who /\ job'[q].to = job[q].to
             /\ job'[q].found = job[q].found /\ job'[q].overlapped = job[q].overlapped
             /\ job'[q].missed \in {job[q].missed, job[q].missed \cup {t}}
             /\ job[q].pc = "writing" /\ job[q].who = job[p].who => t \in job'[q].missed
  <2>1. job[q] \in Job
    BY <1>1
  <2>2. CASE job'[q] = [job[q] EXCEPT !.missed = job[q].missed \cup {t}]
    BY <2>1, <2>2 DEF Job
  <2>3. CASE job'[q] = job[q] /\ ~(job[q].pc = "writing" /\ job[q].who = job[p].who)
    BY <2>3
  <2>4. QED
    BY <1>3, <1>4, <2>2, <2>3
<1>8. QED
  BY <1>2, <1>6, <1>7

(* Every statement of the handlers keeps the types.                        *)
LEMMA MembersTypes == MembersInv /\ MNext => (MembersTypeOK /\ JobsNamed)'
<1> SUFFICES ASSUME MembersInv, MNext PROVE (MembersTypeOK /\ JobsNamed)'
  OBVIOUS
<1> USE MembersAssumption DEF MembersInv, MembersTypeOK, JobsNamed, Job, NoJob, Doing, Finish, patVars
<1>1. ASSUME NEW p \in Proc, NEW u \in User, NEW to \in Roles, LoadMember(p, u, to)
      PROVE  (MembersTypeOK /\ JobsNamed)'
  BY <1>1 DEF LoadMember
<1>2. ASSUME NEW p \in Proc, NEW u \in User, BeginCreate(p, u)
      PROVE  (MembersTypeOK /\ JobsNamed)'
  BY <1>2 DEF BeginCreate, Roles
<1>3. ASSUME NEW p \in Proc, NEW t \in Pat, CreateWithExpiry(p, t)
      PROVE  (MembersTypeOK /\ JobsNamed)'
  <2>1. job[p].who \in User /\ patOwner' = [patOwner EXCEPT ![t] = job[p].who]
        /\ UNCHANGED <<role, patEnded>> /\ late' \subseteq late \cup {t}
    BY <1>3 DEF CreateWithExpiry
  <2>2. MembersTypeOK'
    BY <1>3, <2>1, CreateJobs
  <2>3. \A q \in Proc : job'[q].pc # "idle" => job'[q].who \in User
    BY <1>3, CreateJobs
  <2>4. \A q \in Proc : job'[q].found \cup job'[q].missed \subseteq {x \in Pat : patOwner'[x] # NoOne}
    BY <1>3, <2>1, CreateJobs
  <2>5. QED
    BY <2>2, <2>3, <2>4
<1>4. ASSUME NEW p \in Proc, CheckOwner(p) PROVE (MembersTypeOK /\ JobsNamed)'
  <2>1. job' = [job EXCEPT ![p] = NoJob] \/ job' = [job EXCEPT ![p] = [job[p] EXCEPT !.pc = "checked"]]
    BY <1>4 DEF CheckOwner
  <2>2. job[p].who \in User /\ UNCHANGED <<role, patOwner, patEnded, late>>
    BY <1>4 DEF CheckOwner
  <2>3. CASE job' = [job EXCEPT ![p] = NoJob]
    BY <2>2, <2>3 DEF Roles
  <2>4. CASE job' = [job EXCEPT ![p] = [job[p] EXCEPT !.pc = "checked"]]
    BY <2>2, <2>4
  <2>5. QED
    BY <2>1, <2>3, <2>4
<1>5. ASSUME NEW p \in Proc, WriteRole(p) PROVE (MembersTypeOK /\ JobsNamed)'
  <2>1. RevokedByTrigger(job[p].who, job[p].to) \subseteq {x \in Pat : patOwner[x] # NoOne}
    BY <1>5 DEF WriteRole, RevokedByTrigger, TokensOf
  <2>2. job' = [job EXCEPT ![p] = [job[p] EXCEPT !.pc = "writing",
                                                 !.found = RevokedByTrigger(job[p].who, job[p].to)]]
    BY <1>5 DEF WriteRole
  <2>3. job[p].who \in User /\ UNCHANGED <<role, patOwner, patEnded, late>>
    BY <1>5 DEF WriteRole
  <2>4. /\ job'[p].pc = "writing" /\ job'[p].who = job[p].who /\ job'[p].missed = job[p].missed
        /\ job'[p].found = RevokedByTrigger(job[p].who, job[p].to)
        /\ job'[p] \in Job
    <3>1. job[p] \in Job /\ RevokedByTrigger(job[p].who, job[p].to) \in SUBSET Pat
      BY <2>1
    <3>2. job'[p] = [job[p] EXCEPT !.pc = "writing", !.found = RevokedByTrigger(job[p].who, job[p].to)]
      BY <2>2
    <3>3. QED
      BY <3>1, <3>2
  <2>5. job' \in [Proc -> Job] /\ \A q \in Proc \ {p} : job'[q] = job[q]
    BY <2>2, <2>4
  <2>6. MembersTypeOK'
    BY <2>3, <2>5
  <2>7. JobsNamed'
    BY <2>1, <2>3, <2>4, <2>5
  <2>8. QED
    BY <2>6, <2>7
<1>6. ASSUME NEW p \in Proc, CommitRole(p) PROVE (MembersTypeOK /\ JobsNamed)'
  <2>1. /\ job[p].who \in User /\ UNCHANGED patOwner
        /\ role' = [role EXCEPT ![job[p].who] = IF @ = "none" THEN @ ELSE job[p].to]
        /\ patEnded' = patEnded \cup job[p].found
        /\ late' \subseteq late \cup job[p].missed
    BY <1>6 DEF CommitRole
  <2>2. MembersTypeOK'
    BY <1>6, <2>1, CommitJobs
  <2>3. JobsNamed'
    BY <1>6, <2>1, CommitJobs
  <2>4. QED
    BY <2>2, <2>3
<1>7. ASSUME NEW p \in Proc, RevokeForUser(p) PROVE (MembersTypeOK /\ JobsNamed)'
  BY <1>7 DEF RevokeForUser, TokensOf, Roles
<1>8. ASSUME NEW p \in Proc, AbortJob(p) PROVE (MembersTypeOK /\ JobsNamed)'
  BY <1>8 DEF AbortJob, Roles
<1>9. ASSUME NEW t \in Pat, EndPAT(t) PROVE (MembersTypeOK /\ JobsNamed)'
  BY <1>9 DEF EndPAT, PATLive
<1>10. QED
  BY <1>1, <1>2, <1>3, <1>4, <1>5, <1>6, <1>7, <1>8, <1>9 DEF MNext

(* The last-owner check holds until somebody else commits, which marks the *)
(* request as overtaken.                                                   *)
LEMMA ChecksStep == MembersInv /\ MNext => ChecksHold'
<1> SUFFICES ASSUME MembersInv, MNext PROVE ChecksHold'
  OBVIOUS
<1> USE MembersAssumption DEF MembersInv, MembersTypeOK, JobsNamed, ChecksHold, Owners, Job, NoJob,
                              Doing, Finish, patVars
<1>1. ASSUME NEW p \in Proc, NEW u \in User, NEW to \in Roles, LoadMember(p, u, to)
      PROVE  ChecksHold'
  BY <1>1 DEF LoadMember
<1>2. ASSUME NEW p \in Proc, CheckOwner(p) PROVE ChecksHold'
  BY <1>2 DEF CheckOwner, hasAnotherOwner
<1>3. ASSUME NEW p \in Proc, WriteRole(p) PROVE ChecksHold'
  BY <1>3 DEF WriteRole
<1>4. ASSUME NEW p \in Proc, CommitRole(p) PROVE ChecksHold'
  BY <1>4, CommitJobs
<1>5. ASSUME NEW p \in Proc, NEW u \in User, BeginCreate(p, u) PROVE ChecksHold'
  BY <1>5 DEF BeginCreate
<1>6. ASSUME NEW p \in Proc, NEW t \in Pat, CreateWithExpiry(p, t) PROVE ChecksHold'
  <2>1. UNCHANGED role
    BY <1>6 DEF CreateWithExpiry
  <2>2. QED
    BY <1>6, <2>1, CreateJobs
<1>7. ASSUME NEW p \in Proc, RevokeForUser(p) \/ AbortJob(p) PROVE ChecksHold'
  BY <1>7 DEF RevokeForUser, AbortJob
<1>8. ASSUME NEW t \in Pat, EndPAT(t) PROVE ChecksHold'
  BY <1>8 DEF EndPAT
<1>9. QED
  BY <1>1, <1>2, <1>3, <1>4, <1>5, <1>6, <1>7, <1>8 DEF MNext

(* A row has one writer; the role its trigger judged is there until the    *)
(* commit, and a token inserted meanwhile is known to be missed.           *)
LEMMA WritesStep == MembersInv /\ MNext => (RowHeld /\ WritesSound /\ CreatesMarked)'
<1> SUFFICES ASSUME MembersInv, MNext PROVE (RowHeld /\ WritesSound /\ CreatesMarked)'
  OBVIOUS
<1> USE MembersAssumption DEF MembersInv, MembersTypeOK, JobsNamed, RowHeld, WritesSound, CreatesMarked,
                              TokensOf, Privileged, Job, NoJob, Doing, Finish, patVars
<1>1. ASSUME NEW p \in Proc, NEW u \in User, NEW to \in Roles, LoadMember(p, u, to)
      PROVE  (RowHeld /\ WritesSound /\ CreatesMarked)'
  BY <1>1 DEF LoadMember
<1>2. ASSUME NEW p \in Proc, CheckOwner(p) PROVE (RowHeld /\ WritesSound /\ CreatesMarked)'
  BY <1>2 DEF CheckOwner
<1>3. ASSUME NEW p \in Proc, WriteRole(p) PROVE (RowHeld /\ WritesSound /\ CreatesMarked)'
  BY <1>3 DEF WriteRole, RevokedByTrigger
<1>4. ASSUME NEW p \in Proc, CommitRole(p) PROVE (RowHeld /\ WritesSound /\ CreatesMarked)'
  <2>1. /\ job[p].who \in User /\ job[p].pc = "writing" /\ job[p].to \in Roles /\ UNCHANGED patOwner
        /\ role' = [role EXCEPT ![job[p].who] = IF @ = "none" THEN @ ELSE job[p].to]
    BY <1>4 DEF CommitRole
  <2>2. RowHeld'
    BY <1>4, CommitJobs
  <2>3. WritesSound'
    <3> SUFFICES ASSUME NEW q \in Proc, job'[q].pc = "writing",
                        role'[job'[q].who] \notin {"none", job'[q].to}, Withdraws(job'[q].to)
                 PROVE  {x \in Pat : patOwner'[x] = job'[q].who} \subseteq job'[q].found \cup job'[q].missed
      OBVIOUS
    <3>1. q # p
      BY <1>4, CommitJobs
    <3>2. /\ job'[q].pc = job[q].pc /\ job'[q].who = job[q].who /\ job'[q].to = job[q].to
          /\ job'[q].found = job[q].found /\ job'[q].missed = job[q].missed
      BY <1>4, <3>1, CommitJobs
    <3>3. job[q].who \in User /\ job[q].who # job[p].who
      BY <2>1, <3>1, <3>2
    <3>4. role'[job[q].who] = role[job[q].who]
      BY <2>1, <3>3
    <3>5. QED
      BY <2>1, <3>2, <3>4
  <2>4. CreatesMarked'
    <3> SUFFICES ASSUME NEW q \in Proc, job'[q].pc = "creating", role'[job'[q].who] \notin {"owner", "admin"}
                 PROVE  job'[q].overlapped
      OBVIOUS
    <3>1. q # p
      BY <1>4, CommitJobs
    <3>2. job[q].pc = "creating" /\ job'[q].who = job[q].who /\ job[q].who \in User
      BY <1>4, <3>1, CommitJobs
    <3>3. CASE ~Privileged(job[q].who)
      BY <1>4, <3>1, <3>2, <3>3, CommitJobs
    <3>4. CASE Privileged(job[q].who)
      <4>1. job[q].who = job[p].who /\ Withdraws(job[p].to)
        BY <2>1, <3>2, <3>4 DEF Withdraws, Roles
      <4>2. QED
        BY <1>4, <3>1, <3>2, <4>1, CommitJobs
    <3>5. QED
      BY <3>3, <3>4
  <2>5. QED
    BY <2>2, <2>3, <2>4
<1>5. ASSUME NEW p \in Proc, NEW u \in User, BeginCreate(p, u)
      PROVE  (RowHeld /\ WritesSound /\ CreatesMarked)'
  <2>1. RowHeld'
    BY <1>5 DEF BeginCreate
  <2>2. WritesSound'
    BY <1>5 DEF BeginCreate
  <2>3. CreatesMarked'
    BY <1>5 DEF BeginCreate
  <2>4. QED
    BY <2>1, <2>2, <2>3
<1>6. ASSUME NEW p \in Proc, NEW t \in Pat, CreateWithExpiry(p, t)
      PROVE  (RowHeld /\ WritesSound /\ CreatesMarked)'
  <2>1. job[p].who \in User /\ patOwner' = [patOwner EXCEPT ![t] = job[p].who] /\ UNCHANGED role
    BY <1>6 DEF CreateWithExpiry
  <2>2. (RowHeld /\ CreatesMarked)'
    <3>1. job'[p].pc = "idle"
      BY <1>6, CreateJobs
    <3>2. \A q \in Proc \ {p} : /\ job'[q].pc = job[q].pc /\ job'[q].who = job[q].who
                                /\ job'[q].overlapped = job[q].overlapped
      BY <1>6, CreateJobs
    <3>3. RowHeld'
      BY <3>1, <3>2
    <3>4. CreatesMarked'
      BY <2>1, <3>1, <3>2
    <3>5. QED
      BY <3>3, <3>4
  <2>3. WritesSound'
    <3> SUFFICES ASSUME NEW q \in Proc, job'[q].pc = "writing",
                        role'[job'[q].who] \notin {"none", job'[q].to}, Withdraws(job'[q].to),
                        NEW x \in Pat, patOwner'[x] = job'[q].who
                 PROVE  x \in job'[q].found \cup job'[q].missed
      OBVIOUS
    <3>1. q # p
      BY <1>6, CreateJobs
    <3>2. /\ job'[q].pc = job[q].pc /\ job'[q].who = job[q].who /\ job'[q].to = job[q].to
          /\ job'[q].found = job[q].found
          /\ job'[q].missed \in {job[q].missed, job[q].missed \cup {t}}
          /\ job[q].pc = "writing" /\ job[q].who = job[p].who => t \in job'[q].missed
      BY <1>6, <3>1, CreateJobs
    <3>3. CASE x = t
      BY <2>1, <3>2, <3>3
    <3>4. CASE x # t
      BY <2>1, <3>2, <3>4
    <3>5. QED
      BY <3>3, <3>4
  <2>4. QED
    BY <2>2, <2>3
<1>7. ASSUME NEW p \in Proc, RevokeForUser(p) \/ AbortJob(p)
      PROVE  (RowHeld /\ WritesSound /\ CreatesMarked)'
  <2>1. RowHeld'
    BY <1>7 DEF RevokeForUser, AbortJob
  <2>2. WritesSound'
    BY <1>7 DEF RevokeForUser, AbortJob
  <2>3. CreatesMarked'
    BY <1>7 DEF RevokeForUser, AbortJob
  <2>4. QED
    BY <2>1, <2>2, <2>3
<1>8. ASSUME NEW t \in Pat, EndPAT(t) PROVE (RowHeld /\ WritesSound /\ CreatesMarked)'
  BY <1>8 DEF EndPAT
<1>9. QED
  BY <1>1, <1>2, <1>3, <1>4, <1>5, <1>6, <1>7, <1>8 DEF MNext

(* The commit of a downgrade or removal revokes what its trigger found,    *)
(* which is everything but what was inserted past it.                      *)
LEMMA TokensStep == MembersInv /\ MNext => TokensFollowRole'
<1> SUFFICES ASSUME MembersInv, MNext PROVE TokensFollowRole'
  OBVIOUS
<1> USE MembersAssumption DEF MembersInv, MembersTypeOK, JobsNamed, TokensFollowRole, PATLive,
                              Privileged, Job, NoJob, Doing, Finish, patVars
<1>1. ASSUME NEW p \in Proc, NEW u \in User, NEW to \in Roles, LoadMember(p, u, to)
      PROVE  TokensFollowRole'
  BY <1>1 DEF LoadMember
<1>2. ASSUME NEW p \in Proc, CheckOwner(p) \/ WriteRole(p) PROVE TokensFollowRole'
  BY <1>2 DEF CheckOwner, WriteRole
<1>3. ASSUME NEW p \in Proc, CommitRole(p) PROVE TokensFollowRole'
  <2> SUFFICES ASSUME NEW t \in Pat, patOwner'[t] # NoOne, t \notin patEnded',
                      role'[patOwner'[t]] \notin {"owner", "admin"}
               PROVE  t \in late'
    OBVIOUS
  <2>1. /\ job[p].who \in User /\ job[p].pc = "writing" /\ job[p].to \in Roles /\ UNCHANGED patOwner
        /\ role' = [role EXCEPT ![job[p].who] = IF @ = "none" THEN @ ELSE job[p].to]
        /\ patEnded' = patEnded \cup job[p].found
        /\ late \subseteq late'
        /\ Withdraws(job[p].to) => late' = late \cup job[p].missed
    BY <1>3 DEF CommitRole
  <2>2. patOwner[t] \in User
    BY <2>1
  <2>3. CASE ~Privileged(patOwner[t])
    BY <2>1, <2>3
  <2>4. CASE Privileged(patOwner[t])
    <3>1. patOwner[t] = job[p].who /\ Withdraws(job[p].to) /\ role[job[p].who] \notin {"none", job[p].to}
      BY <2>1, <2>2, <2>4 DEF Withdraws, Roles
    <3>2. t \in job[p].found \cup job[p].missed
      BY <2>1, <3>1 DEF WritesSound, TokensOf
    <3>3. QED
      BY <2>1, <3>1, <3>2
  <2>5. QED
    BY <2>3, <2>4
<1>4. ASSUME NEW p \in Proc, NEW u \in User, BeginCreate(p, u) PROVE TokensFollowRole'
  BY <1>4 DEF BeginCreate
<1>5. ASSUME NEW p \in Proc, NEW t \in Pat, CreateWithExpiry(p, t) PROVE TokensFollowRole'
  BY <1>5 DEF CreateWithExpiry, CreatesMarked
<1>6. ASSUME NEW p \in Proc, RevokeForUser(p) PROVE TokensFollowRole'
  BY <1>6 DEF RevokeForUser, TokensOf
<1>7. ASSUME NEW p \in Proc, AbortJob(p) PROVE TokensFollowRole'
  BY <1>7 DEF AbortJob
<1>8. ASSUME NEW t \in Pat, EndPAT(t) PROVE TokensFollowRole'
  BY <1>8 DEF EndPAT
<1>9. QED
  BY <1>1, <1>2, <1>3, <1>4, <1>5, <1>6, <1>7, <1>8 DEF MNext

(* MembersInv is inductive.                                                *)
LEMMA MembersInvStep == MembersInv /\ [MNext]_mvars => MembersInv'
<1>1. CASE UNCHANGED mvars
  BY <1>1 DEF mvars, patVars, MembersInv, MembersTypeOK, JobsNamed, ChecksHold, Owners, RowHeld,
              WritesSound, CreatesMarked, TokensOf, TokensFollowRole, PATLive, Privileged
<1>2. QED
  BY <1>1, MembersTypes, ChecksStep, WritesStep, TokensStep DEF MembersInv

(* A token that can be used belongs to an owner or admin, whatever fails   *)
(* after a change of membership is committed, but for tokens inserted past *)
(* the trigger that revokes them.                                          *)
THEOREM TokensWithdrawn == MSpec => []TokensFollowRole
<1>1. MembersInv => TokensFollowRole
  BY DEF MembersInv
<1>2. QED
  BY MembersInvInit, MembersInvStep, <1>1, PTL DEF MSpec

(* A step that takes the last owner away is the commit of a request that   *)
(* was overtaken after it read or checked.                                 *)
LEMMA OwnerStep ==
    MembersInv /\ [MNext]_mvars =>
        (Owners' = {} /\ Owners # {} =>
            \E p \in Proc : job[p].pc = "writing" /\ job[p].overlapped /\ job'[p] # job[p])
<1> SUFFICES ASSUME MembersInv, [MNext]_mvars, Owners' = {}, Owners # {}
             PROVE  \E p \in Proc : job[p].pc = "writing" /\ job[p].overlapped /\ job'[p] # job[p]
  OBVIOUS
<1>1. role' # role
  BY DEF Owners
<1>2. PICK p \in Proc : CommitRole(p)
  BY <1>1 DEF MNext, mvars, LoadMember, CheckOwner, WriteRole, RevokeForUser, AbortJob, BeginCreate,
              CreateWithExpiry, EndPAT
<1>3. job[p].pc = "writing" /\ job'[p] # job[p]
  <2>1. job[p].pc = "writing"
    BY <1>2 DEF CommitRole
  <2>2. QED
    BY <1>2, <2>1, CommitJobs
<1> USE DEF MembersInv, MembersTypeOK, JobsNamed
<1>4. job[p].who \in User
  BY <1>3
<1>5. \A u \in Owners : u = job[p].who
  <2>1. \A u \in User : u # job[p].who => role'[u] = role[u]
    BY <1>2, <1>4 DEF CommitRole
  <2>2. QED
    BY <2>1 DEF Owners
<1>6. role[job[p].who] = "owner" /\ job[p].to # "owner"
  BY <1>2, <1>4, <1>5 DEF Owners, CommitRole
<1>7. job[p].overlapped
  BY <1>3, <1>5, <1>6 DEF ChecksHold
<1>8. QED
  BY <1>3, <1>7

(* Changes of membership that do not overlap another never take the last   *)
(* owner of a tenant away.                                                 *)
THEOREM LastOwnerKept == MSpec => SequentialChangesKeepOwner
  BY MembersInvInit, MembersInvStep, OwnerStep, PTL DEF MSpec, SequentialChangesKeepOwner

-----------------------------------------------------------------------------
(***************************************************************************)
(* Sessions.  SessionsInv adds that a token withdrawn with its session     *)
(* stays without one: a first write of its session is not under way, unless*)
(* it was overtaken by the withdrawal.                                     *)
(***************************************************************************)

(* A token that was withdrawn with its session has a revoked session, which*)
(* a late write keeps revoked, or none, and nobody is about to write one.  *)
TornSettled ==
    \A t \in torn :
        /\ t \in withdrawn
        /\ t \in overtaken \/ t \in revoked \/ (t \notin upserts /\ sessOwner[t] = Nobody)

SessionsInv == SessionsTypeOK /\ TornSettled

(* Initially no token has been used and no session opened.                 *)
LEMMA SessionsInvInit == SInit => SessionsInv
  BY SessionsAssumption DEF SInit, SessionsInv, SessionsTypeOK, TornSettled, Id

(* A step that only revokes sessions which are there.                      *)
LEMMA RevokeSessionsStep ==
    ASSUME SessionsInv, NEW S \in SUBSET {x \in Id : sessOwner[x] # Nobody}, RevokeSessions(S)
    PROVE  SessionsInv'
<1> USE DEF RevokeSessions, SessionsInv, tokenVars, userVars
<1>1. SessionsTypeOK'
  BY DEF SessionsTypeOK
<1>2. TornSettled'
  BY DEF TornSettled
<1>3. QED
  BY <1>1, <1>2

(* Every handler, and the goroutine that writes sessions, keeps it.        *)
LEMMA SessionsInvStep == SessionsInv /\ [SNext]_svars => SessionsInv'
<1> SUFFICES ASSUME SessionsInv, [SNext]_svars PROVE SessionsInv'
  OBVIOUS
<1> USE SessionsAssumption DEF SessionsInv, SessionsTypeOK, TornSettled, tokenVars, userVars, Id
<1>1. ASSUME NEW t \in Bearer, Authenticate(t) \/ LoseUpsert(t) PROVE SessionsInv'
  BY <1>1 DEF Authenticate, LoseUpsert, BearerLive
<1>2. ASSUME NEW t \in Bearer, UpsertPATSession(t) PROVE SessionsInv'
  BY <1>2 DEF UpsertPATSession, KeptRevoked
<1>3. ASSUME NEW t \in Bearer, RevokeAnyPAT(t) PROVE SessionsInv'
  BY <1>3 DEF RevokeAnyPAT
<1>4. ASSUME NEW t \in Bearer, NEW x \in Id, RevokePAT(x, t) PROVE SessionsInv'
  BY <1>4 DEF RevokePAT
<1>5. ASSUME NEW t \in Bearer, TearDown(t) PROVE SessionsInv'
  BY <1>5 DEF TearDown, TokenSession
<1>6. ASSUME NEW t \in Bearer, LoseTearDown(t) PROVE SessionsInv'
  BY <1>6 DEF LoseTearDown
<1>7. ASSUME NEW u \in Person, WithdrawForUser(u) PROVE SessionsInv'
  BY <1>7 DEF WithdrawForUser
<1>8. ASSUME NEW u \in Person, DeleteUserDSR(u) PROVE SessionsInv'
  BY <1>8 DEF DeleteUserDSR
<1>9. ASSUME NEW u \in Person, NEW s \in Cookie, EstablishUserSession(u, s) PROVE SessionsInv'
  BY <1>9 DEF EstablishUserSession
<1>10. ASSUME NEW s \in Cookie, Logout(s) PROVE SessionsInv'
  BY <1>10, RevokeSessionsStep DEF Logout
<1>11. ASSUME NEW x \in Id, RevokeOthers(x) PROVE SessionsInv'
  <2>1. Actor(x) # Nobody
    BY <1>11 DEF RevokeOthers, Resolves, SessionLive, Actor
  <2>2. QED
    BY <1>11, <2>1, RevokeSessionsStep DEF RevokeOthers
<1>12. ASSUME NEW x \in Id, NEW other \in Id, RevokeSession(x, other) PROVE SessionsInv'
  <2>1. Actor(x) # Nobody
    BY <1>12 DEF RevokeSession, Resolves, SessionLive, Actor
  <2>2. QED
    BY <1>12, <2>1, RevokeSessionsStep DEF RevokeSession
<1>13. ASSUME NEW x \in Id, Expire(x) PROVE SessionsInv'
  BY <1>13 DEF Expire
<1>14. ASSUME NEW x \in Id, PatchUserMe(x) PROVE SessionsInv'
  <2>1. Actor(x) \in Person
    BY <1>14 DEF PatchUserMe, Resolves, SessionLive, Actor
  <2>2. QED
    BY <1>14, <2>1 DEF PatchUserMe, Patched
<1>15. CASE AdminRevokeTenantTokens
  BY <1>15 DEF AdminRevokeTenantTokens
<1>16. CASE UNCHANGED svars
  BY <1>16 DEF svars
<1>17. QED
  BY <1>1, <1>2, <1>3, <1>4, <1>5, <1>6, <1>7, <1>8, <1>9, <1>10, <1>11, <1>12, <1>13, <1>14,
     <1>15, <1>16 DEF SNext

(* The session list stops showing a withdrawn token, but for a session     *)
(* that was still to be written when revokePAT revoked the sessions.       *)
THEOREM WithdrawnTokensLeaveTheList == SSpec => []WithdrawnTokenUnlisted
<1>1. SessionsInv => WithdrawnTokenUnlisted
  BY DEF SessionsInv, TornSettled, WithdrawnTokenUnlisted, authListSessions, SessionLive
<1>2. QED
  BY <1>1, SessionsInvInit, SessionsInvStep, PTL DEF SSpec

(* Of all the handlers PatchUserMe alone writes personal data, and not for *)
(* an erased user.                                                         *)
THEOREM ErasedForGood == SSpec => []ErasureFinal
<1>1. SInit => ErasureFinal
  BY DEF SInit, ErasureFinal
<1>2. ErasureFinal /\ [SNext]_svars => ErasureFinal'
  <2> SUFFICES ASSUME ErasureFinal, [SNext]_svars PROVE ErasureFinal'
    OBVIOUS
  <2>1. ASSUME NEW u \in Person, DeleteUserDSR(u) PROVE ErasureFinal'
    BY <2>1 DEF DeleteUserDSR, ErasureFinal
  <2>2. ASSUME NEW x \in Id, PatchUserMe(x) PROVE ErasureFinal'
    BY <2>2 DEF PatchUserMe, Patched, ErasureFinal
  <2>3. CASE UNCHANGED userVars
    BY <2>3 DEF userVars, ErasureFinal
  <2>4. QED
    BY <2>1, <2>2, <2>3 DEF SNext, svars, Authenticate, UpsertPATSession, LoseUpsert, RevokeAnyPAT,
       TearDown, LoseTearDown, RevokePAT, WithdrawForUser, EstablishUserSession, Logout,
       AdminRevokeTenantTokens, RevokeOthers, RevokeSessions, Expire, RevokeSession
<1>3. QED
  BY <1>1, <1>2, PTL DEF SSpec

-----------------------------------------------------------------------------
(***************************************************************************)
(* Registration.  RegInv adds that an open invitation has made no account  *)
(* (OpenInvites), that what a request presents was drawn and is therefore  *)
(* never drawn again (KeysDrawn), and that what the gate found is true     *)
(* until the settings change (GatesHold).                                  *)
(***************************************************************************)

(* The request of a visitor.                                               *)
Visit ==
    [pc : {"idle", "unknown", "read", "gated", "invited", "redeeming"},
     who : Address \cup {Nothing}, method : Methods \cup {Nothing},
     key : Invite \cup Passage \cup {Nothing}, admitting : BOOLEAN, stale : BOOLEAN]

(* The tables of invitations and what the requests carry have their types. *)
RegTypeOK ==
    /\ pending \in [Address -> Invite \cup {Nothing}]
    /\ invitee \in [Invite -> Address \cup {Nothing}]
    /\ passage \in [Passage -> Invite \cup {Nothing}]
    /\ visit \in [Visitor -> Visit]
    /\ redeemed \in [Invite -> Nat]

(* An invitation that is open has made no account and was not withdrawn;   *)
(* one that was never drawn neither.                                       *)
OpenInvites ==
    /\ \A e \in Address : pending[e] # Nothing =>
           /\ invitee[pending[e]] = e
           /\ redeemed[pending[e]] = 0 /\ pending[e] \notin withdrawnInv
    /\ \A t \in Invite : invitee[t] = Nothing => redeemed[t] = 0 /\ t \notin withdrawnInv

(* What a visitor presents was drawn: it cannot be drawn again.            *)
KeysDrawn ==
    /\ \A c \in Passage : passage[c] # Nothing => invitee[passage[c]] # Nothing
    /\ \A v \in Visitor :
           /\ visit[v].pc = "invited" =>
                visit[v].key \in Passage /\ passage[visit[v].key] # Nothing
           /\ visit[v].pc = "redeeming" =>
                visit[v].key \in Invite /\ invitee[visit[v].key] # Nothing
           /\ visit[v].pc \in {"unknown", "read", "gated"} =>
                visit[v].who \in Address /\ visit[v].method \in Methods

(* What the gate made of the settings is what they say, unless they were   *)
(* changed since.  Of a token or continuation that cannot be redeemed      *)
(* nothing is said, and it will never be redeemable again.                 *)
GatesHold ==
    \A v \in Visitor : ~visit[v].stale =>
        /\ visit[v].pc = "read" => visit[v].admitting = SettingsAdmit(settings, visit[v].who)
        /\ visit[v].pc = "gated" =>
             SettingsAdmit(settings, visit[v].who) /\ visit[v].method \in openFor
        /\ visit[v].pc = "invited" /\ PassageLive(visit[v].key) => settings.invites
        /\ visit[v].pc = "redeeming" /\ InviteLive(visit[v].key) => settings.invites

RegInv == RegTypeOK /\ OpenInvites /\ SupersededInviteDead /\ KeysDrawn /\ GatesHold

(* Initially nobody is invited and nobody visits.                          *)
LEMMA RegInvInit == RegInit => RegInv
<1> SUFFICES ASSUME RegInit PROVE RegInv
  OBVIOUS
<1> USE RegistrationAssumption DEF RegInit, NoVisit
<1>1. RegTypeOK
  BY DEF RegTypeOK, Visit
<1>2. OpenInvites /\ SupersededInviteDead /\ KeysDrawn /\ GatesHold
  BY DEF OpenInvites, SupersededInviteDead, KeysDrawn, GatesHold
<1>3. QED
  BY <1>1, <1>2 DEF RegInv

(* A visitor goes on; the invitations and the settings stay.               *)
LEMMA VisitorStep ==
    ASSUME RegInv, NEW v \in Visitor, NEW r \in Visit, visit' = [visit EXCEPT ![v] = r],
           UNCHANGED <<policyVars, inviteVars, redeemed>>,
           r.pc = "invited" => r.key \in Passage /\ passage[r.key] # Nothing,
           r.pc = "redeeming" => r.key \in Invite /\ invitee[r.key] # Nothing,
           r.pc \in {"unknown", "read", "gated"} => r.who \in Address /\ r.method \in Methods,
           ~r.stale =>
             /\ r.pc = "read" => r.admitting = SettingsAdmit(settings, r.who)
             /\ r.pc = "gated" => SettingsAdmit(settings, r.who) /\ r.method \in openFor
             /\ r.pc = "invited" /\ PassageLive(r.key) => settings.invites
             /\ r.pc = "redeeming" /\ InviteLive(r.key) => settings.invites
    PROVE  RegInv'
<1> USE DEF RegInv, policyVars, inviteVars
<1>1. RegTypeOK'
  BY DEF RegTypeOK
<1>2. OpenInvites' /\ SupersededInviteDead'
  BY DEF OpenInvites, SupersededInviteDead
<1>3. KeysDrawn'
  BY DEF KeysDrawn, RegTypeOK
<1>4. GatesHold'
  BY DEF GatesHold, RegTypeOK, SettingsAdmit, allowlistMatches, PassageLive, InviteLive
<1>5. QED
  BY <1>1, <1>2, <1>3, <1>4

(* The sign-up side: every action of a visitor that leaves the             *)
(* invitations alone.                                                      *)
LEMMA SignupStep ==
    ASSUME RegInv, NEW v \in Visitor,
           \/ \E e \in Address, m \in Methods : Signup(v, e, m) \/ FindUser(v, e, m)
           \/ RefuseClosed(v) \/ GateUnknown(v) \/ CheckSignup(v) \/ CreateSignupUser(v)
           \/ AbandonVisit(v) \/ \E key \in Invite \cup Passage : GateInviteByTenant(v, key)
    PROVE  RegInv'
<1> visit[v] \in Visit /\ NoVisit \in Visit
  BY DEF RegInv, RegTypeOK, Visit, NoVisit
<1> DEFINE Unchanged == UNCHANGED <<policyVars, inviteVars, redeemed>>
<1>1. ASSUME Leave(v), Unchanged PROVE RegInv'
  BY <1>1, VisitorStep DEF Leave, NoVisit
<1>2. ASSUME NEW e \in Address, NEW m \in Methods, LoadSignupSettings(v, e, m)
      PROVE  RegInv'
  <2> DEFINE r == [visit[v] EXCEPT !.pc = "read", !.who = e, !.method = m,
                                   !.admitting = SettingsAdmit(settings, e)]
  <2>1. visit' = [visit EXCEPT ![v] = r] /\ Unchanged
    BY <1>2 DEF LoadSignupSettings
  <2>2. SettingsAdmit(settings, e) \in BOOLEAN
    BY DEF SettingsAdmit
  <2>3. /\ r \in Visit /\ r.pc = "read" /\ r.who = e /\ r.method = m
        /\ r.admitting = SettingsAdmit(settings, e)
    BY <2>2, Zenon DEF Visit
  <2>4. QED
    BY <2>1, <2>3, VisitorStep
<1>3. ASSUME NEW e \in Address, NEW m \in Methods, FindUser(v, e, m) PROVE RegInv'
  <2> DEFINE r == [visit[v] EXCEPT !.pc = "unknown", !.who = e, !.method = m]
  <2>1. visit' = [visit EXCEPT ![v] = r] /\ Unchanged
    BY <1>3 DEF FindUser
  <2>2. r \in Visit /\ r.pc = "unknown" /\ r.who = e /\ r.method = m
    BY Zenon DEF Visit
  <2>3. QED
    BY <2>1, <2>2, VisitorStep
<1>4. ASSUME CheckSignup(v) PROVE RegInv'
  <2>1. CASE visit[v].method \in openFor /\ visit[v].admitting
    <3> DEFINE r == [visit[v] EXCEPT !.pc = "gated"]
    <3>1. visit' = [visit EXCEPT ![v] = r] /\ Unchanged /\ visit[v].pc = "read"
      BY <1>4, <2>1 DEF CheckSignup
    <3>2. /\ r \in Visit /\ r.pc = "gated" /\ r.who = visit[v].who
          /\ r.method = visit[v].method /\ r.stale = visit[v].stale
      BY DEF Visit
    <3>3. r.who \in Address /\ r.method \in Methods
      BY <3>1, <3>2 DEF RegInv, KeysDrawn
    <3>4. ~r.stale => SettingsAdmit(settings, r.who) /\ r.method \in openFor
      BY <2>1, <3>1, <3>2 DEF RegInv, GatesHold
    <3> HIDE DEF r
    <3>5. QED
      BY <3>1, <3>2, <3>3, <3>4, VisitorStep
  <2>2. CASE ~(visit[v].method \in openFor /\ visit[v].admitting)
    BY <1>1, <1>4, <2>2 DEF CheckSignup
  <2>3. QED
    BY <2>1, <2>2
<1>5. ASSUME NEW key \in Invite \cup Passage, GateInviteByTenant(v, key) PROVE RegInv'
  <2> DEFINE r == [visit[v] EXCEPT !.pc = IF key \in Invite THEN "redeeming" ELSE "invited",
                                   !.key = key]
  <2>1. visit' = [visit EXCEPT ![v] = r] /\ Unchanged
    BY <1>5, ZenonT(60) DEF GateInviteByTenant
  <2>2. /\ r \in Visit /\ r.key = key
        /\ r.pc = IF key \in Invite THEN "redeeming" ELSE "invited"
    <3> DEFINE q == IF key \in Invite THEN "redeeming" ELSE "invited"
    <3>1. q \in {"redeeming", "invited"}
      OBVIOUS
    <3> HIDE DEF q
    <3>2. ASSUME r = [visit[v] EXCEPT !.pc = q, !.key = key]
          PROVE  r \in Visit /\ r.key = key /\ r.pc = q
      BY <3>1, <3>2 DEF Visit
    <3>3. QED
      BY <3>2 DEF q
  <2>3. /\ key \in Invite => invitee[key] # Nothing /\ (InviteLive(key) => settings.invites)
        /\ key \notin Invite => /\ key \in Passage /\ passage[key] # Nothing
                                /\ PassageLive(key) => settings.invites
    BY <1>5 DEF GateInviteByTenant
  <2> HIDE DEF r
  <2>4. CASE key \in Invite
    <3>1. r.pc = "redeeming" /\ r.key = key
      BY <2>2, <2>4
    <3>2. QED
      BY <2>1, <2>2, <2>3, <2>4, <3>1, VisitorStep
  <2>5. CASE key \notin Invite
    <3>1. /\ r.pc = "invited" /\ r.key \in Passage /\ passage[r.key] # Nothing
          /\ PassageLive(r.key) => settings.invites
      BY <2>2, <2>3, <2>5 DEF PassageLive
    <3>2. QED
      BY <2>1, <2>2, <3>1, VisitorStep
  <2>6. QED
    BY <2>4, <2>5
<1>6. CASE GateUnknown(v)
  <2>1. visit[v].who \in Address /\ visit[v].method \in Methods
    BY <1>6 DEF GateUnknown, RegInv, KeysDrawn
  <2>2. QED
    BY <1>2, <1>6, <2>1 DEF GateUnknown
<1>7. CASE RefuseClosed(v) \/ CreateSignupUser(v) \/ AbandonVisit(v)
  BY <1>1, <1>7 DEF RefuseClosed, CreateSignupUser, AbandonVisit
<1>8. QED
  BY <1>2, <1>3, <1>4, <1>5, <1>6, <1>7 DEF Signup

(* The invitations: drawn, revoked, lapsed, opened as a page.              *)
LEMMA InvitationStep ==
    ASSUME RegInv,
           \/ \E e \in Address, t \in Invite : Issue(e, t)
           \/ \E e \in Address : RevokeTenantInvite(e)
           \/ \E x \in Invite \cup Passage : Lapse(x)
           \/ \E c \in Passage, t \in Invite : StartContinuation(c, t)
    PROVE  RegInv'
<1> USE RegistrationAssumption DEF RegInv, policyVars
<1>1. ASSUME NEW e \in Address, NEW t \in Invite, Issue(e, t) PROVE RegInv'
  <2> USE <1>1 DEF Issue
  <2>1. RegTypeOK'
    BY DEF RegTypeOK
  <2>2. OpenInvites'
    BY DEF OpenInvites, RegTypeOK
  <2>3. SupersededInviteDead'
    BY DEF OpenInvites, SupersededInviteDead, RegTypeOK
  <2>4. KeysDrawn'
    BY DEF KeysDrawn, RegTypeOK
  <2>5. GatesHold'
    BY DEF GatesHold, KeysDrawn, RegTypeOK, SettingsAdmit, allowlistMatches, PassageLive, InviteLive
  <2>6. QED
    BY <2>1, <2>2, <2>3, <2>4, <2>5
<1>2. ASSUME NEW e \in Address, RevokeTenantInvite(e) PROVE RegInv'
  <2> USE <1>2 DEF RevokeTenantInvite
  <2>1. RegTypeOK'
    BY DEF RegTypeOK
  <2>2. OpenInvites'
    BY DEF OpenInvites, RegTypeOK
  <2>3. SupersededInviteDead'
    BY DEF OpenInvites, SupersededInviteDead, RegTypeOK
  <2>4. KeysDrawn'
    BY DEF KeysDrawn, RegTypeOK
  <2>5. GatesHold'
    BY DEF GatesHold, KeysDrawn, RegTypeOK, SettingsAdmit, allowlistMatches, PassageLive, InviteLive
  <2>6. QED
    BY <2>1, <2>2, <2>3, <2>4, <2>5
<1>3. ASSUME NEW x \in Invite \cup Passage, Lapse(x) PROVE RegInv'
  <2> USE <1>3 DEF Lapse
  <2>1. RegTypeOK' /\ OpenInvites' /\ SupersededInviteDead' /\ KeysDrawn'
    BY DEF RegTypeOK, OpenInvites, SupersededInviteDead, KeysDrawn
  <2>2. GatesHold'
    BY DEF GatesHold, SettingsAdmit, allowlistMatches, PassageLive, InviteLive
  <2>3. QED
    BY <2>1, <2>2
<1>4. ASSUME NEW c \in Passage, NEW t \in Invite, StartContinuation(c, t) PROVE RegInv'
  <2> USE <1>4 DEF StartContinuation
  <2>1. RegTypeOK' /\ OpenInvites' /\ SupersededInviteDead'
    BY DEF RegTypeOK, OpenInvites, SupersededInviteDead
  <2>2. KeysDrawn'
    BY DEF KeysDrawn, RegTypeOK, InviteLive
  <2>3. GatesHold'
    BY DEF GatesHold, KeysDrawn, RegTypeOK, SettingsAdmit, allowlistMatches, PassageLive, InviteLive
  <2>4. QED
    BY <2>1, <2>2, <2>3
<1>5. QED
  BY <1>1, <1>2, <1>3, <1>4

(* Redeeming: the continuation is spent first, then the invitation, and an *)
(* invitation that still matches has made no account.                      *)
LEMMA RedeemStep ==
    ASSUME RegInv, NEW v \in Visitor, RedeemContinuation(v) \/ RedeemHash(v)
    PROVE  RegInv'
<1> USE RegistrationAssumption DEF RegInv, policyVars, inviteVars
<1>1. visit[v] \in Visit /\ NoVisit \in Visit
  BY DEF RegTypeOK, Visit, NoVisit
<1>2. CASE RedeemContinuation(v)
  <2> DEFINE c == visit[v].key
             r == IF PassageLive(c) THEN [visit[v] EXCEPT !.pc = "redeeming", !.key = passage[c]]
                                    ELSE NoVisit
  <2>1. visit[v].pc = "invited" /\ c \in Passage /\ passage[c] \in Invite
    BY <1>2 DEF RedeemContinuation, KeysDrawn, RegTypeOK
  <2>2. /\ visit' = [visit EXCEPT ![v] = r]
        /\ UNCHANGED <<policyVars, pending, invitee, lapsed, passage, withdrawnInv, redeemed>>
        /\ walked \subseteq walked'
    BY <1>2 DEF RedeemContinuation, Leave
  <2>3. /\ r \in Visit
        /\ PassageLive(c) => r.pc = "redeeming" /\ r.key = passage[c] /\ r.stale = visit[v].stale
        /\ ~PassageLive(c) => r.pc = "idle"
    BY <1>1, <2>1 DEF Visit, NoVisit
  <2>4. PassageLive(c) /\ ~visit[v].stale => settings.invites
    BY <2>1 DEF GatesHold
  <2> HIDE DEF r
  <2>5. RegTypeOK' /\ OpenInvites' /\ SupersededInviteDead'
    BY <2>2, <2>3 DEF RegTypeOK, OpenInvites, SupersededInviteDead
  <2>6. KeysDrawn'
    BY <2>1, <2>2, <2>3 DEF KeysDrawn, RegTypeOK
  <2>7. GatesHold'
    BY <2>2, <2>3, <2>4 DEF GatesHold, RegTypeOK, SettingsAdmit, allowlistMatches,
       PassageLive, InviteLive
  <2>8. QED
    BY <2>5, <2>6, <2>7
<1>3. CASE RedeemHash(v)
  <2> DEFINE t == visit[v].key
             e == invitee[t]
  <2>1. t \in Invite /\ e \in Address
    BY <1>3 DEF RedeemHash, KeysDrawn, RegTypeOK
  <2>2. /\ visit' = [visit EXCEPT ![v] = NoVisit]
        /\ UNCHANGED <<policyVars, invitee, lapsed, passage, walked, withdrawnInv>>
        /\ \/ UNCHANGED <<pending, redeemed>>
           \/ /\ pending[e] = t /\ pending' = [pending EXCEPT ![e] = Nothing]
              /\ redeemed' = [redeemed EXCEPT ![t] = @ + 1]
    BY <1>3 DEF RedeemHash, Leave, Matches, InviteLive
  <2>3. RegTypeOK'
    BY <1>1, <2>1, <2>2 DEF RegTypeOK
  <2>4. OpenInvites'
    BY <2>1, <2>2 DEF OpenInvites, RegTypeOK
  <2>5. SupersededInviteDead'
    BY <2>1, <2>2 DEF OpenInvites, SupersededInviteDead, RegTypeOK
  <2>6. KeysDrawn'
    BY <2>2 DEF KeysDrawn, RegTypeOK, NoVisit
  <2>7. GatesHold'
    <3>1. \A k \in Invite : InviteLive(k)' => InviteLive(k)
      BY <2>1, <2>2 DEF InviteLive, RegTypeOK
    <3>2. \A k \in Passage : PassageLive(k)' => PassageLive(k)
      BY <2>2 DEF PassageLive
    <3>3. ASSUME NEW w \in Visitor PROVE visit'[w] = IF w = v THEN NoVisit ELSE visit[w]
      BY <2>2 DEF RegTypeOK
    <3> SUFFICES ASSUME NEW w \in Visitor, ~visit'[w].stale, visit'[w].pc # "idle"
                 PROVE  (/\ visit[w].pc = "read" =>
                              visit[w].admitting = SettingsAdmit(settings, visit[w].who)
                         /\ visit[w].pc = "gated" =>
                              SettingsAdmit(settings, visit[w].who) /\ visit[w].method \in openFor
                         /\ visit[w].pc = "invited" /\ PassageLive(visit[w].key) => settings.invites
                         /\ visit[w].pc = "redeeming" /\ InviteLive(visit[w].key) =>
                              settings.invites)'
      BY DEF GatesHold
    <3>4. visit'[w] = visit[w] /\ ~visit[w].stale
      BY <3>3 DEF NoVisit
    <3>5. ASSUME visit[w].pc = "invited", PassageLive(visit[w].key)' PROVE settings.invites
      <4>1. PICK k \in Passage : k = visit[w].key
        BY <3>5 DEF KeysDrawn
      <4>2. PassageLive(k)
        BY <3>2, <3>4, <3>5, <4>1 DEF PassageLive
      <4>3. QED
        BY <3>4, <3>5, <4>1, <4>2 DEF GatesHold
    <3>6. ASSUME visit[w].pc = "redeeming", InviteLive(visit[w].key)' PROVE settings.invites
      <4>1. PICK k \in Invite : k = visit[w].key
        BY <3>6 DEF KeysDrawn
      <4>2. InviteLive(k)
        BY <3>1, <3>4, <3>6, <4>1 DEF InviteLive
      <4>3. QED
        BY <3>4, <3>6, <4>1, <4>2 DEF GatesHold
    <3>7. /\ visit[w].pc = "read" => visit[w].admitting = SettingsAdmit(settings, visit[w].who)
          /\ visit[w].pc = "gated" =>
               SettingsAdmit(settings, visit[w].who) /\ visit[w].method \in openFor
      BY <3>4 DEF GatesHold
    <3>8. settings' = settings /\ openFor' = openFor
      BY <2>2
    <3>9. QED
      BY <3>4, <3>5, <3>6, <3>7, <3>8 DEF SettingsAdmit, allowlistMatches
  <2>8. QED
    BY <2>3, <2>4, <2>5, <2>6, <2>7
<1>4. QED
  BY <1>2, <1>3

(* The settings: whoever is under way is out of date from then on.         *)
LEMMA SaveStep ==
    ASSUME RegInv, MarkStale, UNCHANGED <<inviteVars, redeemed>>
    PROVE  RegInv'
<1> USE DEF RegInv, MarkStale, inviteVars
<1> DEFINE r(v) == IF visit[v].pc = "idle" THEN visit[v] ELSE [visit[v] EXCEPT !.stale = TRUE]
<1>1. ASSUME NEW v \in Visitor
      PROVE  /\ r(v) \in Visit /\ r(v).pc = visit[v].pc /\ r(v).key = visit[v].key
             /\ r(v).who = visit[v].who /\ r(v).method = visit[v].method
             /\ r(v).pc = "idle" \/ r(v).stale
  BY DEF RegTypeOK, Visit
<1>2. visit' = [v \in Visitor |-> r(v)]
  OBVIOUS
<1> HIDE DEF r, MarkStale
<1>3. RegTypeOK' /\ OpenInvites' /\ SupersededInviteDead'
  BY <1>1, <1>2 DEF RegTypeOK, OpenInvites, SupersededInviteDead
<1>4. KeysDrawn'
  BY <1>1, <1>2 DEF KeysDrawn
<1>5. GatesHold'
  BY <1>1, <1>2 DEF GatesHold
<1>6. QED
  BY <1>3, <1>4, <1>5

(* Every step keeps the invariant.                                         *)
LEMMA RegInvStep == RegInv /\ [RegNext]_regvars => RegInv'
<1> SUFFICES ASSUME RegInv, [RegNext]_regvars PROVE RegInv'
  OBVIOUS
<1>1. CASE \E v \in Visitor, e \in Address :
              \/ AuthPasswordSignup(v, e) \/ HostedSignupPassword(v, e)
              \/ HostedSignupMagicLink(v, e) \/ HostedSignupPasskey(v, e)
              \/ FindOrCreateUpstreamUser(v, e) \/ FindOrCreateSocialUser(v, e)
              \/ FindOrCreateOIDCUser(v, e)
  <2>1. \E v \in Visitor, e \in Address, m \in Methods : Signup(v, e, m) \/ FindUser(v, e, m)
    BY <1>1 DEF AuthPasswordSignup, HostedSignupPassword, HostedSignupMagicLink,
       HostedSignupPasskey, FindOrCreateUpstreamUser, FindOrCreateSocialUser,
       FindOrCreateOIDCUser, Methods
  <2>2. QED
    BY <2>1, SignupStep
<1>2. CASE \E v \in Visitor :
              \/ RefuseClosed(v) \/ GateUnknown(v) \/ CheckSignup(v) \/ CreateSignupUser(v)
              \/ RedeemContinuation(v) \/ RedeemHash(v) \/ AbandonVisit(v)
              \/ \E key \in Invite \cup Passage : GateInviteByTenant(v, key)
  BY <1>2, SignupStep, RedeemStep
<1>3. CASE \E e \in Address :
              \/ CreateUser(e) \/ EraseAccount(e) \/ RevokeTenantInvite(e)
              \/ \E t \in Invite :
                    \/ AdminInvite(e, t) \/ AdminPromote(e, t) \/ ReinviteUser(e, t)
                    \/ ResetUserPassword(e, t) \/ InviteUserFactorEnrollment(e, t)
  <2>1. ASSUME NEW e \in Address, CreateUser(e) \/ EraseAccount(e) PROVE RegInv'
    BY <2>1 DEF CreateUser, EraseAccount, policyVars, inviteVars, RegInv, RegTypeOK,
       OpenInvites, SupersededInviteDead, KeysDrawn, GatesHold, SettingsAdmit, allowlistMatches,
       PassageLive, InviteLive
  <2>2. QED
    BY <1>3, <2>1, InvitationStep DEF AdminInvite, AdminPromote, ReinviteUser,
       ResetUserPassword, InviteUserFactorEnrollment
<1>4. CASE \/ \E x \in Invite \cup Passage : Lapse(x)
           \/ \E c \in Passage, t \in Invite : StartContinuation(c, t)
  BY <1>4, InvitationStep
<1>5. CASE (\E s \in Settings : SaveRegistrationSettings(s)) \/ \E m \in Methods : SaveAllowSignup(m)
  BY <1>5, SaveStep DEF SaveRegistrationSettings, SaveAllowSignup
<1>6. CASE UNCHANGED regvars
  BY <1>6 DEF regvars, policyVars, inviteVars, RegInv, RegTypeOK,
     OpenInvites, SupersededInviteDead, KeysDrawn, GatesHold, SettingsAdmit, allowlistMatches,
     PassageLive, InviteLive
<1>7. QED
  BY <1>1, <1>2, <1>3, <1>4, <1>5, <1>6 DEF RegNext

(* A superseded or revoked invitation makes no account, and any other one  *)
(* at most, however many pages and redemptions of it are in flight.        *)
THEOREM InvitesRedeemOnce == RegSpec => []SupersededInviteDead
<1>1. RegSpec => []RegInv
  BY RegInvInit, RegInvStep, PTL DEF RegSpec
<1>2. RegInv => SupersededInviteDead
  BY DEF RegInv
<1>3. QED
  BY <1>1, <1>2, PTL

(* A request creates an account only as the settings of that moment allow, *)
(* unless an administrator changed them while it was served.               *)
THEOREM SignupIsGated == RegSpec => GateHeld
<1> DEFINE GateKept == \A v \in Visitor : accounts' # accounts /\ visit'[v] # visit[v] =>
                          visit[v].stale \/ InForce(v)
<1>1. RegInv /\ [RegNext]_regvars => [GateKept]_regvars
  <2> SUFFICES ASSUME RegInv, RegNext, NEW v \in Visitor, accounts' # accounts,
                      visit'[v] # visit[v]
               PROVE  visit[v].stale \/ InForce(v)
    OBVIOUS
  <2>1. \E w \in Visitor : (CreateSignupUser(w) \/ RedeemHash(w)) /\ Leave(w)
    <3>1. CASE \E w \in Visitor, e \in Address :
                  \/ AuthPasswordSignup(w, e) \/ HostedSignupPassword(w, e)
                  \/ HostedSignupMagicLink(w, e) \/ HostedSignupPasskey(w, e)
                  \/ FindOrCreateUpstreamUser(w, e) \/ FindOrCreateSocialUser(w, e)
                  \/ FindOrCreateOIDCUser(w, e)
      BY <3>1 DEF AuthPasswordSignup, HostedSignupPassword, HostedSignupMagicLink,
         HostedSignupPasskey, FindOrCreateUpstreamUser, FindOrCreateSocialUser,
         FindOrCreateOIDCUser, Signup, LoadSignupSettings, FindUser
    <3>2. CASE \E w \in Visitor :
                  \/ RefuseClosed(w) \/ GateUnknown(w) \/ CheckSignup(w) \/ CreateSignupUser(w)
                  \/ RedeemContinuation(w) \/ RedeemHash(w) \/ AbandonVisit(w)
                  \/ \E key \in Invite \cup Passage : GateInviteByTenant(w, key)
      BY <3>2 DEF RefuseClosed, GateUnknown, LoadSignupSettings, CheckSignup, CreateSignupUser,
         RedeemContinuation, RedeemHash, AbandonVisit, GateInviteByTenant
    <3>3. CASE \E e \in Address :
                  \/ CreateUser(e) \/ EraseAccount(e) \/ RevokeTenantInvite(e)
                  \/ \E t \in Invite :
                        \/ AdminInvite(e, t) \/ AdminPromote(e, t) \/ ReinviteUser(e, t)
                        \/ ResetUserPassword(e, t) \/ InviteUserFactorEnrollment(e, t)
      BY <3>3 DEF CreateUser, EraseAccount, RevokeTenantInvite, AdminInvite, AdminPromote,
         ReinviteUser, ResetUserPassword, InviteUserFactorEnrollment, Issue
    <3>4. CASE \/ \E s \in Settings : SaveRegistrationSettings(s)
               \/ \E m \in Methods : SaveAllowSignup(m)
               \/ \E x \in Invite \cup Passage : Lapse(x)
               \/ \E c \in Passage, t \in Invite : StartContinuation(c, t)
      BY <3>4 DEF SaveRegistrationSettings, SaveAllowSignup, Lapse, StartContinuation
    <3>5. QED
      BY <3>1, <3>2, <3>3, <3>4 DEF RegNext
  <2>2. CreateSignupUser(v) \/ RedeemHash(v)
    BY <2>1 DEF Leave, RegInv, RegTypeOK
  <2>3. CASE CreateSignupUser(v)
    BY <2>3 DEF CreateSignupUser, RegInv, GatesHold, InForce
  <2>4. CASE RedeemHash(v)
    BY <2>4 DEF RedeemHash, Matches, RegInv, GatesHold, InForce
  <2>5. QED
    BY <2>2, <2>3, <2>4
<1>2. RegSpec => []RegInv
  BY RegInvInit, RegInvStep, PTL DEF RegSpec
<1>3. QED
  BY <1>1, <1>2, PTL DEF RegSpec, GateHeld

-----------------------------------------------------------------------------
(***************************************************************************)
(* TenantLogo.  LogoServed is not inductive: a step may retire or delete   *)
(* an object that some request will make the logo, or has made the logo.   *)
(* LogoInv adds what every request in flight may count on: the object it   *)
(* uploads is its own and is neither the logo nor the previous logo of any *)
(* request, and what a request retires or deletes is not the logo any more.*)
(* An object whose reference may still be written late is nobody's         *)
(* (DoubtsApart), so that only the request that undoes it retires it.      *)
(***************************************************************************)

(* The request has an object that is not yet the logo.                     *)
Pending(e) == edit[e].pc \in {"put", "recorded", "fetched"}

(* What an upload in flight has written is still there.                    *)
UploadsKept ==
    \A e \in Editor :
        /\ Pending(e) => edit[e].new \in Object /\ edit[e].new # logo
        /\ ~Pending(e) /\ edit[e].pc # "undo" => edit[e].new = NoObject
        /\ edit[e].pc = "put" => edit[e].new \in blobs \ rows
        /\ edit[e].pc \in {"recorded", "fetched"} => edit[e].new \in (rows \ retired) \cap blobs
        /\ edit[e].pc = "undo" => edit[e].new \in rows \cap (indoubt \cup unsure)

(* No other request has the object of an upload, as new or as previous.    *)
UploadsOwn ==
    \A e, f \in Editor :
        Pending(e) => /\ edit[f].prev # edit[e].new
                      /\ e # f => edit[f].new # edit[e].new

(* The previous object of a request has a row, and once the reference is   *)
(* written it is not the logo.                                             *)
PreviousGone ==
    \A e \in Editor :
        /\ edit[e].prev \in rows \cup {NoObject}
        /\ edit[e].pc \in {"clearing", "retiring", "dropping"} => edit[e].prev # NoObject
        /\ edit[e].pc \in {"retiring", "dropping"} => edit[e].prev # logo

(* An object whose UPDATE is in doubt has been let go of.                  *)
DoubtsApart ==
    \A o \in indoubt :
        /\ o # logo
        /\ \A e \in Editor : edit[e].prev # o /\ (Pending(e) => edit[e].new # o)

LogoInv == LogoTypeOK /\ LogoServed /\ UploadsKept /\ UploadsOwn /\ PreviousGone /\ DoubtsApart

(* Initially nothing is stored and nobody is served.                       *)
LEMMA LogoInvInit == LInit => LogoInv
<1> SUFFICES ASSUME LInit PROVE LogoInv
  OBVIOUS
<1>1. LogoTypeOK
  BY DEF LInit, LogoTypeOK, NoEdit, Edit
<1>2. LogoServed /\ UploadsKept /\ UploadsOwn /\ PreviousGone /\ DoubtsApart
  BY DEF LInit, LogoServed, UploadsKept, UploadsOwn, PreviousGone, DoubtsApart, Pending, NoEdit
<1>3. QED
  BY <1>1, <1>2 DEF LogoInv

(* Every statement of putTenantLogo and deleteTenantLogo, and every        *)
(* failure, keeps LogoInv.                                                 *)
LEMMA LogoInvStep == LogoInv /\ [LNext]_lvars => LogoInv'
<1> SUFFICES ASSUME LogoInv, [LNext]_lvars PROVE LogoInv'
  OBVIOUS
<1> USE LogoAssumption DEF LogoInv, LogoTypeOK, LogoServed, Served, UploadsKept, UploadsOwn,
        PreviousGone, DoubtsApart, Pending, NoEdit, Edit, Editing, Goes, doubts
<1>1. ASSUME NEW e \in Editor, NEW o \in Object, Put(e, o) PROVE LogoInv'
  <2>1. (LogoTypeOK /\ LogoServed)'
    BY <1>1 DEF Put
  <2>2. UploadsKept'
    BY <1>1 DEF Put
  <2>3. UploadsOwn'
    BY <1>1 DEF Put
  <2>4. (PreviousGone /\ DoubtsApart)'
    BY <1>1 DEF Put
  <2>5. QED
    BY <2>1, <2>2, <2>3, <2>4
<1>2. ASSUME NEW e \in Editor, Record(e) PROVE LogoInv'
  BY <1>2 DEF Record
<1>3. ASSUME NEW e \in Editor, DropUpload(e) PROVE LogoInv'
  BY <1>3 DEF DropUpload
<1>4. ASSUME NEW e \in Editor, FetchPrevious(e) PROVE LogoInv'
  BY <1>4 DEF FetchPrevious
<1>5. ASSUME NEW e \in Editor, SetLogo(e) PROVE LogoInv'
  BY <1>5 DEF SetLogo, After
<1>6. ASSUME NEW e \in Editor, SetLogoFails(e) PROVE LogoInv'
  BY <1>6 DEF SetLogoFails
<1>7. ASSUME NEW e \in Editor, UndoRow(e) PROVE LogoInv'
  BY <1>7 DEF UndoRow
<1>8. ASSUME NEW e \in Editor, BeginDelete(e) PROVE LogoInv'
  BY <1>8 DEF BeginDelete
<1>9. ASSUME NEW e \in Editor, ClearLogo(e) PROVE LogoInv'
  BY <1>9 DEF ClearLogo, After
<1>10. ASSUME NEW e \in Editor, RetireRow(e) PROVE LogoInv'
  BY <1>10 DEF RetireRow
<1>11. ASSUME NEW e \in Editor, RetireRowFails(e) PROVE LogoInv'
  BY <1>11 DEF RetireRowFails
<1>12. ASSUME NEW e \in Editor, DropBlob(e) PROVE LogoInv'
  BY <1>12 DEF DropBlob
<1>13. ASSUME NEW e \in Editor, AbortEdit(e) PROVE LogoInv'
  BY <1>13 DEF AbortEdit
<1>14. ASSUME NEW o \in Object, ApplyInDoubt(o) PROVE LogoInv'
  BY <1>14 DEF ApplyInDoubt
<1>15. CASE UNCHANGED lvars
  BY <1>15 DEF lvars
<1>16. QED
  BY <1>1, <1>2, <1>3, <1>4, <1>5, <1>6, <1>7, <1>8, <1>9, <1>10, <1>11, <1>12, <1>13,
     <1>14, <1>15 DEF LNext

(* However uploads, deletions, failures and crashes interleave, and        *)
(* however late an UPDATE is applied whose caller had an error, the        *)
(* reference of the tenant points at a live row whose bytes are stored,    *)
(* unless it was written by such an UPDATE.                                *)
THEOREM LogoAlwaysServed == LSpec => []LogoServed
<1>1. LogoInv => LogoServed
  BY DEF LogoInv
<1>2. QED
  BY LogoInvInit, LogoInvStep, <1>1, PTL DEF LSpec

-----------------------------------------------------------------------------
(* What is stored while one request is served alone: the logo, and the     *)
(* object the request is about to make the logo or to remove.              *)
Logo == {logo} \ {NoObject}

Alone(e) ==
    /\ \A f \in Editor \ {e} : edit[f].pc = "idle"
    /\ edit[e].pc # "undo"
    /\ edit[e].pc \in {"fetched", "clearing"} => edit[e].prev = logo
    /\ blobs = CASE edit[e].pc \in {"put", "recorded", "fetched"} -> Logo \cup {edit[e].new}
                  [] edit[e].pc \in {"retiring", "dropping"} -> Logo \cup {edit[e].prev}
                  [] OTHER -> Logo
    /\ rows \ retired = CASE edit[e].pc \in {"recorded", "fetched"} -> Logo \cup {edit[e].new}
                           [] edit[e].pc = "retiring" -> Logo \cup {edit[e].prev}
                           [] OTHER -> Logo

Tidy ==
    ~disturbed =>
        /\ indoubt = {} /\ unsure = {}
        /\ \/ /\ \A e \in Editor : edit[e].pc = "idle"
              /\ blobs = Logo /\ rows \ retired = Logo
           \/ \E e \in Editor : edit[e].pc # "idle" /\ Alone(e)

(* Initially nothing is stored.                                            *)
LEMMA TidyInit == LInit => Tidy
  BY DEF LInit, Tidy, NoEdit, Logo

(* A request that fails, or that meets another, sets disturbed; of the     *)
(* others each statement keeps what is stored in step.                     *)
LEMMA TidyStep == LogoInv /\ Tidy /\ [LNext]_lvars => Tidy'
<1> SUFFICES ASSUME LogoInv, Tidy, [LNext]_lvars, ~disturbed' PROVE Tidy'
  BY DEF Tidy
<1> USE LogoAssumption DEF LogoInv, LogoTypeOK, LogoServed, Served, UploadsKept, UploadsOwn,
        PreviousGone, Pending, NoEdit, Edit, Editing, Goes, Alone, Logo, doubts
<1>1. ASSUME NEW e \in Editor, NEW o \in Object, Put(e, o) PROVE Tidy'
  BY <1>1, ZenonT(60) DEF Put, Overlaps, Tidy
<1>2. ASSUME NEW e \in Editor, Record(e) PROVE Tidy'
  BY <1>2 DEF Record, Tidy
<1>3. ASSUME NEW e \in Editor, FetchPrevious(e) PROVE Tidy'
  BY <1>3 DEF FetchPrevious, Tidy
<1>4. ASSUME NEW e \in Editor, SetLogo(e) PROVE Tidy'
  BY <1>4 DEF SetLogo, After, Tidy
<1>5. ASSUME NEW e \in Editor, UndoRow(e) PROVE Tidy'
  BY <1>5 DEF UndoRow, Tidy
<1>6. ASSUME NEW e \in Editor, BeginDelete(e) PROVE Tidy'
  BY <1>6, ZenonT(60) DEF BeginDelete, Overlaps, Tidy
<1>7. ASSUME NEW e \in Editor, ClearLogo(e) PROVE Tidy'
  BY <1>7 DEF ClearLogo, After, Tidy
<1>8. ASSUME NEW e \in Editor, RetireRow(e) PROVE Tidy'
  BY <1>8 DEF RetireRow, Tidy
<1>9. ASSUME NEW e \in Editor, DropBlob(e) PROVE Tidy'
  BY <1>9 DEF DropBlob, Tidy
<1>10. ASSUME NEW e \in Editor, DropUpload(e) \/ SetLogoFails(e) \/ RetireRowFails(e) \/ AbortEdit(e)
       PROVE Tidy'
  BY <1>10 DEF DropUpload, SetLogoFails, RetireRowFails, AbortEdit
<1>11. ASSUME NEW o \in Object, ApplyInDoubt(o) PROVE Tidy'
  BY <1>11 DEF ApplyInDoubt, Tidy
<1>12. CASE UNCHANGED lvars
  BY <1>12 DEF lvars, Tidy
<1>13. QED
  BY <1>1, <1>2, <1>3, <1>4, <1>5, <1>6, <1>7, <1>8, <1>9, <1>10, <1>11, <1>12 DEF LNext

(* Requests that neither fail nor overlap leave nothing behind in the      *)
(* store or among the live rows.                                           *)
THEOREM NothingLeftBehind == LSpec => []NoOrphans
<1>1. Tidy => NoOrphans
  BY DEF Tidy, NoOrphans, Logo
<1>2. QED
  BY LogoInvInit, LogoInvStep, TidyInit, TidyStep, <1>1, PTL DEF LSpec

=============================================================================
