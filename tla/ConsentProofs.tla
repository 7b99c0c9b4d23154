---------------------------- MODULE ConsentProofs ----------------------------
(***************************************************************************)
(* Proofs about Consent, for any number of users, projects, scopes and     *)
(* requests in flight.                                                     *)
(*                                                                         *)
(* Both properties speak of a request between a check and the INSERT of    *)
(* the code.  Whatever is written meanwhile by others marks the request,   *)
(* so the properties are inductive once the types are known: a request     *)
(* that is under way has a user and asks for something.                    *)
(***************************************************************************)
EXTENDS Consent, TLAPS

Visiting ==
    [pc : {"idle", "finishing", "validated", "covered", "inserting", "consenting"},
     user : Enduser \cup {Absent}, project : Project \cup {Absent},
     scopes : SUBSET Permission, changed : BOOLEAN, replaced : BOOLEAN]

ConsentTypeOK ==
    /\ registered \in [Project -> [life : {"none", "live", "over"}, redirect : BOOLEAN,
                                   scopes : SUBSET Permission]]
    /\ consent \in [Enduser -> [Project -> SUBSET Permission]]
    /\ continuations \subseteq Wanted
    /\ visiting \in [Visit -> Visiting]

(* A request that is under way has a user and asks for something.          *)
VisitsNamed ==
    \A v \in Visit : visiting[v].pc # "idle" =>
        visiting[v].user \in Enduser /\ Asked(v) \in Wanted

ConsentInv == ConsentTypeOK /\ VisitsNamed /\ CodeWithinConsent /\ ContinuationRevalidated

(* Initially nobody visits.                                                *)
LEMMA ConsentInvInit == CInit => ConsentInv
<1> SUFFICES ASSUME CInit PROVE ConsentInv
  OBVIOUS
<1> USE DEF CInit, NotVisiting, NoRegistration
<1>1. ConsentTypeOK
  BY DEF ConsentTypeOK, Visiting
<1>2. VisitsNamed /\ CodeWithinConsent /\ ContinuationRevalidated
  BY DEF VisitsNamed, CodeWithinConsent, ContinuationRevalidated
<1>3. QED
  BY <1>1, <1>2 DEF ConsentInv

(* A mark on a request keeps its type.                                     *)
LEMMA MarkedTypes ==
    ASSUME NEW r \in Visiting
    PROVE  [r EXCEPT !.changed = TRUE] \in Visiting /\ [r EXCEPT !.replaced = TRUE] \in Visiting
  BY Zenon DEF Visiting

(* A write of a client marks the requests that have loaded it.             *)
LEMMA WriteClientStep ==
    ASSUME ConsentInv, NEW c \in Project,
           NEW row \in [life : {"none", "live", "over"}, redirect : BOOLEAN,
                        scopes : SUBSET Permission],
           WriteClient(c, row)
    PROVE  ConsentInv'
<1>1. ConsentTypeOK'
  <2>1. visiting' \in [Visit -> Visiting]
    BY MarkedTypes DEF ConsentInv, WriteClient, ConsentTypeOK
  <2>2. QED
    BY <2>1 DEF ConsentInv, WriteClient, ConsentTypeOK
<1> USE DEF ConsentInv, WriteClient, ConsentTypeOK, Visiting
<1>2. VisitsNamed'
  BY DEF VisitsNamed, Asked, Wanted
<1>3. CodeWithinConsent'
  BY DEF CodeWithinConsent, VisitsNamed, Asked, Wanted
<1>4. ContinuationRevalidated'
  BY DEF ContinuationRevalidated, VisitsNamed, Asked, Wanted
<1>5. QED
  BY <1>1, <1>2, <1>3, <1>4

(* A request begins, or goes on to a step at which nothing is promised.    *)
LEMMA VisitStep ==
    ASSUME ConsentInv, NEW v \in Visit, NEW u \in Enduser, NEW w \in Wanted,
           NEW where \in {"finishing", "validated", "consenting"},
           Visits(v, where, u, w), UNCHANGED <<registered, consent, continuations>>
    PROVE  ConsentInv'
<1> USE DEF ConsentInv, Visits, NotVisiting, Wanted, ConsentTypeOK, Visiting
<1>1. ConsentTypeOK'
  OBVIOUS
<1>2. VisitsNamed'
  BY DEF VisitsNamed, Asked, Wanted
<1>3. CodeWithinConsent'
  BY DEF CodeWithinConsent, VisitsNamed, Asked, Wanted
<1>4. ContinuationRevalidated'
  BY DEF ContinuationRevalidated, VisitsNamed, Asked, Wanted
<1>5. QED
  BY <1>1, <1>2, <1>3, <1>4

(* A request ends, and may leave a continuation.                           *)
LEMMA DepartStep ==
    ASSUME ConsentInv, NEW v \in Visit, Departs(v), UNCHANGED <<registered, consent>>,
           continuations' \subseteq Wanted
    PROVE  ConsentInv'
<1> USE DEF ConsentInv, Departs, NotVisiting, ConsentTypeOK, Visiting
<1>1. ConsentTypeOK'
  OBVIOUS
<1>2. VisitsNamed'
  BY DEF VisitsNamed, Asked, Wanted
<1>3. CodeWithinConsent'
  BY DEF CodeWithinConsent, VisitsNamed, Asked, Wanted
<1>4. ContinuationRevalidated'
  BY DEF ContinuationRevalidated, VisitsNamed, Asked, Wanted
<1>5. QED
  BY <1>1, <1>2, <1>3, <1>4

(* RecordConsent marks the requests of the user that found the consent to  *)
(* suffice.                                                                *)
LEMMA RecordConsentStep ==
    ASSUME ConsentInv, NEW v \in Visit, RecordConsent(v)
    PROVE  ConsentInv'
<1>0. visiting' \in [Visit -> Visiting]
  <2>1. ASSUME NEW x \in Visit
        PROVE  \/ visiting'[x] = NotVisiting \/ visiting'[x] = visiting[x]
               \/ visiting'[x] = [visiting[x] EXCEPT !.replaced = TRUE]
    BY DEF RecordConsent, ConsentInv, ConsentTypeOK
  <2>2. NotVisiting \in Visiting
    BY DEF NotVisiting, Visiting
  <2>3. \A x \in Visit : visiting'[x] \in Visiting
    <3>1. \A x \in Visit : visiting[x] \in Visiting
      BY DEF ConsentInv, ConsentTypeOK
    <3>2. \A x \in Visit : [visiting[x] EXCEPT !.replaced = TRUE] \in Visiting
      BY <3>1, MarkedTypes
    <3>3. QED
      BY <2>1, <2>2, <3>1, <3>2
  <2>4. QED
    BY <2>3 DEF RecordConsent
<1> USE DEF ConsentInv, RecordConsent, NotVisiting, ConsentTypeOK, Visiting
<1>1. visiting[v].user \in Enduser /\ visiting[v].project \in Project
  BY DEF VisitsNamed, Asked, Wanted
<1>2. ConsentTypeOK'
  <2>1. consent' = [consent EXCEPT ![visiting[v].user] =
                       [@ EXCEPT ![visiting[v].project] = visiting[v].scopes]]
    OBVIOUS
  <2>2. consent' \in [Enduser -> [Project -> SUBSET Permission]]
    BY <1>1, <2>1
  <2>3. QED
    BY <1>0, <2>2
<1>3. VisitsNamed'
  BY DEF VisitsNamed, Asked, Wanted
<1>4. CodeWithinConsent'
  <2> SUFFICES ASSUME NEW x \in Visit, visiting'[x].pc \in {"covered", "inserting"},
                      ~visiting'[x].replaced
               PROVE  visiting'[x].scopes \subseteq
                          consent'[visiting'[x].user][visiting'[x].project]
    BY DEF CodeWithinConsent
  <2>1. x # v /\ visiting[x].user \in Enduser /\ visiting[x].project \in Project
    BY DEF VisitsNamed, Asked, Wanted
  <2>2. visiting[x].user # visiting[v].user \/ visiting[x].project # visiting[v].project
    BY <2>1
  <2>3. visiting'[x] = visiting[x]
    BY <2>1, <2>2
  <2>4. consent'[visiting[x].user][visiting[x].project]
            = consent[visiting[x].user][visiting[x].project]
    BY <1>1, <2>1, <2>2
  <2>5. QED
    BY <2>3, <2>4 DEF CodeWithinConsent
<1>5. ContinuationRevalidated'
  BY DEF ContinuationRevalidated
<1>6. QED
  BY <1>2, <1>3, <1>4, <1>5

(* What a request is doing once it has come to another step.               *)
Reaches(v, where) ==
    [pc |-> where, user |-> visiting[v].user, project |-> visiting[v].project,
     scopes |-> visiting[v].scopes, changed |-> visiting[v].changed,
     replaced |-> visiting[v].replaced]

(* The consent is found to suffice, and Authorize validates the request.   *)
LEMMA CheckStep ==
    ASSUME ConsentInv, NEW v \in Visit, CheckConsent(v) \/ Revalidate(v)
    PROVE  ConsentInv'
<1>1. CASE CheckConsent(v) /\ ConsentCovers(visiting[v].user, Asked(v))
  <2>0. visiting' = [visiting EXCEPT ![v] = Reaches(v, "covered")]
        /\ UNCHANGED <<registered, consent, continuations>>
    BY <1>1 DEF CheckConsent, ConsentInv, ConsentTypeOK, Visiting, Reaches
  <2> USE <2>0 DEF ConsentInv, ConsentTypeOK, Visiting, Reaches
  <2>1. ConsentTypeOK'
    OBVIOUS
  <2>2. VisitsNamed'
    BY <1>1 DEF VisitsNamed, Asked, Wanted, CheckConsent
  <2>3. CodeWithinConsent'
    BY <1>1 DEF CodeWithinConsent, ConsentCovers, Asked
  <2>4. ContinuationRevalidated'
    BY DEF ContinuationRevalidated
  <2>5. QED
    BY <2>1, <2>2, <2>3, <2>4
<1>2. CASE CheckConsent(v) /\ ~ConsentCovers(visiting[v].user, Asked(v))
  <2>1. Asked(v) \in Wanted /\ continuations \subseteq Wanted
    BY <1>2 DEF ConsentInv, VisitsNamed, CheckConsent, ConsentTypeOK
  <2>2. QED
    BY <1>2, <2>1, DepartStep DEF CheckConsent, IssueContinuation
<1>3. CASE Revalidate(v) /\ ValidateAuthorizeRequest(Asked(v))
  <2>0. visiting' = [visiting EXCEPT ![v] = Reaches(v, "inserting")]
        /\ UNCHANGED <<registered, consent, continuations>>
    <3>1. [visiting[v] EXCEPT !.pc = "inserting"] = Reaches(v, "inserting")
      BY DEF ConsentInv, ConsentTypeOK, Visiting, Reaches
    <3>2. visiting' = [visiting EXCEPT ![v] = [visiting[v] EXCEPT !.pc = "inserting"]]
      BY <1>3, Zenon DEF Revalidate
    <3>3. QED
      BY <1>3, <3>1, <3>2, Zenon DEF Revalidate
  <2> USE <2>0, <1>3 DEF ConsentInv, Revalidate, ConsentTypeOK, Visiting, Reaches
  <2>1. ConsentTypeOK'
    OBVIOUS
  <2>2. VisitsNamed'
    BY DEF VisitsNamed, Asked, Wanted
  <2>3. CodeWithinConsent'
    BY DEF CodeWithinConsent
  <2>4. ContinuationRevalidated'
    BY DEF ContinuationRevalidated, ValidateAuthorizeRequest, Asked
  <2>5. QED
    BY <2>1, <2>2, <2>3, <2>4
<1>4. CASE Revalidate(v) /\ ~ValidateAuthorizeRequest(Asked(v))
  <2>1. Departs(v) /\ UNCHANGED <<registered, consent, continuations>>
    BY <1>4 DEF Revalidate, Departs
  <2>2. QED
    BY <2>1, DepartStep DEF ConsentInv, ConsentTypeOK
<1>5. QED
  BY <1>1, <1>2, <1>3, <1>4

(* Every statement of the handlers keeps ConsentInv.                       *)
LEMMA ConsentInvStep == ConsentInv /\ [CNext]_cvars => ConsentInv'
<1> SUFFICES ASSUME ConsentInv, [CNext]_cvars PROVE ConsentInv'
  OBVIOUS
<1>0. continuations \subseteq Wanted /\ \A v \in Visit : visiting[v].pc # "idle" =>
         visiting[v].user \in Enduser /\ Asked(v) \in Wanted
  BY DEF ConsentInv, ConsentTypeOK, VisitsNamed
<1>1. ASSUME NEW c \in Project, CreateProject(c) \/ DeleteProject(c) PROVE ConsentInv'
  BY <1>1, WriteClientStep DEF CreateProject, DeleteProject, NoRegistration
<1>2. ASSUME NEW c \in Project, NEW row \in ClientRow, UpdateProject(c, row) PROVE ConsentInv'
  BY <1>2, WriteClientStep DEF UpdateProject, ClientRow
<1>3. ASSUME NEW w \in Wanted, SendToLogin(w) \/ ContinuationExpires(w) PROVE ConsentInv'
  BY <1>3 DEF SendToLogin, IssueContinuation, ContinuationExpires, ConsentInv, ConsentTypeOK,
              VisitsNamed, Asked, CodeWithinConsent, ContinuationRevalidated
<1>4. ASSUME NEW w \in Wanted, NEW v \in Visit, NEW u \in Enduser,
             \/ OidcAuthorize(v, u, w) \/ ResumeAuthorize(v, u, w)
             \/ OidcConsent(v, u, w) \/ HostedConsentDecision(v, u, w)
      PROVE  ConsentInv'
  BY <1>4, VisitStep DEF OidcAuthorize, ResumeAuthorize, OidcConsent, HostedConsentDecision,
                         ResolveConsentPayload
<1>5. ASSUME NEW v \in Visit, FinishOIDCAuthorize(v) PROVE ConsentInv'
  BY <1>0, <1>5, VisitStep, DepartStep DEF FinishOIDCAuthorize
<1>6. ASSUME NEW v \in Visit, CheckConsent(v) \/ Revalidate(v) PROVE ConsentInv'
  BY <1>6, CheckStep
<1>7. ASSUME NEW v \in Visit, InsertCode(v) \/ DropVisit(v) PROVE ConsentInv'
  BY <1>0, <1>7, DepartStep DEF InsertCode, DropVisit
<1>8. ASSUME NEW v \in Visit, RecordConsent(v) PROVE ConsentInv'
  BY <1>8, RecordConsentStep
<1>9. CASE UNCHANGED cvars
  BY <1>9 DEF cvars, ConsentInv, ConsentTypeOK, VisitsNamed, Asked, CodeWithinConsent,
              ContinuationRevalidated
<1>10. QED
  BY <1>1, <1>2, <1>3, <1>4, <1>5, <1>6, <1>7, <1>8, <1>9 DEF CNext

(* A code is made out within the consent its own user gave the client,     *)
(* unless the user replaces it between the check and the INSERT.           *)
THEOREM CodesNeedConsent == CSpec => []CodeWithinConsent
<1>1. ConsentInv => CodeWithinConsent
  BY DEF ConsentInv
<1>2. QED
  BY ConsentInvInit, ConsentInvStep, <1>1, PTL DEF CSpec

(* However old the continuation, the client has the redirect URI and the   *)
(* scopes when Authorize loads it for the last time.                       *)
THEOREM CodesNeedClient == CSpec => []ContinuationRevalidated
<1>1. ConsentInv => ContinuationRevalidated
  BY DEF ConsentInv
<1>2. QED
  BY ConsentInvInit, ConsentInvStep, <1>1, PTL DEF CSpec

=============================================================================
