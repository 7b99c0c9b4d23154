------------------------- MODULE TokenEndpointProofs -------------------------
(***************************************************************************)
(* Proofs about TokenEndpoint for every set of codes, tokens, clients and  *)
(* concurrent requests.                                                    *)
(***************************************************************************)
EXTENDS TokenEndpoint, RefreshTokensProofs

(* An authorization or exchange in flight names a client, an exchange also *)
(* names a code that was issued.                                           *)
GrantsNamed ==
    \A p \in Proc :
        /\ grant[p].pc # "none" => grant[p].by \in Client
        /\ grant[p].pc \in {"exchange", "claimed", "redeemed"} =>
              grant[p].code \in codesIssued

(* A claimed code is unused and claimed once.                              *)
ClaimsExclusive ==
    \A p \in Proc : grant[p].pc = "claimed" =>
        grant[p].code \notin codesUsed /\ CodeFree(p, grant[p].code)

(* A redeemed code is used, redeemed once, by the client it was issued to, *)
(* and no token was minted for it.                                         *)
RedemptionsFresh ==
    \A p \in Proc : grant[p].pc = "redeemed" =>
        /\ grant[p].code \in codesUsed
        /\ codeClient[grant[p].code] = grant[p].by
        /\ \A q \in Proc \ {p} : ~(grant[q].pc = "redeemed" /\ grant[q].code = grant[p].code)
        /\ \A t \in issued : source[t] # grant[p].code

(* Only tokens that were drawn have a code they come from.                 *)
UndrawnSourceless == \A t \in Token \ issued : source[t] = NoCode

TEInv ==
    /\ TETypeOK
    /\ UndrawnSourceless
    /\ GrantsNamed
    /\ ClaimsExclusive
    /\ RedemptionsFresh
    /\ OneFamilyPerCode
    /\ GrantBoundToClient

-----------------------------------------------------------------------------
(* The first state of the endpoint.                                        *)
LEMMA TEInvInit == TEInit => TEInv
<1> SUFFICES ASSUME TEInit PROVE TEInv
  OBVIOUS
<1>1. TypeOK /\ issued = {}
  BY TypeInit DEF TEInit, Init
<1>2. \A p \in Proc : grant[p] = NoGrant
  BY DEF TEInit
<1>3. NoGrant \in Grant /\ NoGrant.pc = "none"
  BY DEF NoGrant, Grant
<1>4. TETypeOK
  BY <1>1, <1>3 DEF TEInit, TETypeOK
<1>5. GrantsNamed /\ ClaimsExclusive /\ RedemptionsFresh
  BY <1>2, <1>3 DEF GrantsNamed, ClaimsExclusive, RedemptionsFresh
<1>6. OneFamilyPerCode /\ GrantBoundToClient /\ UndrawnSourceless
  BY <1>1 DEF OneFamilyPerCode, GrantBoundToClient, UndrawnSourceless, TEInit
<1> QED
  BY <1>4, <1>5, <1>6 DEF TEInv

(* A grant takes no step the refresh-token table does not take.            *)
LEMMA TableSteps ==
    ASSUME TEInv, [TENext]_allVars
    PROVE  [Next]_vars
<1>1. ASSUME NEW p \in Proc, RefreshStep(p) PROVE Next
  BY <1>1 DEF RefreshStep, Next
<1>2. ASSUME NEW p \in Proc, NEW t \in Token, MintTokens(p, t) PROVE Next
  <2>1. grant[p].by \in Client
    BY <1>2 DEF TEInv, GrantsNamed, MintTokens
  <2> QED
    BY <1>2, <2>1 DEF MintTokens, Next
<1>3. ASSUME Environment PROVE Next
  BY <1>3 DEF Environment, Next
<1> QED
  BY <1>1, <1>2, <1>3
  DEF TENext, GrantStep, AuthorizeBegin, AuthorizeFinish, Exchange, ClaimCode, MissCode,
      RejectExchange, CommitExchange, AbortGrant, Resume, CleanupCodes, allVars

(* No step of the table takes a token back or gives it to another client;  *)
(* only Mint and CommitRotation draw one.                                  *)
LEMMA TableGrows ==
    ASSUME TypeOK, [Next]_vars
    PROVE  issued \subseteq issued' /\ \A t \in issued : client'[t] = client[t]
<1>1. ASSUME NEW p \in Proc, NEW t \in Token, NEW c \in Client, Mint(p, t, c)
      PROVE  issued \subseteq issued' /\ \A u \in issued : client'[u] = client[u]
  BY <1>1 DEF Mint, TypeOK
<1>2. ASSUME NEW p \in Proc, NEW child \in Token, CommitRotation(p, child)
      PROVE  issued \subseteq issued' /\ \A u \in issued : client'[u] = client[u]
  BY <1>2 DEF CommitRotation, TypeOK
<1>3. ASSUME NEW p \in Proc, RandomFails(p) \/ RefuseClient(p) \/ RejectUnknown(p) \/ Abort(p)
      PROVE  UNCHANGED <<issued, client>>
  BY <1>3, DroppedRequests DEF Dropped, rowVars
<1> QED
  BY <1>1, <1>2, <1>3
  DEF Next, Step, Present, MatchRow, Respond, DetectReuse, Revoke, RevokeTenant,
      CommitRevocation, Cleanup, Tick, vars, rowVars

(* The steps that leave codes, grants and sources alone: the tokens they   *)
(* draw come from no code.                                                 *)
LEMMA TableOnly ==
    ASSUME TEInv, TypeOK', blocked' \in BOOLEAN, UNCHANGED <<codeVars, grant, source>>,
           issued \subseteq issued', \A t \in issued : client'[t] = client[t]
    PROVE  TEInv'
<1>1. TETypeOK' /\ GrantsNamed' /\ ClaimsExclusive'
  BY DEF TEInv, TETypeOK, GrantsNamed, ClaimsExclusive, CodeFree, codeVars
<1>2. issued' \subseteq Token /\ \A t \in issued' \ issued : source[t] = NoCode
  BY DEF TEInv, UndrawnSourceless, TypeOK
<1>3. RedemptionsFresh'
  BY <1>2, CodeAssumption DEF TEInv, TETypeOK, GrantsNamed, RedemptionsFresh, codeVars
<1>4. OneFamilyPerCode' /\ GrantBoundToClient' /\ UndrawnSourceless'
  BY <1>2 DEF TEInv, OneFamilyPerCode, GrantBoundToClient, UndrawnSourceless, codeVars
<1> QED
  BY <1>1, <1>3, <1>4 DEF TEInv

(* Steps that only change which grant a process serves, to none, an        *)
(* authorization, or an exchange that has claimed nothing.                 *)
LEMMA GrantOnly ==
    ASSUME TEInv, NEW p \in Proc, NEW g \in Grant, UNCHANGED <<vars, blocked, source>>,
           codesUsed' = codesUsed, codesIssued \subseteq codesIssued',
           codesIssued' \subseteq Code, codes' \subseteq codesIssued',
           codeClient' \in [Code -> Client \cup {NoClient}], codeExpires' \in [Code -> Nat],
           \A k \in codesIssued : codeClient'[k] = codeClient[k],
           grant' = [grant EXCEPT ![p] = g],
           g.pc \in {"none", "authorizing", "exchange"},
           g.pc # "none" => g.by \in Client,
           g.pc = "exchange" => g.code \in codesIssued
    PROVE  TEInv'
<1> USE DEF vars, rowVars
<1>1. TypeOK'
  BY DEF TEInv, TETypeOK, TypeOK, ghostVars
<1>2. \A q \in Proc : grant'[q] = IF q = p THEN g ELSE grant[q]
  BY DEF TEInv, TETypeOK
<1>3. TETypeOK'
  BY <1>1 DEF TEInv, TETypeOK
<1>4. GrantsNamed'
  BY <1>2 DEF TEInv, GrantsNamed
<1>5. ClaimsExclusive'
  BY <1>2 DEF TEInv, ClaimsExclusive, CodeFree
<1>6. RedemptionsFresh'
  BY <1>2 DEF TEInv, TETypeOK, RedemptionsFresh
<1>7. OneFamilyPerCode' /\ GrantBoundToClient' /\ UndrawnSourceless'
  BY DEF TEInv, TETypeOK, OneFamilyPerCode, GrantBoundToClient, UndrawnSourceless
<1> QED
  BY <1>3, <1>4, <1>5, <1>6, <1>7 DEF TEInv

(* The UPDATE that claims a code finds it unused and unclaimed.            *)
LEMMA ClaimStep ==
    ASSUME TEInv, NEW p \in Proc, ClaimCode(p)
    PROVE  TEInv'
<1> USE DEF vars, rowVars, codeVars
<1>1. TypeOK'
  BY DEF TEInv, TETypeOK, TypeOK, ClaimCode, ghostVars
<1>2. grant' \in [Proc -> Grant] /\ \A q \in Proc \ {p} : grant'[q] = grant[q]
  BY DEF TEInv, TETypeOK, ClaimCode, Grant
<1>3. grant'[p].pc = "claimed" /\ grant'[p].code = grant[p].code /\ grant'[p].by = grant[p].by
  BY DEF TEInv, TETypeOK, ClaimCode, Grant
<1>4. TETypeOK'
  BY <1>1, <1>2 DEF TEInv, TETypeOK, ClaimCode
<1>5. GrantsNamed'
  BY <1>2, <1>3 DEF TEInv, GrantsNamed, ClaimCode
<1>6. ClaimsExclusive'
  BY <1>2, <1>3 DEF TEInv, ClaimsExclusive, ClaimCode, CodeFree, CodeUsable
<1>7. RedemptionsFresh'
  BY <1>2, <1>3 DEF TEInv, RedemptionsFresh, ClaimCode
<1>8. OneFamilyPerCode' /\ GrantBoundToClient' /\ UndrawnSourceless'
  BY DEF TEInv, OneFamilyPerCode, GrantBoundToClient, UndrawnSourceless, ClaimCode
<1> QED
  BY <1>4, <1>5, <1>6, <1>7, <1>8 DEF TEInv

(* The commit uses the code up: the claim was exclusive and no token comes *)
(* from an unused code.                                                    *)
LEMMA CommitStep ==
    ASSUME TEInv, NEW p \in Proc, CommitExchange(p)
    PROVE  TEInv'
<1> USE DEF vars, rowVars
<1>1. TypeOK'
  BY DEF TEInv, TETypeOK, TypeOK, CommitExchange, ghostVars
<1>2. grant' \in [Proc -> Grant] /\ \A q \in Proc \ {p} : grant'[q] = grant[q]
  BY DEF TEInv, TETypeOK, CommitExchange, Grant
<1>3. grant'[p].pc = "redeemed" /\ grant'[p].code = grant[p].code /\ grant'[p].by = grant[p].by
  BY DEF TEInv, TETypeOK, CommitExchange, Grant
<1>4. grant[p].code \in codesIssued /\ grant[p].code \notin codesUsed
  BY DEF TEInv, GrantsNamed, ClaimsExclusive, CommitExchange
<1>5. TETypeOK'
  BY <1>1, <1>2, <1>4 DEF TEInv, TETypeOK, CommitExchange
<1>6. GrantsNamed'
  BY <1>2, <1>3 DEF TEInv, GrantsNamed, CommitExchange
<1>7. ClaimsExclusive'
  BY <1>2, <1>3 DEF TEInv, ClaimsExclusive, CommitExchange, CodeFree
<1>8. RedemptionsFresh'
  <2>1. \A t \in issued : source[t] # grant[p].code
    BY <1>4, CodeAssumption DEF TEInv, TETypeOK, GrantBoundToClient
  <2>2. \A q \in Proc : grant[q].pc = "redeemed" => grant[q].code # grant[p].code
    BY <1>4 DEF TEInv, RedemptionsFresh
  <2> QED
    BY <1>2, <1>3, <2>1, <2>2 DEF TEInv, RedemptionsFresh, CommitExchange, Matches
<1>9. OneFamilyPerCode' /\ GrantBoundToClient' /\ UndrawnSourceless'
  BY DEF TEInv, OneFamilyPerCode, GrantBoundToClient, UndrawnSourceless, CommitExchange
<1> QED
  BY <1>5, <1>6, <1>7, <1>8, <1>9 DEF TEInv

(* The one family of a redeemed code is opened for the client of the code. *)
LEMMA MintingStep ==
    ASSUME TEInv, TypeOK', NEW p \in Proc, NEW t \in Token, MintTokens(p, t)
    PROVE  TEInv'
<1> USE DEF codeVars
<1>1. /\ issued' = issued \cup {t} /\ t \notin issued
      /\ \A u \in issued : client'[u] = client[u]
      /\ client'[t] = grant[p].by
  BY DEF TEInv, TETypeOK, TypeOK, MintTokens, Mint
<1>2. /\ \A u \in issued : source'[u] = source[u]
      /\ source'[t] = grant[p].code
      /\ grant[p].code \in codesUsed
  BY <1>1 DEF TEInv, TETypeOK, TypeOK, RedemptionsFresh, MintTokens
<1>3. grant' = [grant EXCEPT ![p] = NoGrant] /\ NoGrant \in Grant /\ NoGrant.pc = "none"
  BY DEF MintTokens, NoGrant, Grant
<1>4. \A q \in Proc : grant'[q] = IF q = p THEN NoGrant ELSE grant[q]
  BY <1>3 DEF TEInv, TETypeOK
<1>5. TETypeOK'
  BY <1>2, <1>3 DEF TEInv, TETypeOK, MintTokens
<1>6. GrantsNamed' /\ ClaimsExclusive'
  BY <1>3, <1>4 DEF TEInv, GrantsNamed, ClaimsExclusive, CodeFree, MintTokens
<1>7. RedemptionsFresh'
  BY <1>1, <1>2, <1>3, <1>4 DEF TEInv, RedemptionsFresh, MintTokens
<1>8. OneFamilyPerCode'
  BY <1>1, <1>2 DEF TEInv, OneFamilyPerCode, RedemptionsFresh, MintTokens
<1>9. GrantBoundToClient' /\ UndrawnSourceless'
  BY <1>1, <1>2 DEF TEInv, TETypeOK, GrantBoundToClient, UndrawnSourceless, RedemptionsFresh,
                    MintTokens
<1> QED
  BY <1>5, <1>6, <1>7, <1>8, <1>9 DEF TEInv

(* Each step of the endpoint keeps the invariant.                          *)
LEMMA TEInvStep == TEInv /\ [TENext]_allVars => TEInv'
<1> SUFFICES ASSUME TEInv, [TENext]_allVars PROVE TEInv'
  OBVIOUS
<1>1. TypeOK /\ TypeOK'
  BY TableSteps, TypeStep DEF TEInv, TETypeOK
<1>2. issued \subseteq issued' /\ \A t \in issued : client'[t] = client[t]
  BY <1>1, TableSteps, TableGrows
<1>3. NoGrant \in Grant /\ NoGrant.pc = "none"
  BY DEF NoGrant, Grant
<1>4. ASSUME NEW p \in Proc, NEW c \in Client, AuthorizeBegin(p, c) PROVE TEInv'
  <2> DEFINE g == [pc |-> "authorizing", code |-> NoCode, by |-> c, at |-> 0, genuine |-> FALSE]
  <2>1. g \in Grant /\ g.pc = "authorizing" /\ g.by = c
    BY DEF Grant
  <2>2. grant' = [grant EXCEPT ![p] = g] /\ UNCHANGED <<vars, blocked, codeVars, source>>
    BY <1>4 DEF AuthorizeBegin
  <2> HIDE DEF g
  <2> QED
    BY <2>1, <2>2, GrantOnly DEF TEInv, TETypeOK, codeVars
<1>5. ASSUME NEW p \in Proc, NEW k \in Code, AuthorizeFinish(p, k) PROVE TEInv'
  <2>1. now + CodeTTL \in Nat /\ grant[p].by \in Client
    BY <1>1, <1>5, CodeAssumption DEF TypeOK, TEInv, GrantsNamed, AuthorizeFinish
  <2>2. /\ codesIssued' \subseteq Code /\ codesIssued \subseteq codesIssued'
        /\ codes' \subseteq codesIssued'
        /\ codeClient' \in [Code -> Client \cup {NoClient}]
        /\ codeExpires' \in [Code -> Nat]
        /\ \A j \in codesIssued : codeClient'[j] = codeClient[j]
    BY <1>5, <2>1 DEF TEInv, TETypeOK, AuthorizeFinish
  <2> QED
    BY <1>3, <1>5, <2>2, GrantOnly DEF AuthorizeFinish
<1>6. ASSUME NEW p \in Proc, NEW k \in Code, NEW c \in Client, NEW genuine \in BOOLEAN,
             Exchange(p, k, c, genuine)
      PROVE  TEInv'
  <2> DEFINE g == [pc |-> "exchange", code |-> k, by |-> c, at |-> now, genuine |-> genuine]
  <2>1. g \in Grant /\ g.pc = "exchange" /\ g.by = c /\ g.code = k
    BY <1>1 DEF Grant, TypeOK
  <2>2. /\ grant' = [grant EXCEPT ![p] = g] /\ UNCHANGED <<vars, blocked, codeVars, source>>
        /\ k \in codesIssued
    BY <1>6 DEF Exchange
  <2> HIDE DEF g
  <2> QED
    BY <2>1, <2>2, GrantOnly DEF TEInv, TETypeOK, codeVars
<1>7. ASSUME NEW p \in Proc, MissCode(p) \/ RejectExchange(p) \/ AbortGrant(p) PROVE TEInv'
  <2>1. grant' = [grant EXCEPT ![p] = NoGrant] /\ UNCHANGED <<vars, blocked, codeVars, source>>
    BY <1>7 DEF MissCode, RejectExchange, AbortGrant
  <2> QED
    BY <1>3, <2>1, GrantOnly DEF TEInv, TETypeOK, codeVars
<1>8. ASSUME NEW p \in Proc, RefreshStep(p) PROVE TEInv'
  <2>1. blocked' \in BOOLEAN /\ UNCHANGED <<codeVars, grant, source>>
    BY <1>8 DEF RefreshStep
  <2> QED
    BY <1>1, <1>2, <2>1, TableOnly
<1>9. CASE Environment
  BY <1>1, <1>2, <1>9, TableOnly DEF Environment, TEInv, TETypeOK
<1>10. CASE Resume
  BY <1>1, <1>2, <1>10, TableOnly DEF Resume
<1>11. CASE CleanupCodes
  <2>1. /\ UNCHANGED <<codesUsed, codesIssued, codeClient, codeExpires, grant, vars, blocked,
                       source>>
        /\ codes' \subseteq codesIssued
    BY <1>11 DEF CleanupCodes, TEInv, TETypeOK
  <2>2. TETypeOK' /\ GrantsNamed' /\ ClaimsExclusive' /\ RedemptionsFresh'
    BY <1>1, <2>1 DEF TEInv, TETypeOK, GrantsNamed, ClaimsExclusive, RedemptionsFresh, CodeFree,
                      vars, rowVars
  <2>3. OneFamilyPerCode' /\ GrantBoundToClient' /\ UndrawnSourceless'
    BY <2>1 DEF TEInv, OneFamilyPerCode, GrantBoundToClient, UndrawnSourceless, vars, rowVars
  <2> QED
    BY <2>2, <2>3 DEF TEInv
<1>12. CASE UNCHANGED allVars
  BY <1>1, <1>2, <1>12, TableOnly DEF allVars, TEInv, TETypeOK
<1> QED
  BY <1>1, <1>4, <1>5, <1>6, <1>7, <1>8, <1>9, <1>10, <1>11, <1>12, ClaimStep, CommitStep,
     MintingStep
  DEF TENext, GrantStep

(* The invariant of the token endpoint.                                    *)
LEMMA TEInvariance == TESpec => []TEInv
BY TEInvInit, TEInvStep, PTL DEF TESpec

(* Types of exchangeAuthorizationCode, its codes and its requests.         *)
THEOREM EndpointTypes == TESpec => []TETypeOK
<1>1. TEInv => TETypeOK
  BY DEF TEInv
<1> QED
  BY <1>1, TEInvariance, PTL

(* However exchanges of a code race, abort and retry, one family at most   *)
(* comes out of it: the row lock of the UPDATE is held until the commit.   *)
THEOREM CodeIsSingleUse == TESpec => []OneFamilyPerCode
<1>1. TEInv => OneFamilyPerCode
  BY DEF TEInv
<1> QED
  BY <1>1, TEInvariance, PTL

(* A code presented by another client opens no family for it and, because  *)
(* the mismatch rolls back, none is opened but for the code's own client.  *)
THEOREM CodeIsBound == TESpec => []GrantBoundToClient
<1>1. TEInv => GrantBoundToClient
  BY DEF TEInv
<1> QED
  BY <1>1, TEInvariance, PTL

(* Every behaviour of the token endpoint is one of the refresh-token       *)
(* table: what is proved of the table holds behind the endpoint.           *)
THEOREM Composition == TESpec => ImplementsRefreshTokens
<1>1. TEInit => Init
  BY DEF TEInit
<1>2. TEInv /\ [TENext]_allVars => [Next]_vars
  BY TableSteps
<1> QED
  BY <1>1, <1>2, TEInvariance, PTL DEF TESpec, ImplementsRefreshTokens, Spec

(* A family opened by the code grant has one usable token at any time.     *)
THEOREM EndpointSingleLive == TESpec => []SingleLive
BY Composition, OneLiveTokenPerFamily, PTL DEF ImplementsRefreshTokens
=============================================================================
