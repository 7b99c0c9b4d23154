---------------------------- MODULE SignInProofs -----------------------------
(***************************************************************************)
(* Proofs about what signs a user in and what limits the attempts, for any *)
(* number of accounts, tokens, factors and requests in flight and for any  *)
(* limit: Passwords, MagicLinks, BackupCodes, Factors and RateLimit, which *)
(* share no variable.                                                      *)
(***************************************************************************)
EXTENDS Passwords, MagicLinks, BackupCodes, Factors, RateLimit, Integers, FiniteSetTheorems, TLAPS

-----------------------------------------------------------------------------
(***************************************************************************)
(* Passwords.  PasswordsInv says what the row locks of ResetPassword are   *)
(* good for: no two resets hold the same token (RowsApart), the token of a *)
(* reset stays unspent until it commits, and what its UPDATE of the other  *)
(* tokens has not found was issued after that began (ResetsSound).         *)
(***************************************************************************)

(* Who each token is for, what it saw, and what the requests carry.        *)
PasswordsTypeOK ==
    /\ resetFor \in [ResetToken -> Account \cup {Unset}]
    /\ before \in [ResetToken -> SUBSET ResetToken]
    /\ setBy \subseteq used /\ used \subseteq ResetToken /\ barred \subseteq ResetToken
    /\ handling \in [Handler -> Handling]

(* The rows of tokens a reset holds.                                       *)
Resetting(r) == r.pc \in {"consumed", "written", "sweeping", "swept"}

Rows(r) == {r.tok} \cup (IF r.pc = "swept" THEN r.found ELSE {})

(* A reset has the unspent token it consumed; its UPDATE has found every   *)
(* other unspent token of the account that was issued before it began, and *)
(* once it is done what it found is unspent.                               *)
ResetSound(r) ==
    /\ r.tok \in ResetToken /\ resetFor[r.tok] = r.acc /\ Unspent(r.tok)
    /\ r.pc \in {"sweeping", "swept"} =>
          /\ \A t \in r.found : t # r.tok /\ t \in ResetToken /\ resetFor[t] = r.acc
          /\ \A t \in Siblings(r.acc) : t = r.tok \/ t \in r.found \/ r.tok \in before[t]
    /\ r.pc = "swept" => \A t \in r.found : Unspent(t)

ResetsSound == \A h \in Handler : Resetting(handling[h]) => ResetSound(handling[h])

(* No two resets hold the same row.                                        *)
RowsApart ==
    \A g, h \in Handler : g # h /\ Resetting(handling[g]) /\ Resetting(handling[h]) =>
        Rows(handling[g]) \cap Rows(handling[h]) = {}

(* What is unspent was issued after every reset of the account had begun   *)
(* to revoke its competitors.                                              *)
WinnersSeen ==
    \A s \in setBy : /\ resetFor[s] # Unset
                     /\ \A t \in Siblings(resetFor[s]) : s \in before[t]

PasswordsInv == PasswordsTypeOK /\ ResetsSound /\ RowsApart /\ WinnersSeen /\ OneResetWins

(* Initially no token is issued.                                           *)
LEMMA PasswordsInvInit == PWInit => PasswordsInv
<1> SUFFICES ASSUME PWInit PROVE PasswordsInv
  OBVIOUS
<1>1. PasswordsTypeOK
  BY DEF PWInit, PasswordsTypeOK, NoHandling, Handling, Stages
<1>2. ResetsSound /\ RowsApart /\ WinnersSeen /\ OneResetWins
  BY DEF PWInit, ResetsSound, RowsApart, WinnersSeen, OneResetWins, Resetting, NoHandling
<1>3. QED
  BY <1>1, <1>2 DEF PasswordsInv

(* A request moves to r and the tokens stay.                               *)
LEMMA HandlerMoves ==
    ASSUME PasswordsInv, NEW h \in Handler, NEW r \in Handling,
           handling' = [handling EXCEPT ![h] = r],
           UNCHANGED <<resetFor, used, barred, setBy, before>>,
           Resetting(r) => /\ ResetSound(r)
                           /\ \A g \in Handler \ {h} : Resetting(handling[g]) =>
                                  Rows(handling[g]) \cap Rows(r) = {}
    PROVE  PasswordsInv'
<1> USE DEF PasswordsInv
<1>1. PasswordsTypeOK'
  BY DEF PasswordsTypeOK
<1>2. ASSUME NEW g \in Handler PROVE handling'[g] = IF g = h THEN r ELSE handling[g]
  BY DEF PasswordsTypeOK
<1>3. ASSUME NEW x, ResetSound(x) PROVE ResetSound(x)'
  BY <1>3 DEF ResetSound, Unspent, Siblings
<1>4. ResetsSound'
  <2> SUFFICES ASSUME NEW g \in Handler, Resetting(handling'[g]) PROVE ResetSound(handling[g])'
    BY DEF ResetsSound, Resetting
  <2>1. PICK x : x = handling'[g] /\ Resetting(x) /\ ResetSound(x)
    BY <1>2 DEF ResetsSound
  <2>2. QED
    BY <2>1, <1>3 DEF ResetSound, Unspent, Siblings
<1>5. RowsApart'
  BY <1>2, SMTT(30) DEF RowsApart, Rows, Resetting
<1>6. WinnersSeen' /\ OneResetWins'
  BY DEF WinnersSeen, OneResetWins, Siblings, Unspent
<1>7. QED
  BY <1>1, <1>4, <1>5, <1>6

(* A request ends and spends tokens that no other reset holds.             *)
LEMMA TokensSpent ==
    ASSUME PasswordsInv, NEW h \in Handler, NEW U \in SUBSET ResetToken, NEW B \in SUBSET ResetToken,
           handling' = [handling EXCEPT ![h] = NoHandling],
           used' = used \cup U, barred' = barred \cup B, UNCHANGED <<resetFor, before>>,
           \A g \in Handler \ {h} : Resetting(handling[g]) => Rows(handling[g]) \cap (U \cup B) = {}
    PROVE  /\ ResetsSound' /\ RowsApart'
           /\ \A a \in Account : Siblings(a)' \subseteq Siblings(a) \ (U \cup B)
<1> USE DEF PasswordsInv
<1>1. ASSUME NEW g \in Handler PROVE handling'[g] = IF g = h THEN NoHandling ELSE handling[g]
  BY DEF PasswordsTypeOK
<1>2. ~Resetting(NoHandling)
  BY DEF Resetting, NoHandling
<1>3. ASSUME NEW x, ResetSound(x), Rows(x) \cap (U \cup B) = {} PROVE ResetSound(x)'
  BY <1>3 DEF ResetSound, Unspent, Siblings, Rows
<1>4. ResetsSound'
  <2> SUFFICES ASSUME NEW g \in Handler, Resetting(handling'[g]) PROVE ResetSound(handling[g])'
    BY DEF ResetsSound, Resetting
  <2>1. PICK x : x = handling'[g] /\ ResetSound(x) /\ Rows(x) \cap (U \cup B) = {}
    BY <1>1, <1>2 DEF ResetsSound
  <2>2. ResetSound(x)'
    BY <1>3, <2>1
  <2>3. QED
    BY <2>1, <2>2 DEF ResetSound, Unspent, Siblings, Rows
<1>5. RowsApart'
  BY <1>1, <1>2 DEF RowsApart, Rows, Resetting
<1>6. \A a \in Account : Siblings(a)' \subseteq Siblings(a) \ (U \cup B)
  BY DEF Siblings, Unspent
<1>7. QED
  BY <1>4, <1>5, <1>6

(* IssueResetToken: the new token was issued after every reset that has    *)
(* swept or committed.                                                     *)
LEMMA IssueTokenStep ==
    ASSUME PasswordsInv, NEW h \in Handler, NEW a \in Account, NEW t \in ResetToken,
           IssueResetToken(h, a, t)
    PROVE  PasswordsInv'
<1> USE DEF PasswordsInv
<1> DEFINE seen == setBy \cup {handling[g].tok : g \in {g \in Handler : handling[g].pc \in {"sweeping", "swept"}}}
           r == [NoHandling EXCEPT !.pc = "mailing", !.tok = t]
<1>1. /\ resetFor[t] = Unset /\ resetFor' = [resetFor EXCEPT ![t] = a]
      /\ before' = [before EXCEPT ![t] = seen]
      /\ handling' = [handling EXCEPT ![h] = r]
      /\ UNCHANGED <<used, barred, setBy>>
  BY DEF IssueResetToken
<1>2. seen \in SUBSET ResetToken
  BY DEF ResetsSound, Resetting, ResetSound, PasswordsTypeOK
<1>3. r \in Handling /\ ~Resetting(r)
  BY DEF NoHandling, Handling, Stages, Resetting
<1> HIDE DEF r, seen
<1>4. PasswordsTypeOK'
  BY <1>1, <1>2, <1>3 DEF PasswordsTypeOK
<1>5. ASSUME NEW g \in Handler PROVE handling'[g] = IF g = h THEN r ELSE handling[g]
  BY <1>1 DEF PasswordsTypeOK
<1>6. \A b \in Account : Siblings(b)' \subseteq Siblings(b) \cup {t}
  BY <1>1 DEF Siblings, Unspent, PasswordsTypeOK
<1>7. \A s \in ResetToken : s # t => resetFor'[s] = resetFor[s] /\ before'[s] = before[s]
  BY <1>1 DEF PasswordsTypeOK
<1>8. before'[t] = seen
  BY <1>1 DEF PasswordsTypeOK
<1>9. ResetsSound'
  <2> SUFFICES ASSUME NEW g \in Handler, Resetting(handling'[g]) PROVE ResetSound(handling[g])'
    BY DEF ResetsSound, Resetting
  <2>1. PICK x : x = handling'[g] /\ x = handling[g] /\ ResetSound(x)
    BY <1>3, <1>5 DEF ResetsSound
  <2>2. x.tok \in ResetToken /\ x.tok # t /\ resetFor'[x.tok] = x.acc /\ x.acc \in Account
    BY <1>1, <1>7, <2>1 DEF ResetSound, Unspent, PasswordsTypeOK
  <2>3. Unspent(x.tok)'
    BY <1>1, <1>7, <2>1, <2>2 DEF ResetSound, Unspent
  <2>4. ASSUME x.pc \in {"sweeping", "swept"}, NEW s \in x.found
        PROVE  /\ s # x.tok /\ s \in ResetToken /\ resetFor'[s] = x.acc
               /\ x.pc = "swept" => Unspent(s)'
    <3>1. s # x.tok /\ s \in ResetToken /\ resetFor[s] = x.acc /\ (x.pc = "swept" => Unspent(s))
      BY <2>1, <2>4 DEF ResetSound
    <3>2. s # t
      BY <1>1, <2>2, <3>1, PasswordsAssumption
    <3>3. QED
      BY <1>1, <1>7, <3>1, <3>2 DEF Unspent
  <2>5. ASSUME x.pc \in {"sweeping", "swept"}, NEW s \in ResetToken, resetFor'[s] = x.acc, Unspent(s)'
        PROVE  s = x.tok \/ s \in x.found \/ x.tok \in before'[s]
    <3>1. CASE s = t
      <4>1. x.tok \in seen
        BY <2>1, <2>5 DEF seen
      <4>2. QED
        BY <1>8, <3>1, <4>1
    <3>2. CASE s # t
      <4>1. s \in Siblings(x.acc)
        BY <1>1, <1>7, <2>5, <3>2 DEF Siblings, Unspent
      <4>2. QED
        BY <1>7, <2>1, <2>5, <3>2, <4>1 DEF ResetSound
    <3>3. QED
      BY <3>1, <3>2
  <2>6. ResetSound(x)'
    BY <2>2, <2>3, <2>4, <2>5 DEF ResetSound, Siblings
  <2>7. QED
    BY <2>1, <2>6 DEF ResetSound, Siblings, Unspent
<1>10. RowsApart'
  BY <1>3, <1>5 DEF RowsApart, Rows, Resetting
<1>11. WinnersSeen'
  <2> SUFFICES ASSUME NEW s \in setBy
               PROVE  /\ resetFor'[s] # Unset
                      /\ \A x \in ResetToken : resetFor'[x] = resetFor'[s] /\ Unspent(x)' =>
                             s \in before'[x]
    BY <1>1 DEF WinnersSeen, Siblings
  <2>1. s \in ResetToken /\ s # t /\ resetFor'[s] = resetFor[s] /\ resetFor[s] # Unset
    BY <1>1, <1>7 DEF WinnersSeen, PasswordsTypeOK
  <2>2. ASSUME NEW x \in ResetToken, resetFor'[x] = resetFor'[s], Unspent(x)', x # t
        PROVE  s \in before'[x]
    <3>1. x \in Siblings(resetFor[s])
      BY <1>1, <1>7, <2>1, <2>2 DEF Siblings, Unspent
    <3>2. QED
      BY <1>7, <2>2, <3>1 DEF WinnersSeen
  <2>3. s \in before'[t]
    BY <1>8 DEF seen
  <2>4. QED
    BY <2>1, <2>2, <2>3
<1>12. OneResetWins'
  <2>1. \A s \in setBy : s \in ResetToken /\ s # t
    BY <1>1 DEF WinnersSeen, PasswordsTypeOK
  <2>2. QED
    BY <1>1, <1>7, <2>1 DEF OneResetWins
<1>13. QED
  BY <1>4, <1>9, <1>10, <1>11, <1>12

(* CommitReset: the token of the reset was issued after every earlier      *)
(* reset of the account, and what the reset leaves unspent after it.       *)
LEMMA CommitResetStep ==
    ASSUME PasswordsInv, NEW h \in Handler, CommitReset(h)
    PROVE  PasswordsInv'
<1> USE DEF PasswordsInv
<1>1. PICK x \in Handling : x = handling[h] /\ x.pc = "swept" /\ Resetting(x) /\ ResetSound(x)
  BY DEF CommitReset, PasswordsTypeOK, ResetsSound, Resetting
<1>2. /\ used' = used \cup {x.tok} /\ barred' = barred \cup x.found
      /\ setBy' = setBy \cup {x.tok} /\ handling' = [handling EXCEPT ![h] = NoHandling]
      /\ UNCHANGED <<resetFor, before>>
  BY <1>1 DEF CommitReset, Ends
<1>3. x.tok \in ResetToken /\ x.found \in SUBSET ResetToken /\ {x.tok} \in SUBSET ResetToken
  BY <1>1 DEF ResetSound, Handling
<1>4. x.acc \in Account /\ resetFor[x.tok] = x.acc /\ x.tok \in Siblings(x.acc)
  BY <1>1, <1>3, PasswordsAssumption DEF ResetSound, Unspent, Siblings, PasswordsTypeOK
<1>5. PasswordsTypeOK'
  <2>1. NoHandling \in Handling
    BY DEF NoHandling, Handling, Stages
  <2>2. QED
    BY <1>2, <1>3, <2>1 DEF PasswordsTypeOK
<1>6. /\ ResetsSound' /\ RowsApart'
      /\ \A a \in Account : Siblings(a)' \subseteq Siblings(a) \ ({x.tok} \cup x.found)
  <2>1. ASSUME NEW g \in Handler \ {h}, Resetting(handling[g])
        PROVE  Rows(handling[g]) \cap ({x.tok} \cup x.found) = {}
    BY <1>1, <2>1 DEF RowsApart, Rows
  <2>2. PICK U \in SUBSET ResetToken, B \in SUBSET ResetToken : U = {x.tok} /\ B = x.found
    BY <1>3, Zenon
  <2>3. /\ used' = used \cup U /\ barred' = barred \cup B /\ UNCHANGED <<resetFor, before>>
        /\ handling' = [handling EXCEPT ![h] = NoHandling]
        /\ \A g \in Handler \ {h} : Resetting(handling[g]) => Rows(handling[g]) \cap (U \cup B) = {}
    BY <1>2, <2>1, <2>2
  <2>4. /\ ResetsSound' /\ RowsApart'
        /\ \A a \in Account : Siblings(a)' \subseteq Siblings(a) \ (U \cup B)
    BY <2>3, TokensSpent
  <2>5. QED
    BY <2>2, <2>4
<1>7. \A s \in setBy : resetFor[s] = x.acc => s \in before[x.tok]
  BY <1>4 DEF WinnersSeen
<1>8. WinnersSeen'
  <2> SUFFICES ASSUME NEW s \in setBy'
               PROVE  /\ resetFor[s] # Unset
                      /\ \A t \in Siblings(resetFor[s])' : s \in before[t]
    BY <1>2 DEF WinnersSeen, Siblings, Unspent
  <2>1. resetFor[s] # Unset /\ resetFor[s] \in Account
    BY <1>2, <1>4, PasswordsAssumption DEF WinnersSeen, PasswordsTypeOK
  <2>2. PICK a \in Account : a = resetFor[s]
    BY <2>1
  <2>3. \A t \in Siblings(a)' : t \in Siblings(a) \ ({x.tok} \cup x.found)
    BY <1>6
  <2>4. \A t \in Siblings(a)' : s \in before[t]
    <3>1. CASE s \in setBy
      BY <2>2, <2>3, <3>1 DEF WinnersSeen
    <3>2. CASE s = x.tok
      BY <1>1, <1>4, <2>2, <2>3, <3>2 DEF ResetSound, Rows
    <3>3. QED
      BY <1>2, <3>1, <3>2
  <2>5. QED
    BY <1>2, <2>1, <2>2, <2>4 DEF Siblings, Unspent
<1>9. OneResetWins'
  BY <1>2, <1>4, <1>7 DEF OneResetWins
<1>10. QED
  BY <1>5, <1>6, <1>8, <1>9

(* RevokeLiveResetTokens: it waits for the rows resets hold.               *)
LEMMA RevokeLiveStep ==
    ASSUME PasswordsInv, NEW h \in Handler, RevokeLiveResetTokens(h)
    PROVE  PasswordsInv'
<1> USE DEF PasswordsInv
<1> DEFINE B == {t \in handling[h].found : Unspent(t)}
<1>1. /\ barred' = barred \cup B /\ handling' = [handling EXCEPT ![h] = NoHandling]
      /\ UNCHANGED <<resetFor, used, setBy, before>> /\ \A t \in B : ~TokenHeld(t, h)
  BY DEF RevokeLiveResetTokens, SweepReady, Ends
<1>2. B \in SUBSET ResetToken /\ {} \in SUBSET ResetToken /\ used' = used \cup {}
  BY <1>1 DEF PasswordsTypeOK, Handling
<1>3. PasswordsTypeOK'
  <2>1. NoHandling \in Handling
    BY DEF NoHandling, Handling, Stages
  <2>2. QED
    BY <1>1, <1>2, <2>1 DEF PasswordsTypeOK
<1>4. ASSUME NEW g \in Handler \ {h}, Resetting(handling[g])
      PROVE  Rows(handling[g]) \cap ({} \cup B) = {}
  BY <1>1, <1>4 DEF TokenHeld, InReset, Resetting, Rows
<1> HIDE DEF B
<1>5. ResetsSound' /\ RowsApart' /\ \A a \in Account : Siblings(a)' \subseteq Siblings(a) \ ({} \cup B)
  BY <1>1, <1>2, <1>4, TokensSpent
<1>6. WinnersSeen'
  <2> SUFFICES ASSUME NEW s \in setBy
               PROVE  /\ resetFor[s] # Unset
                      /\ \A t \in Siblings(resetFor[s])' : s \in before[t]
    BY <1>1 DEF WinnersSeen, Siblings, Unspent
  <2>1. PICK a \in Account : a = resetFor[s] /\ a # Unset
    BY DEF WinnersSeen, PasswordsTypeOK
  <2>2. \A t \in Siblings(a)' : s \in before[t]
    BY <1>5, <2>1 DEF WinnersSeen
  <2>3. QED
    BY <1>1, <2>1, <2>2 DEF Siblings, Unspent
<1>7. OneResetWins'
  BY <1>1 DEF OneResetWins
<1>8. QED
  BY <1>3, <1>5, <1>6, <1>7

(* Every step keeps the invariant.                                         *)
LEMMA PasswordsInvStep == PasswordsInv /\ [PWNext]_pwvars => PasswordsInv'
<1> SUFFICES ASSUME PasswordsInv, [PWNext]_pwvars PROVE PasswordsInv'
  OBVIOUS
<1>1. NoHandling \in Handling /\ ~Resetting(NoHandling)
  BY DEF NoHandling, Handling, Stages, Resetting
<1>2. ASSUME NEW h \in Handler, Ends(h), UNCHANGED <<resetFor, used, barred, setBy, before>>
      PROVE  PasswordsInv'
  BY <1>1, <1>2, HandlerMoves DEF Ends
<1>3. ASSUME NEW h \in Handler, \/ QueueMail(h) \/ RefusePassword(h) \/ SignIn(h) \/ AbandonHandler(h)
                                \/ \E g \in Handler : BreakDeadlock(g, h)
      PROVE  PasswordsInv'
  BY <1>2, <1>3 DEF QueueMail, RefusePassword, SignIn, AbandonHandler, BreakDeadlock, resetVars
<1>4. ASSUME NEW h \in Handler, NEW t \in ResetToken, NEW pw \in Secret, ConsumeResetToken(h, t, pw)
      PROVE  PasswordsInv'
  <2> DEFINE r == [pc |-> "consumed", acc |-> resetFor[t], tok |-> t, pw |-> pw, found |-> {}]
  <2>1. /\ handling' = [handling EXCEPT ![h] = r] /\ Unspent(t) /\ ~TokenHeld(t, h)
        /\ UNCHANGED <<resetFor, used, barred, setBy, before>>
    BY <1>4 DEF ConsumeResetToken, resetVars
  <2>2. r \in Handling
    BY DEF Handling, Stages, PasswordsInv, PasswordsTypeOK
  <2>3. ResetSound(r)
    BY <2>1 DEF ResetSound
  <2>4. ASSUME NEW g \in Handler \ {h}, Resetting(handling[g])
        PROVE  Rows(handling[g]) \cap Rows(r) = {}
    BY <2>1, <2>4 DEF Rows, TokenHeld, InReset, Resetting
  <2> HIDE DEF r
  <2>5. QED
    BY <2>1, <2>2, <2>3, <2>4, HandlerMoves
<1>5. ASSUME NEW h \in Handler, UpsertPassword(h) PROVE PasswordsInv'
  <2> DEFINE x == handling[h]
             r == [x EXCEPT !.pc = "written"]
  <2>1. /\ handling' = [handling EXCEPT ![h] = r] /\ x.pc = "consumed"
        /\ UNCHANGED <<resetFor, used, barred, setBy, before>>
    BY <1>5 DEF UpsertPassword, Moves, resetVars
  <2>2. x \in Handling
    BY DEF PasswordsInv, PasswordsTypeOK
  <2>3. r \in Handling /\ r.pc = "written" /\ r.acc = x.acc /\ r.tok = x.tok
    BY <2>2 DEF Handling, Stages
  <2>4. Resetting(x) /\ ResetSound(x)
    BY <2>1 DEF Resetting, PasswordsInv, ResetsSound
  <2> HIDE DEF x, r
  <2>5. ResetSound(r)
    BY <2>3, <2>4 DEF ResetSound
  <2>6. ASSUME NEW g \in Handler \ {h}, Resetting(handling[g])
        PROVE  Rows(handling[g]) \cap Rows(r) = {}
    <3>1. x.tok \notin Rows(handling[g])
      BY <2>4, <2>6 DEF Rows, PasswordsInv, RowsApart, x
    <3>2. QED
      BY <2>3, <3>1 DEF Rows
  <2>7. QED
    BY <2>1, <2>3, <2>5, <2>6, HandlerMoves
<1>6. ASSUME NEW h \in Handler, BeginSweep(h) PROVE PasswordsInv'
  <2> DEFINE x == handling[h]
             S == Siblings(x.acc) \ {x.tok}
             r == [x EXCEPT !.pc = "sweeping", !.found = S]
  <2>1. /\ handling' = [handling EXCEPT ![h] = r] /\ x.pc = "written"
        /\ UNCHANGED <<resetFor, used, barred, setBy, before>>
    BY <1>6 DEF BeginSweep, resetVars
  <2>2. x \in Handling /\ S \in SUBSET ResetToken
    BY DEF PasswordsInv, PasswordsTypeOK, Siblings
  <2>3. \A t \in S : t # x.tok /\ t \in ResetToken /\ resetFor[t] = x.acc
    BY DEF Siblings
  <2>4. \A t \in Siblings(x.acc) : t = x.tok \/ t \in S
    OBVIOUS
  <2> HIDE DEF S
  <2>5. r \in Handling /\ r.pc = "sweeping" /\ r.acc = x.acc /\ r.tok = x.tok /\ r.found = S
    BY <2>2 DEF Handling, Stages
  <2>6. Resetting(x) /\ ResetSound(x)
    BY <2>1 DEF Resetting, PasswordsInv, ResetsSound
  <2> HIDE DEF x, r
  <2>7. ResetSound(r)
    BY <2>3, <2>4, <2>5, <2>6 DEF ResetSound
  <2>8. ASSUME NEW g \in Handler \ {h}, Resetting(handling[g])
        PROVE  Rows(handling[g]) \cap Rows(r) = {}
    <3>1. x.tok \notin Rows(handling[g])
      BY <2>6, <2>8 DEF Rows, PasswordsInv, RowsApart, x
    <3>2. QED
      BY <2>5, <3>1 DEF Rows
  <2>9. QED
    BY <2>1, <2>5, <2>7, <2>8, HandlerMoves
<1>7. ASSUME NEW h \in Handler, SweepTokens(h) PROVE PasswordsInv'
  <2> DEFINE x == handling[h]
             S == {t \in x.found : Unspent(t)}
             r == [x EXCEPT !.pc = "swept", !.found = S]
  <2>1. /\ handling' = [handling EXCEPT ![h] = r] /\ x.pc = "sweeping" /\ SweepReady(h)
        /\ UNCHANGED <<resetFor, used, barred, setBy, before>>
    BY <1>7 DEF SweepTokens, resetVars
  <2>2. x \in Handling /\ S \in SUBSET ResetToken
    BY DEF PasswordsInv, PasswordsTypeOK, Handling
  <2>3. \A t \in S : ~TokenHeld(t, h) /\ t \in x.found /\ Unspent(t)
    BY <2>1 DEF SweepReady
  <2>4. \A t \in Siblings(x.acc) : t \in x.found => t \in S
    BY DEF Siblings
  <2> HIDE DEF S
  <2>5. r \in Handling /\ r.pc = "swept" /\ r.acc = x.acc /\ r.tok = x.tok /\ r.found = S
    BY <2>2 DEF Handling, Stages
  <2>6. Resetting(x) /\ ResetSound(x)
    BY <2>1 DEF Resetting, PasswordsInv, ResetsSound
  <2>7. Rows(r) = {x.tok} \cup S
    BY <2>5 DEF Rows
  <2> HIDE DEF x, r
  <2>8. ResetSound(r)
    BY <2>1, <2>3, <2>4, <2>5, <2>6 DEF ResetSound
  <2>9. ASSUME NEW g \in Handler \ {h}, Resetting(handling[g])
        PROVE  Rows(handling[g]) \cap Rows(r) = {}
    <3>1. x.tok \notin Rows(handling[g])
      BY <2>6, <2>9 DEF Rows, PasswordsInv, RowsApart, x
    <3>2. S \cap Rows(handling[g]) = {}
      BY <2>3, <2>9 DEF TokenHeld, InReset, Resetting, Rows
    <3>3. QED
      BY <2>7, <3>1, <3>2
  <2>10. QED
    BY <2>1, <2>5, <2>8, <2>9, HandlerMoves
<1>8. ASSUME NEW h \in Handler, BeginRevoke(h) PROVE PasswordsInv'
  <2> DEFINE S == Siblings(handling[h].acc)
             r == [handling[h] EXCEPT !.pc = "revoking", !.found = S]
  <2>1. handling' = [handling EXCEPT ![h] = r] /\ UNCHANGED <<resetFor, used, barred, setBy, before>>
    BY <1>8 DEF BeginRevoke, resetVars
  <2>2. handling[h] \in Handling /\ S \in SUBSET ResetToken
    BY DEF PasswordsInv, PasswordsTypeOK, Siblings
  <2> HIDE DEF S
  <2>3. r \in Handling /\ ~Resetting(r)
    BY <2>2 DEF Handling, Stages, Resetting
  <2> HIDE DEF r
  <2>4. QED
    BY <2>1, <2>3, HandlerMoves
<1>9. ASSUME NEW h \in Handler, NEW a \in Account, NEW pw \in Secret,
             SetPassword(h, a, pw) \/ Verify(h, a, pw)
      PROVE  PasswordsInv'
  <2>1. UNCHANGED <<resetFor, used, barred, setBy, before>>
    BY <1>9 DEF SetPassword, Verify, resetVars
  <2>2. PICK r \in Handling : ~Resetting(r) /\ handling' = [handling EXCEPT ![h] = r]
    <3> DEFINE s == [NoHandling EXCEPT !.pc = "set", !.acc = a]
               v == [NoHandling EXCEPT !.pc = "verified", !.acc = a, !.pw = pw]
    <3>1. s \in Handling /\ ~Resetting(s) /\ v \in Handling /\ ~Resetting(v)
      BY DEF NoHandling, Handling, Stages, Resetting
    <3>2. handling' = [handling EXCEPT ![h] = s] \/ handling' = [handling EXCEPT ![h] = v]
      BY <1>9 DEF SetPassword, Verify
    <3>3. QED
      BY <3>1, <3>2, Zenon
  <2>3. QED
    BY <2>1, <2>2, HandlerMoves
<1>10. CASE (\E t \in ResetToken : LapseResetToken(t)) \/ UNCHANGED pwvars
  <2>1. UNCHANGED <<resetFor, used, barred, setBy, before, handling>>
    BY <1>10 DEF LapseResetToken, pwvars, resetVars
  <2>2. QED
    BY <2>1 DEF PasswordsInv, PasswordsTypeOK, ResetsSound, RowsApart, WinnersSeen, OneResetWins,
       Resetting, ResetSound, Rows, Siblings, Unspent
<1>11. QED
  BY <1>3, <1>4, <1>5, <1>6, <1>7, <1>8, <1>9, <1>10, IssueTokenStep, CommitResetStep, RevokeLiveStep
     DEF PWNext, AuthPasswordReset, HostedPasswordReset, AuthPasswordSignin, HostedPasswordSignIn

(* OneResetWins: of two tokens of an account that set a password one was   *)
(* issued after the reset by the other had begun to revoke its             *)
(* competitors, whatever the number of tokens and of resets in flight and  *)
(* whatever rows that UPDATE waits for.                                    *)
THEOREM ResetsExclude == PWSpec => []OneResetWins
<1>1. PasswordsInv => OneResetWins
  BY DEF PasswordsInv
<1>2. QED
  BY <1>1, PasswordsInvInit, PasswordsInvStep, PTL DEF PWSpec

-----------------------------------------------------------------------------
(***************************************************************************)
(* MagicLinks.  LinksBounded is inductive once the links that were issued  *)
(* are known to be finitely many.                                          *)
(***************************************************************************)

(* Finitely many links are issued, and requests have their type.           *)
LinksTypeOK ==
    /\ linkFor \in [Link -> Holder \cup {NoHolder}]
    /\ IsFiniteSet({l \in Link : linkFor[l] # NoHolder})
    /\ sending \in [Sender -> Sending]

LinksInv == LinksTypeOK /\ LinksBounded

(* What a finite limit of links and of requests counts.                    *)
LEMMA LinkCounts ==
    ASSUME LinksTypeOK, NEW a \in Holder
    PROVE  /\ IsFiniteSet(Active(a)) /\ Cardinality(Active(a)) \in Nat
           /\ IsFiniteSet(OnTheirWay(a)) /\ Cardinality(OnTheirWay(a)) \in Nat
           /\ Cardinality(OnTheirWay(a)) <= Cardinality(Sender) /\ Cardinality(Sender) \in Nat
<1>1. Active(a) \in SUBSET {l \in Link : linkFor[l] # NoHolder}
  BY DEF Active, LinkLive
<1>2. OnTheirWay(a) \in SUBSET Sender
  BY DEF OnTheirWay
<1>3. IsFiniteSet(Active(a)) /\ IsFiniteSet(OnTheirWay(a)) /\ IsFiniteSet(Sender)
  BY <1>1, <1>2, FS_Subset, LinksAssumption DEF LinksTypeOK
<1>4. QED
  BY <1>2, <1>3, FS_Subset, FS_CardinalityType

(* A step after which an account has no more links, and no more on their   *)
(* way, than before.                                                       *)
LEMMA FewerLinks ==
    ASSUME LinksInv, LinksTypeOK',
           \A a \in Holder : /\ Active(a)' \subseteq Active(a)
                             /\ OnTheirWay(a)' \subseteq OnTheirWay(a)
    PROVE  LinksBounded'
<1> SUFFICES ASSUME NEW a \in Holder
             PROVE  Cardinality(Active(a)') + Cardinality(OnTheirWay(a)')
                        <= MaxActive + Cardinality(Sender) - 1
  BY DEF LinksBounded
<1>1. /\ Cardinality(Active(a)') \in Nat /\ Cardinality(OnTheirWay(a)') \in Nat
      /\ Cardinality(Active(a)') <= Cardinality(Active(a))
      /\ Cardinality(OnTheirWay(a)') <= Cardinality(OnTheirWay(a))
  <2>1. Active(a)' \in SUBSET Active(a) /\ OnTheirWay(a)' \in SUBSET OnTheirWay(a)
    OBVIOUS
  <2>2. IsFiniteSet(Active(a)') /\ IsFiniteSet(OnTheirWay(a)')
    BY <2>1, LinkCounts, FS_Subset DEF LinksInv
  <2>3. QED
    BY <2>1, <2>2, LinkCounts, FS_Subset, FS_CardinalityType DEF LinksInv
<1>2. QED
  BY <1>1, LinkCounts, LinksAssumption DEF LinksInv, LinksBounded

(* Initially there are no links.                                           *)
LEMMA LinksInvInit == MLInit => LinksInv
<1> SUFFICES ASSUME MLInit PROVE LinksInv
  OBVIOUS
<1>1. LinksTypeOK
  <2>1. {l \in Link : linkFor[l] # NoHolder} = {}
    BY DEF MLInit
  <2>2. QED
    BY <2>1, FS_EmptySet DEF MLInit, LinksTypeOK, Sending, NoSending
<1>2. ASSUME NEW a \in Holder
      PROVE  Cardinality(Active(a)) + Cardinality(OnTheirWay(a)) <= MaxActive + Cardinality(Sender) - 1
  <2>1. Active(a) = {} /\ OnTheirWay(a) = {}
    BY DEF MLInit, Active, LinkLive, OnTheirWay, NoSending
  <2>2. QED
    BY <1>1, <2>1, LinkCounts, FS_EmptySet, LinksAssumption
<1>3. QED
  BY <1>1, <1>2 DEF LinksInv, LinksBounded

(* Every step keeps the invariant: a count leaves room for its own link,   *)
(* and an insertion turns a link on its way into one that is there.        *)
LEMMA LinksInvStep == LinksInv /\ [MLNext]_mlvars => LinksInv'
<1> SUFFICES ASSUME LinksInv, [MLNext]_mlvars PROVE LinksInv'
  OBVIOUS
<1> USE DEF LinksInv
<1>1. ASSUME NEW p \in Sender, NEW a \in Holder, CountActive(p, a) PROVE LinksInv'
  <2> USE <1>1 DEF CountActive, Sends
  <2>1. LinksTypeOK'
    BY DEF LinksTypeOK, Sending
  <2>2. ASSUME NEW b \in Holder
        PROVE  Cardinality(Active(b)') + Cardinality(OnTheirWay(b)')
                   <= MaxActive + Cardinality(Sender) - 1
    <3>1. Active(b)' = Active(b)
      BY DEF Active, LinkLive
    <3>2. CASE b = a
      <4>1. OnTheirWay(b)' \in SUBSET Sender
        BY DEF OnTheirWay
      <4>2. Cardinality(OnTheirWay(b)') \in Nat /\ Cardinality(OnTheirWay(b)') <= Cardinality(Sender)
        BY <4>1, FS_Subset, FS_CardinalityType, LinksAssumption
      <4>3. QED
        BY <3>1, <3>2, <4>2, LinkCounts, LinksAssumption DEF HasRoom
    <3>3. CASE b # a
      <4>1. OnTheirWay(b)' \in SUBSET OnTheirWay(b)
        BY <3>3 DEF OnTheirWay, LinksTypeOK
      <4>2. /\ Cardinality(OnTheirWay(b)') \in Nat
            /\ Cardinality(OnTheirWay(b)') <= Cardinality(OnTheirWay(b))
        BY <4>1, LinkCounts, FS_Subset, FS_CardinalityType
      <4>3. QED
        BY <3>1, <4>2, LinkCounts, LinksAssumption DEF LinksBounded
    <3>4. QED
      BY <3>2, <3>3
  <2>3. QED
    BY <2>1, <2>2 DEF LinksBounded
<1>2. ASSUME NEW p \in Sender, NEW l \in Link, Issue(p, l) PROVE LinksInv'
  <2> USE <1>2 DEF Issue, Rests
  <2> DEFINE S == {k \in Link : linkFor[k] # NoHolder}
  <2>1. LinksTypeOK'
    <3>1. {k \in Link : linkFor'[k] # NoHolder} \in SUBSET (S \cup {l})
      BY DEF LinksTypeOK
    <3>2. IsFiniteSet({k \in Link : linkFor'[k] # NoHolder})
      <4> HIDE DEF S
      <4>1. IsFiniteSet(S)
        BY DEF LinksTypeOK, S
      <4>2. IsFiniteSet(S \cup {l})
        BY <4>1, FS_AddElement
      <4>3. QED
        BY <3>1, <4>2, FS_Subset
    <3>3. QED
      BY <3>2 DEF LinksTypeOK, Sending, NoSending
  <2>2. ASSUME NEW b \in Holder
        PROVE  Cardinality(Active(b)') + Cardinality(OnTheirWay(b)')
                   <= MaxActive + Cardinality(Sender) - 1
    <3>1. CASE b = sending[p].to
      <4>1. Active(b)' \in SUBSET (Active(b) \cup {l})
        BY DEF Active, LinkLive, LinksTypeOK
      <4>2. OnTheirWay(b)' = OnTheirWay(b) \ {p} /\ p \in OnTheirWay(b)
        BY <3>1 DEF OnTheirWay, LinksTypeOK, NoSending
      <4>3. /\ Cardinality(Active(b)') \in Nat
            /\ Cardinality(Active(b)') <= Cardinality(Active(b)) + 1
        <5>1. /\ IsFiniteSet(Active(b) \cup {l}) /\ Cardinality(Active(b) \cup {l}) \in Nat
              /\ Cardinality(Active(b) \cup {l}) <= Cardinality(Active(b)) + 1
          <6>1. IsFiniteSet(Active(b)) /\ Cardinality(Active(b)) \in Nat
            BY LinkCounts
          <6>2. /\ IsFiniteSet(Active(b) \cup {l})
                /\ \/ Cardinality(Active(b) \cup {l}) = Cardinality(Active(b))
                   \/ Cardinality(Active(b) \cup {l}) = Cardinality(Active(b)) + 1
            BY <6>1, FS_AddElement, Zenon
          <6>3. QED
            BY <6>1, <6>2
        <5>2. IsFiniteSet(Active(b)') /\ Cardinality(Active(b)') <= Cardinality(Active(b) \cup {l})
          BY <4>1, <5>1, FS_Subset
        <5>3. Cardinality(Active(b)') \in Nat
          BY <5>2, FS_CardinalityType
        <5>4. QED
          BY <5>1, <5>2, <5>3, LinkCounts
      <4>4. Cardinality(OnTheirWay(b)') = Cardinality(OnTheirWay(b)) - 1
        BY <4>2, LinkCounts, FS_RemoveElement
      <4>5. QED
        BY <4>3, <4>4, LinkCounts, LinksAssumption DEF LinksBounded
    <3>2. CASE b # sending[p].to
      <4>1. Active(b)' \in SUBSET Active(b) /\ OnTheirWay(b)' \in SUBSET OnTheirWay(b)
        BY <3>2 DEF Active, LinkLive, LinksTypeOK, OnTheirWay, NoSending
      <4>2. /\ IsFiniteSet(Active(b)') /\ IsFiniteSet(OnTheirWay(b)')
            /\ Cardinality(Active(b)') <= Cardinality(Active(b))
            /\ Cardinality(OnTheirWay(b)') <= Cardinality(OnTheirWay(b))
        BY <4>1, LinkCounts, FS_Subset
      <4>3. Cardinality(Active(b)') \in Nat /\ Cardinality(OnTheirWay(b)') \in Nat
        BY <4>2, FS_CardinalityType
      <4>4. QED
        BY <4>2, <4>3, LinkCounts, LinksAssumption DEF LinksBounded
    <3>3. QED
      BY <3>1, <3>2
  <2>3. QED
    BY <2>1, <2>2 DEF LinksBounded
<1>3. ASSUME NEW p \in Sender, NEW l \in Link, Consume(p, l) PROVE LinksInv'
  <2> USE <1>3 DEF Consume, Sends
  <2>1. LinksTypeOK'
    BY DEF LinksTypeOK, Sending
  <2>2. ASSUME NEW a \in Holder
        PROVE  Active(a)' \subseteq Active(a) /\ OnTheirWay(a)' \subseteq OnTheirWay(a)
    <3>1. Active(a)' \subseteq Active(a)
      BY DEF Active, LinkLive
    <3>2. \A q \in Sender : sending'[q].pc = "counted" => sending'[q] = sending[q]
      BY DEF LinksTypeOK
    <3>3. QED
      BY <3>1, <3>2 DEF OnTheirWay
  <2>3. QED
    BY <2>1, <2>2, FewerLinks, Zenon
<1>4. ASSUME NEW p \in Sender, OpenSession(p) \/ AbandonSending(p) PROVE LinksInv'
  <2> USE <1>4 DEF OpenSession, AbandonSending, Rests
  <2>1. LinksTypeOK'
    <3>1. NoSending \in Sending
      BY DEF Sending, NoSending
    <3>2. linkFor' = linkFor /\ sending' = [sending EXCEPT ![p] = NoSending]
      OBVIOUS
    <3>3. QED
      BY <3>1, <3>2 DEF LinksTypeOK
  <2>2. ASSUME NEW a \in Holder
        PROVE  Active(a)' \subseteq Active(a) /\ OnTheirWay(a)' \subseteq OnTheirWay(a)
    BY DEF Active, LinkLive, OnTheirWay, LinksTypeOK, NoSending
  <2>3. QED
    BY <2>1, <2>2, FewerLinks
<1>5. CASE (\E l \in Link : LinkExpires(l)) \/ (\E a \in Holder : HolderGone(a)) \/ UNCHANGED mlvars
  <2> USE <1>5 DEF LinkExpires, HolderGone, mlvars
  <2>1. LinksTypeOK'
    BY DEF LinksTypeOK
  <2>2. ASSUME NEW a \in Holder
        PROVE  Active(a)' \subseteq Active(a) /\ OnTheirWay(a)' \subseteq OnTheirWay(a)
    BY DEF Active, LinkLive, OnTheirWay
  <2>3. QED
    BY <2>1, <2>2, FewerLinks
<1>6. QED
  BY <1>1, <1>2, <1>3, <1>4, <1>5 DEF MLNext, AuthMagicLinkIssue, HostedMagicLink

(* MaxActivePerUser is exceeded by the other requests in flight at most,   *)
(* whatever the limit and however many requests there are.                 *)
THEOREM LinksStayBounded == MLSpec => []LinksBounded
<1>1. LinksInv => LinksBounded
  BY DEF LinksInv
<1>2. QED
  BY <1>1, LinksInvInit, LinksInvStep, PTL DEF MLSpec

-----------------------------------------------------------------------------
(***************************************************************************)
(* BackupCodes.  CodesInv says what the row locks of the two transactions  *)
(* are good for: the rows a transaction holds are nobody else's            *)
(* (LocksDisjoint) and stay unused (LocksHold); what a regeneration saw    *)
(* and does not hold has been used (SnapshotsSettled).                     *)
(***************************************************************************)

CodesTypeOK ==
    /\ issued \subseteq Batch /\ spent \subseteq Code /\ replaced \subseteq Code
    /\ tx \in [Client -> Tx]
    /\ accepted \in [Code -> Nat]

LocksDisjoint == \A p, q \in Client : p # q => tx[p].rows \cap tx[q].rows = {}

LocksHold == \A p \in Client : tx[p].rows \subseteq Unused

(* Codes a statement saw are issued; those a regeneration saw and does not *)
(* hold were used meanwhile.                                               *)
SnapshotsSettled ==
    \A p \in Client :
        /\ \A c \in tx[p].saw : c[1] \in issued
        /\ tx[p].pc = "renewed" => tx[p].saw \ tx[p].rows \subseteq spent

(* An accepted code is used, and so is a replaced one.                     *)
AcceptedSpent ==
    /\ \A c \in Code : accepted[c] <= IF c \in spent THEN 1 ELSE 0
    /\ replaced \subseteq spent

CodesInv == CodesTypeOK /\ LocksDisjoint /\ LocksHold /\ SnapshotsSettled /\ AcceptedSpent

(* Initially there are no codes.                                           *)
LEMMA CodesInvInit == BCInit => CodesInv
<1> SUFFICES ASSUME BCInit PROVE CodesInv
  OBVIOUS
<1>1. CodesTypeOK
  BY DEF BCInit, CodesTypeOK, NoTx, Tx
<1>2. LocksDisjoint /\ LocksHold /\ SnapshotsSettled /\ AcceptedSpent
  BY DEF BCInit, LocksDisjoint, LocksHold, SnapshotsSettled, AcceptedSpent, NoTx
<1>3. QED
  BY <1>1, <1>2 DEF CodesInv

(* A transaction begins with a snapshot and without locks.                 *)
LEMMA StartsStep ==
    ASSUME CodesInv, NEW p \in Client, NEW where \in {"renewing", "checking"},
           NEW code \in Code \cup {NoCode}, Starts(p, where, code)
    PROVE  CodesInv'
<1> USE DEF CodesInv, CodesTypeOK, Starts, NoTx, Tx, Unused
<1>1. CodesTypeOK'
  OBVIOUS
<1>2. LocksDisjoint'
  BY DEF LocksDisjoint
<1>3. LocksHold'
  BY DEF LocksHold
<1>4. SnapshotsSettled'
  BY DEF SnapshotsSettled
<1>5. AcceptedSpent'
  BY DEF AcceptedSpent
<1>6. QED
  BY <1>1, <1>2, <1>3, <1>4, <1>5

(* It takes its locks once nobody else holds them.                         *)
LEMMA AcquiresStep ==
    ASSUME CodesInv, NEW p \in Client,
           Acquires(p, "renewing", "renewed") \/ Acquires(p, "checking", "locked")
    PROVE  CodesInv'
<1>1. PICK to \in {"renewed", "locked"} :
        /\ tx' = [tx EXCEPT ![p] = [tx[p] EXCEPT !.pc = to, !.rows = Acquired(p)]]
        /\ Acquired(p) \cap HeldElsewhere(p) = {}
        /\ UNCHANGED <<issued, spent, accepted, replaced>>
  BY DEF Acquires
<1>2. Acquired(p) \subseteq Code
  BY DEF Acquired, Unused
<1> USE <1>1, <1>2 DEF CodesInv, CodesTypeOK, Tx
<1>3. CodesTypeOK'
  OBVIOUS
<1>4. LocksDisjoint'
  <2>1. \A q \in Client : q # p => tx[q].rows \cap Acquired(p) = {}
    BY DEF HeldElsewhere
  <2>2. QED
    BY <2>1 DEF LocksDisjoint
<1>5. LocksHold'
  BY DEF LocksHold, Acquired, Unused
<1>6. SnapshotsSettled'
  BY DEF SnapshotsSettled, Acquired, Unused
<1>7. AcceptedSpent'
  BY DEF AcceptedSpent
<1>8. QED
  BY <1>3, <1>4, <1>5, <1>6, <1>7

(* A transaction commits: rows it holds become used, and a batch may be    *)
(* added.  Nobody else holds those rows.                                   *)
LEMMA CommitStep ==
    ASSUME CodesInv, NEW p \in Client, NEW S \in SUBSET Code, S \subseteq tx[p].rows,
           NEW B \in SUBSET Batch,
           issued' = issued \cup B, spent' = spent \cup S, EndTx(p),
           replaced' \in SUBSET Code, accepted' \in [Code -> Nat], AcceptedSpent'
    PROVE  CodesInv'
<1> USE DEF CodesInv, CodesTypeOK, EndTx, NoTx, Tx
<1>1. CodesTypeOK'
  OBVIOUS
<1>2. LocksDisjoint'
  BY DEF LocksDisjoint
<1>3. LocksHold'
  <2> SUFFICES ASSUME NEW q \in Client, NEW c \in tx'[q].rows PROVE c \in Unused'
    BY DEF LocksHold
  <2>1. q # p /\ c \in tx[q].rows
    OBVIOUS
  <2>2. c \in Unused /\ c \notin S
    BY <2>1 DEF LocksHold, LocksDisjoint
  <2>3. QED
    BY <2>2 DEF Unused
<1>4. SnapshotsSettled'
  BY DEF SnapshotsSettled
<1>5. QED
  BY <1>1, <1>2, <1>3, <1>4

(* The four ways a transaction goes on or ends keep CodesInv.              *)
LEMMA CodesInvStep == CodesInv /\ [BCNext]_bcvars => CodesInv'
<1> SUFFICES ASSUME CodesInv, [BCNext]_bcvars PROVE CodesInv'
  OBVIOUS
<1>1. ASSUME NEW p \in Client, AuthBackupCodesRegenerate(p) PROVE CodesInv'
  BY <1>1, StartsStep DEF AuthBackupCodesRegenerate, Regenerate
<1>2. ASSUME NEW p \in Client, NEW c \in Code, AuthBackupCodesConsume(p, c) PROVE CodesInv'
  BY <1>2, StartsStep DEF AuthBackupCodesConsume, ConsumeCode
<1>3. ASSUME NEW p \in Client, InvalidateOld(p) \/ LockCandidates(p) PROVE CodesInv'
  BY <1>3, AcquiresStep DEF InvalidateOld, LockCandidates
<1>4. ASSUME NEW p \in Client, AcceptCode(p) PROVE CodesInv'
  <2>1. PICK c \in Code : c = tx[p].code /\ c \in tx[p].rows /\ c \notin spent
    BY <1>4 DEF AcceptCode, CodesInv, CodesTypeOK, LocksHold, Unused
  <2>2. accepted' \in [Code -> Nat] /\ spent' = spent \cup {c} /\ UNCHANGED <<issued, replaced>>
    BY <1>4, <2>1 DEF AcceptCode, Marked, CodesInv, CodesTypeOK
  <2>3. AcceptedSpent'
    BY <1>4, <2>1, <2>2 DEF AcceptCode, CodesInv, CodesTypeOK, AcceptedSpent
  <2>4. /\ {c} \in SUBSET Code /\ {c} \subseteq tx[p].rows
        /\ {} \in SUBSET Batch /\ issued' = issued \cup {}
    BY <2>1, <2>2
  <2>5. EndTx(p) /\ replaced' \in SUBSET Code
    BY <1>4, <2>2 DEF AcceptCode, CodesInv, CodesTypeOK
  <2>6. QED
    BY <2>2, <2>3, <2>4, <2>5, CommitStep
<1>5. ASSUME NEW p \in Client, NEW b \in Batch, CommitCodes(p, b) PROVE CodesInv'
  <2>1. /\ tx[p].rows \subseteq Code /\ tx[p].saw \subseteq Code
        /\ tx[p].saw \subseteq spent \cup tx[p].rows
    BY <1>5 DEF CommitCodes, CodesInv, CodesTypeOK, Tx, SnapshotsSettled
  <2>2. AcceptedSpent' /\ replaced' \in SUBSET Code /\ accepted' \in [Code -> Nat]
    BY <1>5, <2>1 DEF CommitCodes, CodesInv, CodesTypeOK, AcceptedSpent
  <2>3. issued' = issued \cup {b} /\ spent' = spent \cup tx[p].rows /\ EndTx(p)
    BY <1>5 DEF CommitCodes
  <2>4. {b} \in SUBSET Batch /\ tx[p].rows \in SUBSET Code /\ tx[p].rows \subseteq tx[p].rows
    BY <2>1
  <2>5. QED
    BY <2>2, <2>3, <2>4, CommitStep
<1>6. ASSUME NEW p \in Client, RefuseCode(p) PROVE CodesInv'
  <2>1. /\ issued' = issued \cup {} /\ spent' = spent \cup {} /\ EndTx(p)
        /\ AcceptedSpent' /\ replaced' \in SUBSET Code /\ accepted' \in [Code -> Nat]
        /\ {} \subseteq tx[p].rows
    BY <1>6 DEF RefuseCode, CodesInv, CodesTypeOK, AcceptedSpent
  <2>2. {} \in SUBSET Batch /\ {} \in SUBSET Code
    OBVIOUS
  <2>3. QED
    BY <2>1, <2>2, CommitStep
<1>7. CASE UNCHANGED bcvars
  BY <1>7 DEF bcvars, CodesInv, CodesTypeOK, LocksDisjoint, LocksHold, Unused, SnapshotsSettled,
              AcceptedSpent
<1>8. QED
  BY <1>1, <1>2, <1>3, <1>4, <1>5, <1>6, <1>7 DEF BCNext

(* A code is accepted once, however many requests present it.              *)
THEOREM CodeIsSingleUse == BCSpec => []CodeAcceptedOnce
<1>1. CodesInv => CodeAcceptedOnce
  BY DEF CodesInv, CodesTypeOK, AcceptedSpent, CodeAcceptedOnce
<1>2. QED
  BY CodesInvInit, CodesInvStep, <1>1, PTL DEF BCSpec

(* A code a regeneration had to replace is held by nobody, because what is *)
(* held is unused: no step accepts it.                                     *)
LEMMA ReplacedStep ==
    CodesInv /\ [BCNext]_bcvars => \A c \in replaced : accepted'[c] = accepted[c]
<1> SUFFICES ASSUME CodesInv, [BCNext]_bcvars, NEW c \in replaced PROVE accepted'[c] = accepted[c]
  OBVIOUS
<1>1. ASSUME NEW p \in Client, AcceptCode(p) PROVE accepted'[c] = accepted[c]
  <2>1. c \in Code /\ c \in spent /\ tx[p].code \notin spent
    BY <1>1 DEF AcceptCode, CodesInv, CodesTypeOK, LocksHold, Unused, AcceptedSpent
  <2>2. QED
    BY <1>1, <2>1 DEF AcceptCode, CodesInv, CodesTypeOK
<1>2. CASE UNCHANGED accepted
  BY <1>2
<1>3. QED
  BY <1>1, <1>2 DEF BCNext, bcvars, AuthBackupCodesRegenerate, Regenerate, AuthBackupCodesConsume,
                    ConsumeCode, Starts, InvalidateOld, LockCandidates, Acquires, CommitCodes,
                    RefuseCode

(* Once a regeneration has committed, no code it had to replace is         *)
(* accepted, not even by a request that had begun before.                  *)
THEOREM RegenerationEndsCodes == BCSpec => RegenerationFinal
  BY CodesInvInit, CodesInvStep, ReplacedStep, PTL DEF BCSpec, RegenerationFinal

-----------------------------------------------------------------------------
(***************************************************************************)
(* Factors.  FactorsInv adds that a TOTP code is compared with a TOTP      *)
(* secret only (SecretsPicked), and that a deletion that found more than   *)
(* one passkey and was not overtaken still has more than one (CountsHold). *)
(***************************************************************************)

(* Challenges and requests in flight.                                      *)
Challenges == [op : {"none", "register", "assert"}, for : Purposes, who : Member \cup {None}]

Servings ==
    [pc : {"idle", "register", "assert", "verified", "picked", "counted"},
     who : Member \cup {None}, for : Purposes, fac : Credential \cup TotpKey \cup {None},
     overlapped : BOOLEAN]

(* Finitely many credentials are registered.                               *)
FactorsTypeOK ==
    /\ ceremony \in [Ceremony -> Challenges]
    /\ credOf \in [Credential -> Member \cup {None}]
    /\ purpose \in [Credential -> Purposes]
    /\ totpOf \in [TotpKey -> Member \cup {None}]
    /\ serving \in [Browser -> Servings]
    /\ IsFiniteSet({k \in Credential : credOf[k] # None})

(* A TOTP code is compared with a TOTP secret.                             *)
SecretsPicked == \A p \in Browser : serving[p].pc = "picked" => serving[p].fac \in TotpKey

(* Whoever counted more than one passkey, and none was removed since, has  *)
(* more than one.                                                          *)
CountsHold ==
    \A p \in Browser : serving[p].pc = "counted" =>
        /\ serving[p].who \in Member
        /\ ~serving[p].overlapped => \E j, k \in Keys(serving[p].who) : j # k

FactorsInv == FactorsTypeOK /\ SecretsPicked /\ CountsHold /\ RemovedPasskeyRefused

(* Initially nobody has a factor.                                          *)
LEMMA FactorsInvInit == FInit => FactorsInv
<1> SUFFICES ASSUME FInit PROVE FactorsInv
  OBVIOUS
<1> USE DEF FInit, NoChallenge, Challenge, NotServing, Serving
<1>1. {k \in Credential : credOf[k] # None} = {}
  OBVIOUS
<1>2. FactorsTypeOK
  BY <1>1, FS_EmptySet DEF FactorsTypeOK, Challenges, Servings, Purposes
<1>3. SecretsPicked /\ CountsHold /\ RemovedPasskeyRefused
  BY DEF SecretsPicked, CountsHold, RemovedPasskeyRefused
<1>4. QED
  BY <1>2, <1>3 DEF FactorsInv

(* More than one passkey: two of them.                                     *)
LEMMA TwoKeys ==
    ASSUME FactorsTypeOK, NEW u \in Member, MoreThanOne(u)
    PROVE  \E j, k \in Keys(u) : j # k
<1>1. Keys(u) \in SUBSET {k \in Credential : credOf[k] # None}
  BY FactorsAssumption DEF Keys
<1>2. IsFiniteSet(Keys(u))
  BY <1>1, FS_Subset DEF FactorsTypeOK
<1>3. Cardinality(Keys(u)) # 0 /\ Cardinality(Keys(u)) # 1
  BY DEF MoreThanOne
<1>4. Keys(u) # {} /\ ~\E x : Keys(u) = {x}
  BY <1>2, <1>3, FS_EmptySet, FS_Singleton
<1>5. QED
  BY <1>4

(* A request goes on or ends; the factors stay.                            *)
LEMMA ServesStep ==
    ASSUME FactorsInv, NEW p \in Browser, NEW s \in Servings, Serves(p, s),
           ceremony' \in [Ceremony -> Challenges], UNCHANGED <<keyVars, totpOf>>,
           stale' \cap Credential = {},
           s.pc = "picked" => s.fac \in TotpKey,
           s.pc = "counted" => /\ s.who \in Member
                               /\ \E j, k \in Keys(s.who) : j # k
    PROVE  FactorsInv'
<1> USE DEF FactorsInv, Serves, keyVars
<1>1. FactorsTypeOK'
  BY DEF FactorsTypeOK
<1>2. ASSUME NEW q \in Browser PROVE serving'[q] = IF q = p THEN s ELSE serving[q]
  BY DEF FactorsTypeOK
<1>3. SecretsPicked'
  BY <1>2 DEF SecretsPicked
<1>4. CountsHold'
  BY <1>2 DEF CountsHold, Keys
<1>5. QED
  BY <1>1, <1>3, <1>4 DEF RemovedPasskeyRefused

(* Passkeys of a user are removed, and the requests that counted them are  *)
(* marked.                                                                 *)
LEMMA RemovalStep ==
    ASSUME FactorsInv, NEW u \in Member, NEW p \in Browser \cup {None},
           NEW R \in SUBSET Keys(u),
           credOf' = [k \in Credential |-> IF k \in R THEN None ELSE credOf[k]],
           serving' = Overtaken(u, p), UNCHANGED <<ceremony, purpose, stale>>,
           totpOf' \in [TotpKey -> Member \cup {None}]
    PROVE  FactorsInv'
<1> USE DEF FactorsInv
<1> DEFINE r(q) == [serving[q] EXCEPT !.overlapped =
                      @ \/ (serving[q].pc = "counted" /\ serving[q].who = u)]
<1>1. ASSUME NEW q \in Browser
      PROVE  /\ r(q) \in Servings
             /\ r(q).pc = serving[q].pc /\ r(q).who = serving[q].who /\ r(q).fac = serving[q].fac
             /\ r(q).overlapped =
                  (serving[q].overlapped \/ (serving[q].pc = "counted" /\ serving[q].who = u))
  <2>1. serving[q] \in Servings
    BY DEF FactorsTypeOK
  <2>2. QED
    BY <2>1 DEF Servings
<1>2. \A q \in Browser : serving'[q] = IF q = p THEN NotServing ELSE r(q)
  BY DEF Overtaken
<1>3. NotServing \in Servings /\ NotServing.pc = "idle"
  BY DEF NotServing, Serving, Servings, Purposes
<1>4. serving' = [q \in Browser |-> IF q = p THEN NotServing ELSE r(q)]
  BY DEF Overtaken
<1> HIDE DEF r
<1>5. FactorsTypeOK'
  <2>1. {k \in Credential : credOf'[k] # None} \in SUBSET {k \in Credential : credOf[k] # None}
    BY DEF FactorsTypeOK
  <2>2. IsFiniteSet({k \in Credential : credOf'[k] # None})
    BY <2>1, FS_Subset DEF FactorsTypeOK
  <2>3. serving' \in [Browser -> Servings]
    BY <1>1, <1>3, <1>4
  <2>4. QED
    BY <2>2, <2>3 DEF FactorsTypeOK
<1>6. SecretsPicked'
  BY <1>1, <1>2, <1>3 DEF SecretsPicked
<1>7. CountsHold'
  <2> SUFFICES ASSUME NEW q \in Browser, serving'[q].pc = "counted"
               PROVE  /\ serving'[q].who \in Member
                      /\ ~serving'[q].overlapped => \E j, k \in Keys(serving[q].who)' : j # k
    BY DEF CountsHold
  <2>1. q # p /\ serving'[q] = r(q) /\ serving[q].pc = "counted" /\ serving'[q].who = serving[q].who
    BY <1>1, <1>2, <1>3
  <2>2. serving[q].who \in Member
    BY <2>1 DEF CountsHold
  <2>3. ASSUME ~serving'[q].overlapped PROVE \E j, k \in Keys(serving[q].who)' : j # k
    <3>1. serving[q].who # u /\ ~serving[q].overlapped
      BY <1>1, <2>1, <2>3
    <3>2. PICK j, k \in Keys(serving[q].who) : j # k
      BY <2>1, <3>1 DEF CountsHold
    <3>3. j \in Keys(serving[q].who)' /\ k \in Keys(serving[q].who)'
      BY <2>1, <3>1, <3>2 DEF Keys
    <3>4. QED
      BY <3>2, <3>3
  <2>4. QED
    BY <2>1, <2>2, <2>3
<1>8. QED
  BY <1>5, <1>6, <1>7 DEF RemovedPasskeyRefused

(* Every step keeps the invariant.                                         *)
LEMMA FactorsInvStep == FactorsInv /\ [FNext]_fvars => FactorsInv'
<1> SUFFICES ASSUME FactorsInv, [FNext]_fvars PROVE FactorsInv'
  OBVIOUS
<1> USE FactorsAssumption
<1>1. NotServing \in Servings /\ NotServing.pc = "idle" /\ NoChallenge \in Challenges
  BY DEF NotServing, Serving, Servings, Purposes, NoChallenge, Challenge, Challenges
<1>2. stale \cap Credential = {}
  BY DEF FactorsInv, RemovedPasskeyRefused
<1>3. ASSUME NEW c \in Ceremony, NEW row \in Challenges, UNCHANGED <<keyVars, totpOf, serving, stale>>,
             ceremony' = [ceremony EXCEPT ![c] = row]
      PROVE  FactorsInv'
  BY <1>3 DEF FactorsInv, FactorsTypeOK, SecretsPicked, CountsHold, RemovedPasskeyRefused, keyVars, Keys
<1>4. ASSUME NEW c \in Ceremony, ExpireCeremony(c) PROVE FactorsInv'
  BY <1>1, <1>3, <1>4 DEF ExpireCeremony, totpVars
<1>5. ASSUME NEW c \in Ceremony, NEW op \in {"register", "assert"}, NEW for \in Purposes,
             NEW u \in Member \cup {None}, StoreSession(c, Challenge(op, for, u))
      PROVE  FactorsInv'
  <2>1. Challenge(op, for, u) \in Challenges
    BY DEF Challenge, Challenges
  <2>2. QED
    BY <1>3, <1>5, <2>1 DEF StoreSession, totpVars
<1>6. ASSUME NEW p \in Browser, NEW c \in Ceremony, NEW op \in {"register", "assert"},
             NEW for \in Purposes, ConsumeSession(p, c, op, for)
      PROVE  FactorsInv'
  <2> DEFINE s == Serving(ceremony[c].op, ceremony[c].who, ceremony[c].for, None)
  <2>1. s \in Servings /\ s.pc = op
    BY <1>6 DEF ConsumeSession, FactorsInv, FactorsTypeOK, Challenges, Servings, Serving
  <2>2. ceremony' \in [Ceremony -> Challenges] /\ stale' \cap Credential = {}
    BY <1>1, <1>2, <1>6 DEF ConsumeSession, FactorsInv, FactorsTypeOK
  <2>3. Serves(p, s) /\ UNCHANGED <<keyVars, totpOf>>
    BY <1>6 DEF ConsumeSession, totpVars
  <2> HIDE DEF s
  <2>4. QED
    BY <2>1, <2>2, <2>3, ServesStep
<1>7. ASSUME NEW p \in Browser, NEW k \in Credential, FinishRegistration(p, k) PROVE FactorsInv'
  <2> USE <1>7 DEF FinishRegistration
  <2>1. serving[p] \in Servings
    BY DEF FactorsInv, FactorsTypeOK
  <2>2. ASSUME NEW q \in Browser PROVE serving'[q] = IF q = p THEN NotServing ELSE serving[q]
    BY DEF FactorsInv, FactorsTypeOK, Serves
  <2>3. FactorsTypeOK'
    <3> DEFINE S == {j \in Credential : credOf[j] # None}
    <3>1. {j \in Credential : credOf'[j] # None} \in SUBSET (S \cup {k})
      BY DEF FactorsInv, FactorsTypeOK
    <3>2. IsFiniteSet({j \in Credential : credOf'[j] # None})
      <4>1. IsFiniteSet(S)
        BY DEF FactorsInv, FactorsTypeOK
      <4> HIDE DEF S
      <4>2. IsFiniteSet(S \cup {k})
        BY <4>1, FS_AddElement
      <4>3. QED
        BY <3>1, <4>2, FS_Subset
    <3>3. QED
      BY <1>1, <2>1, <3>2 DEF FactorsInv, FactorsTypeOK, Serves, Servings, totpVars
  <2>4. SecretsPicked' /\ RemovedPasskeyRefused'
    BY <1>1, <2>2 DEF FactorsInv, SecretsPicked, RemovedPasskeyRefused
  <2>5. \A u \in Member : Keys(u) \subseteq Keys(u)'
    BY DEF Keys, FactorsInv, FactorsTypeOK
  <2>6. CountsHold'
    <3> SUFFICES ASSUME NEW q \in Browser, serving'[q].pc = "counted"
                 PROVE  /\ serving'[q].who \in Member
                        /\ ~serving'[q].overlapped => \E i, j \in Keys(serving[q].who)' : i # j
      BY DEF CountsHold
    <3>1. serving'[q] = serving[q] /\ serving[q].who \in Member
      BY <1>1, <2>2 DEF FactorsInv, CountsHold
    <3>2. PICK u \in Member : u = serving[q].who
      BY <3>1
    <3>3. ~serving[q].overlapped => \E i, j \in Keys(u) : i # j
      BY <3>1, <3>2 DEF FactorsInv, CountsHold
    <3>4. ~serving[q].overlapped => \E i, j \in Keys(u)' : i # j
      BY <2>5, <3>3
    <3>5. QED
      BY <3>1, <3>2, <3>4 DEF Keys
  <2>7. QED
    BY <2>3, <2>4, <2>6 DEF FactorsInv
<1>8. ASSUME NEW p \in Browser, NEW k \in Credential, FinishAssertion(p, k) PROVE FactorsInv'
  <2> DEFINE s == Serving("verified", credOf[k], purpose[k], k)
  <2>1. s \in Servings /\ s.pc = "verified"
    BY DEF FactorsInv, FactorsTypeOK, Servings, Serving
  <2>2. ceremony' \in [Ceremony -> Challenges] /\ stale' \cap Credential = {}
    BY <1>2, <1>8 DEF FinishAssertion, FactorsInv, FactorsTypeOK
  <2>3. Serves(p, s) /\ UNCHANGED <<keyVars, totpOf>>
    BY <1>8 DEF FinishAssertion, totpVars
  <2> HIDE DEF s
  <2>4. QED
    BY <2>1, <2>2, <2>3, ServesStep
<1>9. ASSUME NEW p \in Browser, Serves(p, NotServing), UNCHANGED <<ceremony, keyVars, totpOf>>,
             stale' \cap Credential = {}
      PROVE  FactorsInv'
  <2>1. ceremony' \in [Ceremony -> Challenges]
    BY <1>9 DEF FactorsInv, FactorsTypeOK
  <2>2. QED
    BY <1>1, <1>9, <2>1, ServesStep
<1>10. ASSUME NEW p \in Browser, UpdateCredential(p) \/ VerifyTOTP(p) \/ AbandonServing(p)
       PROVE  FactorsInv'
  <2>1. stale' \cap Credential = {}
    <3>1. CASE UpdateCredential(p)
      BY <1>2, <3>1 DEF UpdateCredential, RowMatched
    <3>2. CASE VerifyTOTP(p)
      BY <1>2, <3>2 DEF VerifyTOTP, FactorsInv, SecretsPicked
    <3>3. CASE AbandonServing(p)
      BY <1>2, <3>3 DEF AbandonServing
    <3>4. QED
      BY <1>10, <3>1, <3>2, <3>3
  <2>2. Serves(p, NotServing) /\ UNCHANGED <<ceremony, keyVars, totpOf>>
    BY <1>10 DEF UpdateCredential, VerifyTOTP, AbandonServing, totpVars
  <2>3. QED
    BY <1>9, <2>1, <2>2
<1>11. ASSUME NEW p \in Browser, NEW u \in Member, CountPasskeys(p, u) PROVE FactorsInv'
  <2> DEFINE s == Serving("counted", u, "primary", None)
  <2>1. s \in Servings /\ s.pc = "counted" /\ s.who = u
    BY DEF Servings, Serving, Purposes
  <2>2. ceremony' \in [Ceremony -> Challenges] /\ stale' \cap Credential = {}
    BY <1>2, <1>11 DEF CountPasskeys, FactorsInv, FactorsTypeOK
  <2>3. Serves(p, s) /\ UNCHANGED <<keyVars, totpOf>>
    BY <1>11 DEF CountPasskeys, totpVars
  <2>4. \E j, k \in Keys(u) : j # k
    BY <1>11, TwoKeys DEF CountPasskeys, FactorsInv
  <2> HIDE DEF s
  <2>5. QED
    BY <2>1, <2>2, <2>3, <2>4, ServesStep
<1>12. ASSUME NEW p \in Browser, NEW u \in Member, NEW x \in TotpKey, PickSecret(p, u, x)
       PROVE  FactorsInv'
  <2> DEFINE s == Serving("picked", u, "second_factor", x)
  <2>1. s \in Servings /\ s.pc = "picked" /\ s.fac = x
    BY DEF Servings, Serving, Purposes
  <2>2. ceremony' \in [Ceremony -> Challenges] /\ stale' \cap Credential = {}
    BY <1>2, <1>12 DEF PickSecret, FactorsInv, FactorsTypeOK
  <2>3. Serves(p, s) /\ UNCHANGED <<keyVars, totpOf>>
    BY <1>12 DEF PickSecret, totpVars
  <2> HIDE DEF s
  <2>4. QED
    BY <2>1, <2>2, <2>3, ServesStep
<1>13. ASSUME NEW p \in Browser, NEW k \in Credential, DeletePasskey(p, k) PROVE FactorsInv'
  <2>1. serving[p].who \in Member
    BY <1>13 DEF DeletePasskey, FactorsInv, CountsHold
  <2>2. {k} \in SUBSET Keys(serving[p].who)
    BY <1>13 DEF DeletePasskey, Keys
  <2>3. credOf' = [j \in Credential |-> IF j \in {k} THEN None ELSE credOf[j]]
    BY <1>13 DEF DeletePasskey, FactorsInv, FactorsTypeOK
  <2>4. serving' = Overtaken(serving[p].who, p) /\ UNCHANGED <<ceremony, purpose, stale, totpOf>>
    BY <1>13 DEF DeletePasskey, totpVars
  <2>5. totpOf' \in [TotpKey -> Member \cup {None}]
    BY <2>4 DEF FactorsInv, FactorsTypeOK
  <2>6. PICK R \in SUBSET Keys(serving[p].who) : R = {k}
    BY <2>2
  <2>7. QED
    BY <2>1, <2>3, <2>4, <2>5, <2>6, RemovalStep
<1>14. ASSUME NEW u \in Member, DisableUserMFA(u) PROVE FactorsInv'
  <2>1. LoadCredentials(u, "second_factor") \in SUBSET Keys(u)
    BY DEF LoadCredentials
  <2>2. totpOf' \in [TotpKey -> Member \cup {None}]
    BY <1>14 DEF DisableUserMFA, FactorsInv, FactorsTypeOK
  <2>3. QED
    BY <1>14, <2>1, <2>2, RemovalStep DEF DisableUserMFA
<1>15. ASSUME NEW u \in Member, AdminResetPasskey(u) PROVE FactorsInv'
  <2>1. Keys(u) \in SUBSET Keys(u) /\ totpOf' \in [TotpKey -> Member \cup {None}]
    BY <1>15 DEF AdminResetPasskey, totpVars, FactorsInv, FactorsTypeOK
  <2>2. QED
    BY <1>15, <2>1, RemovalStep DEF AdminResetPasskey
<1>16. ASSUME NEW u \in Member, NEW s \in TotpKey, EnrollTOTP(u, s) PROVE FactorsInv'
  BY <1>16 DEF EnrollTOTP, FactorsInv, FactorsTypeOK, SecretsPicked, CountsHold,
     RemovedPasskeyRefused, keyVars, Keys
<1>17. CASE UNCHANGED fvars
  BY <1>17 DEF fvars, totpVars, FactorsInv, FactorsTypeOK, SecretsPicked, CountsHold,
     RemovedPasskeyRefused, keyVars, Keys
<1>18. ASSUME NEW p \in Browser, NEW c \in Ceremony,
              \/ AuthPasskeyAssert(p, c)
              \/ \E u \in Member : AuthPasskeyRegister(p, c, u) \/ AuthWebAuthn2FAEnroll(p, c, u)
              \/ \E u \in Member \cup {None} : AuthWebAuthn2FAVerify(p, c, u)
       PROVE  FactorsInv'
  BY <1>5, <1>6, <1>18 DEF AuthPasskeyAssert, AuthPasskeyRegister, AuthWebAuthn2FAEnroll,
     AuthWebAuthn2FAVerify, BeginAssertion, BeginRegistration, BeginEnroll, BeginVerify, Purposes
<1>19. QED
  BY <1>4, <1>7, <1>8, <1>10, <1>11, <1>12, <1>13, <1>14, <1>15, <1>16, <1>17, <1>18
     DEF FNext, AuthTOTPVerify, HostedFactor

(* A removed passkey signs nobody in, however far an assertion with it had *)
(* come, for any number of credentials and requests.                       *)
THEOREM RemovedPasskeysRefused == FSpec => []RemovedPasskeyRefused
<1>1. FactorsInv => RemovedPasskeyRefused
  BY DEF FactorsInv
<1>2. QED
  BY <1>1, FactorsInvInit, FactorsInvStep, PTL DEF FSpec

(* A deletion whose count is up to date leaves the user a passkey.         *)
THEOREM PasskeysRunOutOnlyByOverlap == FSpec => LastPasskeyKept
<1> DEFINE Kept == \A u \in Member : Keys(u) # {} /\ Keys(u)' = {} =>
                      \/ \E p \in Browser : serving[p].overlapped /\ serving'[p] # serving[p]
                      \/ \A p \in Browser : serving[p].pc = serving'[p].pc
<1>1. FactorsInv /\ [FNext]_fvars => [Kept]_fvars
  <2> SUFFICES ASSUME FactorsInv, FNext, NEW u \in Member, Keys(u) # {}, Keys(u)' = {}
               PROVE  \/ \E p \in Browser : serving[p].overlapped /\ serving'[p] # serving[p]
                      \/ \A p \in Browser : serving[p].pc = serving'[p].pc
    OBVIOUS
  <2>1. credOf' # credOf
    BY DEF Keys
  <2>2. \/ \E p \in Browser, k \in Credential : FinishRegistration(p, k) \/ DeletePasskey(p, k)
        \/ \E v \in Member : DisableUserMFA(v) \/ AdminResetPasskey(v)
    BY <2>1 DEF FNext, ExpireCeremony, AuthPasskeyAssert, AuthPasskeyRegister,
       AuthWebAuthn2FAEnroll, AuthWebAuthn2FAVerify, BeginAssertion, BeginRegistration,
       BeginEnroll, BeginVerify, StoreSession, ConsumeSession, UpdateCredential, VerifyTOTP,
       AbandonServing, FinishAssertion, CountPasskeys, AuthTOTPVerify, HostedFactor, PickSecret,
       EnrollTOTP, keyVars
  <2>3. ASSUME NEW p \in Browser, NEW k \in Credential, FinishRegistration(p, k) PROVE FALSE
    BY <2>3, FactorsAssumption DEF FinishRegistration, Keys, FactorsInv, FactorsTypeOK
  <2>4. ASSUME NEW p \in Browser, NEW k \in Credential, DeletePasskey(p, k)
        PROVE  serving[p].overlapped /\ serving'[p] # serving[p]
    <3>1. serving'[p] = NotServing /\ serving[p].pc = "counted"
      BY <2>4 DEF DeletePasskey, Overtaken
    <3>2. u = serving[p].who
      BY <2>4 DEF DeletePasskey, Keys, FactorsInv, FactorsTypeOK
    <3>3. ~\E i, j \in Keys(u) : i # j
      BY <2>4 DEF DeletePasskey, Keys, FactorsInv, FactorsTypeOK
    <3>4. QED
      BY <3>1, <3>2, <3>3 DEF FactorsInv, CountsHold, NotServing, Serving
  <2>5. ASSUME NEW v \in Member, serving' = Overtaken(v, None), NEW p \in Browser
        PROVE  serving'[p].pc = serving[p].pc
    BY <2>5, FactorsAssumption DEF Overtaken, FactorsInv, FactorsTypeOK, Servings
  <2>6. QED
    BY <2>2, <2>3, <2>4, <2>5 DEF DisableUserMFA, AdminResetPasskey
<1>2. QED
  BY <1>1, FactorsInvInit, FactorsInvStep, PTL DEF FSpec, LastPasskeyKept

-----------------------------------------------------------------------------
(***************************************************************************)
(* RateLimit.  RateInv adds an account of the bucket: what was admitted    *)
(* since any time and what the bucket holds now were paid for by a full    *)
(* bucket and by the refill since then (BucketPays).                       *)
(***************************************************************************)

(* The clock, the row and the history.                                     *)
RateTypeOK ==
    /\ rnow \in 0..RateTime
    /\ bucket \in [seeded : BOOLEAN, tokens : 0..Full, last : 0..rnow]
    /\ admitted \in [0..RateTime -> Nat]

(* Nothing is counted before the row is there, or ahead of the clock.      *)
HistorySettled ==
    /\ ~bucket.seeded => \A t \in 0..RateTime : admitted[t] = 0
    /\ \A t \in 0..RateTime : t >= rnow => admitted[t] = admitted[rnow]

(* What was admitted since a and what the bucket holds now come from a     *)
(* full bucket and from what it refilled since a.                          *)
BucketPays ==
    \A a \in 0..rnow : AdmittedIn(a, rnow) * Window + Refilled <= Full + (rnow - a) * Limit

RateInv == RateTypeOK /\ HistorySettled /\ BucketPays /\ AdmissionBounded

(* Arithmetic of parts: the products the proofs need.                      *)
LEMMA PartsArithmetic ==
    /\ Full \in Nat /\ Window \in Nat /\ Limit \in Nat /\ Window <= Full
    /\ \A n \in Int : n * Window \in Int /\ (n + 1) * Window = n * Window + Window
    /\ \A n \in Nat : n * Limit \in Nat /\ (n + 1) * Limit = n * Limit + Limit
    /\ 0 * Window = 0 /\ 0 * Limit = 0
<1>1. Window \in Nat /\ Limit \in Nat /\ Window >= 1 /\ Limit >= 1
  BY RateAssumption
<1>2. Limit * Window \in Nat /\ Window <= Limit * Window
  BY <1>1
<1>3. \A n \in Int : n * Window \in Int /\ (n + 1) * Window = n * Window + Window
  BY <1>1
<1>4. \A n \in Nat : n * Limit \in Nat /\ (n + 1) * Limit = n * Limit + Limit
  BY <1>1
<1>5. QED
  BY <1>1, <1>2, <1>3, <1>4 DEF Full

(* Counts are integers.                                                    *)
LEMMA CountsTyped ==
    ASSUME RateTypeOK, NEW a \in 0..RateTime, NEW b \in 0..RateTime
    PROVE  AdmittedIn(a, b) \in Int
  BY RateAssumption DEF RateTypeOK, AdmittedIn

(* The bucket never holds less than nothing nor more than Full.            *)
LEMMA RefilledTyped ==
    ASSUME RateTypeOK
    PROVE  Refilled \in 0..Full /\ (rnow - bucket.last) * Limit \in Nat
<1>1. rnow - bucket.last \in Nat /\ bucket.tokens \in 0..Full
  BY RateAssumption DEF RateTypeOK
<1>2. (rnow - bucket.last) * Limit \in Nat
  BY <1>1, PartsArithmetic
<1>3. QED
  BY <1>1, <1>2, PartsArithmetic DEF Refilled

(* Initially nothing was admitted.                                         *)
LEMMA RateInvInit == RLInit => RateInv
<1> SUFFICES ASSUME RLInit PROVE RateInv
  OBVIOUS
<1>1. RateTypeOK /\ HistorySettled
  BY RateAssumption, PartsArithmetic DEF RLInit, RateTypeOK, HistorySettled
<1>2. \A a, b \in 0..RateTime : AdmittedIn(a, b) = 0
  BY RateAssumption DEF RLInit, AdmittedIn
<1>3. BucketPays
  <2>1. rnow = 0 /\ 0 \in 0..RateTime
    BY RateAssumption DEF RLInit
  <2>2. QED
    BY <1>1, <1>2, <2>1, RefilledTyped, PartsArithmetic DEF BucketPays
<1>4. AdmissionBounded
  <2> SUFFICES ASSUME NEW a \in 0..RateTime, NEW b \in 0..RateTime, a <= b
               PROVE  AdmittedIn(a, b) * Window <= Full + (b - a) * Limit
    BY DEF AdmissionBounded
  <2>1. (b - a) * Limit \in Nat /\ AdmittedIn(a, b) * Window = 0
    <3>1. b - a \in Nat
      BY RateAssumption
    <3>2. QED
      BY <1>2, <3>1, PartsArithmetic
  <2>2. QED
    BY <2>1, PartsArithmetic
<1>5. QED
  BY <1>1, <1>3, <1>4 DEF RateInv

(* The bound on the stretches that are over.                               *)
PastBounded ==
    \A a, b \in 0..RateTime : a <= b /\ b < rnow =>
        AdmittedIn(a, b) * Window <= Full + (b - a) * Limit

(* The bound on any stretch follows from what the bucket pays for now and  *)
(* from the bound on the stretches that are over.                          *)
LEMMA BoundFromBucket ==
    RateTypeOK /\ HistorySettled /\ BucketPays /\ PastBounded => AdmissionBounded
<1> SUFFICES ASSUME RateTypeOK, HistorySettled, BucketPays, PastBounded,
                    NEW a \in 0..RateTime, NEW b \in 0..RateTime, a <= b
             PROVE  AdmittedIn(a, b) * Window <= Full + (b - a) * Limit
  BY DEF AdmissionBounded
<1>1. b - a \in Nat /\ (b - a) * Limit \in Nat /\ rnow \in 0..RateTime
  BY RateAssumption, PartsArithmetic DEF RateTypeOK
<1>2. CASE b < rnow
  BY <1>2 DEF PastBounded
<1>3. CASE b >= rnow /\ a <= rnow
  <2>1. AdmittedIn(a, b) = AdmittedIn(a, rnow)
    BY <1>1, <1>3 DEF HistorySettled, AdmittedIn
  <2>2. AdmittedIn(a, rnow) * Window + Refilled <= Full + (rnow - a) * Limit
    BY <1>1, <1>3, RateAssumption DEF BucketPays
  <2>3. (rnow - a) * Limit <= (b - a) * Limit /\ (rnow - a) * Limit \in Nat
    <3>1. PICK d \in Nat, n \in Nat : d = b - rnow /\ n = rnow - a /\ b - a = n + d
      BY <1>1, <1>3, RateAssumption
    <3>2. n * Limit \in Nat /\ d * Limit \in Nat /\ (n + d) * Limit = n * Limit + d * Limit
      BY <3>1, RateAssumption
    <3>3. QED
      BY <3>1, <3>2
  <2>4. AdmittedIn(a, rnow) * Window \in Int
    BY <1>1, CountsTyped, PartsArithmetic
  <2>5. Refilled \in Nat
    BY RefilledTyped, PartsArithmetic
  <2>6. QED
    BY <1>1, <2>1, <2>2, <2>3, <2>4, <2>5, PartsArithmetic
<1>4. CASE a > rnow
  <2>1. AdmittedIn(a, b) = 0
    <3>1. a # 0 /\ a - 1 \in 0..RateTime /\ a - 1 >= rnow /\ b >= rnow
      BY <1>1, <1>4, RateAssumption
    <3>2. admitted[b] = admitted[a - 1] /\ admitted[b] \in Nat
      BY <3>1 DEF HistorySettled, RateTypeOK
    <3>3. QED
      BY <3>1, <3>2 DEF AdmittedIn
  <2>2. QED
    BY <1>1, <2>1, PartsArithmetic
<1>5. QED
  BY <1>1, <1>2, <1>3, <1>4, RateAssumption

(* INSERT ... ON CONFLICT DO NOTHING: a new row is full, and nothing was   *)
(* admitted before.                                                        *)
LEMMA SeedStep == ASSUME RateInv, NEW p \in Caller, Seed(p) PROVE RateInv'
<1> USE DEF RateInv
<1>1. CASE bucket.seeded
  <2>1. UNCHANGED <<rnow, bucket, admitted>>
    BY <1>1 DEF Seed, Seeded
  <2>2. QED
    BY <2>1 DEF RateTypeOK, HistorySettled, BucketPays, AdmissionBounded, AdmittedIn, Refilled
<1>2. CASE ~bucket.seeded
  <2>1. /\ rnow' = rnow /\ admitted' = admitted
        /\ bucket' = [seeded |-> TRUE, tokens |-> Full, last |-> rnow]
    BY <1>2 DEF Seed, Seeded
  <2>2. RateTypeOK'
    BY <2>1, PartsArithmetic, RateAssumption DEF RateTypeOK
  <2>3. HistorySettled'
    BY <2>1 DEF HistorySettled
  <2>4. \A a, b \in 0..RateTime : AdmittedIn(a, b) = 0 /\ AdmittedIn(a, b)' = AdmittedIn(a, b)
    BY <1>2, <2>1, RateAssumption DEF HistorySettled, AdmittedIn
  <2>5. BucketPays'
    <3> SUFFICES ASSUME NEW a \in 0..rnow
                 PROVE  AdmittedIn(a, rnow)' * Window + Refilled' <= Full + (rnow - a) * Limit
      BY <2>1 DEF BucketPays
    <3>1. a \in 0..RateTime /\ rnow \in 0..RateTime /\ rnow - a \in Nat
      BY RateAssumption DEF RateTypeOK
    <3>2. AdmittedIn(a, rnow)' = 0
      BY <2>1, <2>4, <3>1 DEF AdmittedIn
    <3>3. Refilled' = Full
      <4>1. bucket'.tokens = Full /\ bucket'.last = rnow /\ rnow' = rnow /\ (rnow - rnow) * Limit = 0
        BY <2>1, <3>1, PartsArithmetic
      <4>2. QED
        BY <4>1, PartsArithmetic DEF Refilled
    <3>4. (rnow - a) * Limit \in Nat
      BY <3>1, PartsArithmetic
    <3>5. QED
      BY <3>2, <3>3, <3>4, PartsArithmetic
  <2>6. AdmissionBounded'
    BY <2>4 DEF AdmissionBounded
  <2>7. QED
    BY <2>2, <2>3, <2>5, <2>6
<1>3. QED
  BY <1>1, <1>2

(* A request that is admitted pays Window parts.                           *)
LEMMA TakeStep == ASSUME RateInv, NEW p \in Caller, Take(p) PROVE RateInv'
<1> USE DEF RateInv
<1>1. /\ rnow' = rnow
      /\ bucket' = [seeded |-> TRUE, tokens |-> Refilled - Window, last |-> rnow]
      /\ admitted' = [t \in 0..RateTime |-> IF t < rnow THEN admitted[t] ELSE admitted[t] + 1]
      /\ bucket.tokens >= Window
  BY DEF Take, Affordable
<1>2. rnow \in 0..RateTime /\ rnow \in Nat
  BY RateAssumption DEF RateTypeOK
<1>3. Refilled - Window \in 0..Full
  <2>1. Refilled \in 0..Full /\ (rnow - bucket.last) * Limit \in Nat
    BY RefilledTyped
  <2>2. Refilled >= Window
    BY <1>1, <2>1, PartsArithmetic DEF Refilled, RateTypeOK
  <2>3. QED
    BY <2>1, <2>2, PartsArithmetic
<1>4. RateTypeOK'
  BY <1>1, <1>2, <1>3 DEF RateTypeOK
<1>5. HistorySettled'
  BY <1>1, <1>2, RateAssumption DEF HistorySettled, RateTypeOK
<1>6. Refilled' = Refilled - Window
  <2>1. bucket'.tokens = Refilled - Window /\ bucket'.last = rnow /\ rnow' = rnow
    BY <1>1
  <2>2. rnow - rnow = 0 /\ (rnow - rnow) * Limit = 0
    BY <1>2, PartsArithmetic
  <2>3. Refilled' = IF Refilled - Window + 0 < Full THEN Refilled - Window + 0 ELSE Full
    BY <2>1, <2>2 DEF Refilled
  <2>4. QED
    BY <1>3, <2>3, PartsArithmetic
<1>7. BucketPays'
  <2> SUFFICES ASSUME NEW a \in 0..rnow
               PROVE  AdmittedIn(a, rnow)' * Window + Refilled' <= Full + (rnow - a) * Limit
    BY <1>1 DEF BucketPays
  <2>1. a \in 0..RateTime /\ rnow - a \in Nat /\ (rnow - a) * Limit \in Nat
    BY <1>2, PartsArithmetic, RateAssumption
  <2>2. AdmittedIn(a, rnow)' = AdmittedIn(a, rnow) + 1
    <3>1. admitted'[rnow] = admitted[rnow] + 1 /\ admitted[rnow] \in Nat
      BY <1>1, <1>2 DEF RateTypeOK
    <3>2. a # 0 => admitted'[a - 1] = admitted[a - 1] /\ admitted[a - 1] \in Nat
      BY <1>1, <1>2, <2>1, RateAssumption DEF RateTypeOK
    <3>3. QED
      BY <1>1, <3>1, <3>2 DEF AdmittedIn
  <2>3. AdmittedIn(a, rnow) \in Int
    BY <1>2, <2>1, CountsTyped
  <2>4. AdmittedIn(a, rnow) * Window + Refilled <= Full + (rnow - a) * Limit
    BY DEF BucketPays
  <2>5. QED
    BY <1>6, <2>1, <2>2, <2>3, <2>4, RefilledTyped, PartsArithmetic
<1>8. ASSUME NEW a \in 0..RateTime, NEW b \in 0..RateTime, a <= b, b < rnow
      PROVE  AdmittedIn(a, b)' * Window <= Full + (b - a) * Limit
  <2>1. admitted'[b] = admitted[b]
    BY <1>1, <1>8
  <2>2. a # 0 => admitted'[a - 1] = admitted[a - 1]
    BY <1>1, <1>2, <1>8, RateAssumption
  <2>3. AdmittedIn(a, b)' = AdmittedIn(a, b)
    BY <2>1, <2>2 DEF AdmittedIn
  <2>4. QED
    BY <1>8, <2>3 DEF AdmissionBounded
<1>9. AdmissionBounded'
  <2>1. PastBounded'
    BY <1>1, <1>8 DEF PastBounded
  <2>2. QED
    BY <1>4, <1>5, <1>7, <2>1, BoundFromBucket, PTL
<1>10. QED
  BY <1>4, <1>5, <1>7, <1>9

(* The clock: a time unit refills Limit parts at most.                     *)
LEMMA TickStep == ASSUME RateInv, RLTick PROVE RateInv'
<1> USE DEF RateInv
<1>1. rnow' = rnow + 1 /\ rnow < RateTime /\ bucket' = bucket /\ admitted' = admitted
  BY DEF RLTick
<1>2. rnow \in 0..RateTime /\ rnow' \in 0..RateTime /\ rnow \in Nat
  BY <1>1, RateAssumption DEF RateTypeOK
<1>3. RateTypeOK'
  <2>1. 0..rnow \subseteq 0..rnow'
    BY <1>1, <1>2
  <2>2. QED
    BY <1>1, <1>2, <2>1 DEF RateTypeOK
<1>4. HistorySettled'
  <2>1. ASSUME NEW t \in 0..RateTime, t >= rnow + 1 PROVE admitted[t] = admitted[rnow + 1]
    BY <1>1, <1>2, <2>1, RateAssumption DEF HistorySettled
  <2>2. QED
    BY <1>1, <2>1 DEF HistorySettled
<1>5. Refilled' \in 0..Full /\ Refilled' <= Refilled + Limit
  <2>1. rnow - bucket.last \in Nat /\ (rnow + 1) - bucket.last = (rnow - bucket.last) + 1
    BY <1>2 DEF RateTypeOK
  <2>2. (rnow' - bucket.last) * Limit = (rnow - bucket.last) * Limit + Limit
    <3>1. PICK n \in Nat : n = rnow - bucket.last
      BY <2>1
    <3>2. rnow' - bucket.last = n + 1
      BY <1>1, <2>1, <3>1, Zenon
    <3>3. (n + 1) * Limit = n * Limit + Limit
      BY PartsArithmetic
    <3>4. QED
      BY <3>1, <3>2, <3>3, Zenon
  <2>3. PICK x \in Nat, k \in Nat : x = (rnow - bucket.last) * Limit /\ k = bucket.tokens
    BY RefilledTyped, PartsArithmetic DEF RateTypeOK
  <2>4. /\ Refilled = IF k + x < Full THEN k + x ELSE Full
        /\ Refilled' = IF k + (x + Limit) < Full THEN k + (x + Limit) ELSE Full
    BY <1>1, <2>2, <2>3 DEF Refilled
  <2>5. QED
    BY <2>3, <2>4, PartsArithmetic
<1>6. \A a, b \in 0..RateTime : AdmittedIn(a, b)' = AdmittedIn(a, b)
  BY <1>1 DEF AdmittedIn
<1>7. BucketPays'
  <2> SUFFICES ASSUME NEW a \in 0..(rnow + 1)
               PROVE  AdmittedIn(a, rnow + 1) * Window + Refilled' <= Full + (rnow + 1 - a) * Limit
    BY <1>1, <1>2, <1>6 DEF BucketPays, AdmittedIn
  <2>1. CASE a = rnow + 1
    <3>1. AdmittedIn(a, rnow + 1) = 0
      <4>1. admitted[rnow + 1] = admitted[rnow] /\ admitted[rnow] \in Nat
        BY <1>1, <1>2 DEF HistorySettled, RateTypeOK
      <4>2. a # 0 /\ a - 1 = rnow
        BY <1>2, <2>1
      <4>3. AdmittedIn(a, rnow + 1) = admitted[rnow] - admitted[rnow]
        BY <4>1, <4>2, Zenon DEF AdmittedIn
      <4>4. QED
        BY <4>1, <4>3
    <3>2. rnow + 1 - a = 0
      BY <1>2, <2>1
    <3>3. QED
      BY <1>5, <3>1, <3>2, PartsArithmetic
  <2>2. CASE a \in 0..rnow
    <3>1. AdmittedIn(a, rnow + 1) = AdmittedIn(a, rnow)
      BY <1>1, <1>2 DEF HistorySettled, AdmittedIn
    <3>2. AdmittedIn(a, rnow) * Window + Refilled <= Full + (rnow - a) * Limit
      BY <2>2 DEF BucketPays
    <3>3. AdmittedIn(a, rnow) * Window \in Int
      BY <1>2, <2>2, CountsTyped, PartsArithmetic, RateAssumption
    <3>4. /\ (rnow + 1 - a) * Limit = (rnow - a) * Limit + Limit
          /\ (rnow - a) * Limit \in Nat
      <4>1. rnow - a \in Nat /\ rnow + 1 - a = (rnow - a) + 1
        BY <1>2, <2>2
      <4>2. QED
        BY <4>1, PartsArithmetic
    <3>5. QED
      BY <1>5, <3>1, <3>2, <3>3, <3>4, RefilledTyped, PartsArithmetic
  <2>3. QED
    BY <1>2, <2>1, <2>2
<1>8. AdmissionBounded'
  BY <1>6 DEF AdmissionBounded
<1>9. QED
  BY <1>3, <1>4, <1>7, <1>8

(* Every step keeps the invariant.                                         *)
LEMMA RateInvStep == RateInv /\ [RLNext]_rlvars => RateInv'
<1> SUFFICES ASSUME RateInv, [RLNext]_rlvars PROVE RateInv'
  OBVIOUS
<1>1. ASSUME UNCHANGED <<rnow, bucket, admitted>> PROVE RateInv'
  BY <1>1 DEF RateInv, RateTypeOK, HistorySettled, BucketPays, AdmissionBounded, AdmittedIn, Refilled
<1>2. ASSUME NEW p \in Caller, Refuse(p) \/ Fail(p) PROVE RateInv'
  BY <1>1, <1>2 DEF Refuse, Fail
<1>3. QED
  BY <1>1, <1>2, SeedStep, TakeStep, TickStep DEF RLNext, rlvars

(* No stretch of time admits more than a full bucket and its refill, for   *)
(* every limit and window and any number of requests in flight.            *)
THEOREM AdmissionStaysBounded == RLSpec => []AdmissionBounded
<1>1. RateInv => AdmissionBounded
  BY DEF RateInv
<1>2. QED
  BY <1>1, RateInvInit, RateInvStep, PTL DEF RLSpec

=============================================================================
