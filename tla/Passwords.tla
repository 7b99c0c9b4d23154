------------------------------ MODULE Passwords ------------------------------
(***************************************************************************)
(* Passwords and the reset of a forgotten one.                             *)
(*   internal/auth/password/password.go     SetPassword, Verify,           *)
(*       IssueResetToken, ResetPassword, RevokeLiveResetTokens             *)
(*   internal/httpserver/auth_handlers.go   authPasswordSignup,            *)
(*       authPasswordSignin, authPasswordReset                             *)
(*   internal/httpserver/hostedlogin_handlers.go  hostedPasswordSignIn,    *)
(*       hostedPasswordReset, hostedSignupPassword                         *)
(* ResetPassword is one transaction: it holds the row of its token from    *)
(* its first statement and the row of the password from its second.  Its   *)
(* third finds the account's other live tokens when it starts, and waits   *)
(* for the rows of those that other resets hold: a token issued meanwhile  *)
(* is not among them.                                                      *)
(***************************************************************************)
EXTENDS Naturals, FiniteSets

CONSTANTS
    Account,     \* users
    Secret,      \* passwords; those a tenant's policy refuses are in Weak
    Weak,
    ResetToken,  \* reset tokens that can be drawn
    Handler,     \* requests that can be in flight at once
    Unset        \* no password, no account, no token

ASSUME PasswordsAssumption ==
    /\ Weak \subseteq Secret
    /\ Unset \notin Account \cup Secret \cup ResetToken

VARIABLES
    hashed,   \* password_credentials: the password of each account
    resetFor, \* password_reset_tokens.user_id
    used,     \* consumed_at IS NOT NULL
    barred,   \* revoked_at IS NOT NULL
    lapsed,   \* expires_at has passed
    mailed,   \* tokens the outbox holds a mail for
    handling, \* what each request is doing
    setBy,    \* history: tokens whose password was committed
    before    \* history: the resets that had begun to sweep when each was issued

resetVars == <<resetFor, used, barred, lapsed, mailed>>
pwvars == <<hashed, resetVars, handling, setBy, before>>

(***************************************************************************)
(* pc: "mailing" a token was issued and its mail is not queued; "verified" *)
(* a sign-in found the password right; "consumed", "written" and "swept"   *)
(* the statements ResetPassword has done, "set" the first of SetPassword;  *)
(* "sweeping" and "revoking" their UPDATE of the other tokens is under way *)
(* and has found those of its snapshot.                                    *)
(***************************************************************************)
Stages == {"idle", "mailing", "verified", "consumed", "written", "sweeping", "swept",
           "set", "revoking"}

Handling == [pc : Stages, acc : Account \cup {Unset}, tok : ResetToken \cup {Unset},
             pw : Secret \cup {Unset}, found : SUBSET ResetToken]

NoHandling == [pc |-> "idle", acc |-> Unset, tok |-> Unset, pw |-> Unset, found |-> {}]

Moves(h, where) == handling' = [handling EXCEPT ![h].pc = where]

Ends(h) == handling' = [handling EXCEPT ![h] = NoHandling]

InReset(h) == handling[h].pc \in {"consumed", "written", "sweeping", "swept"}

(* The rows open transactions hold.                                        *)
TokenHeld(t, h) ==
    \E g \in Handler \ {h} : \/ InReset(g) /\ t = handling[g].tok
                             \/ handling[g].pc = "swept" /\ t \in handling[g].found

PasswordHeld(a, h) ==
    \E g \in Handler \ {h} :
        handling[g].pc \in {"written", "sweeping", "swept"} /\ handling[g].acc = a

Unspent(t) == resetFor[t] # Unset /\ t \notin used \cup barred

Siblings(a) == {t \in ResetToken : resetFor[t] = a /\ Unspent(t)}

(* PasswordPolicy.Validate and the list of common passwords.               *)
Validate(pw) == pw \notin Weak

PWInit ==
    /\ hashed = [a \in Account |-> Unset]
    /\ resetFor = [t \in ResetToken |-> Unset]
    /\ used = {} /\ barred = {} /\ lapsed = {} /\ mailed = {}
    /\ handling = [h \in Handler |-> NoHandling]
    /\ setBy = {} /\ before = [t \in ResetToken |-> {}]

-----------------------------------------------------------------------------
(* IssueResetToken.                                                        *)
IssueResetToken(h, a, t) ==
    /\ handling[h].pc = "idle"
    /\ resetFor[t] = Unset
    /\ resetFor' = [resetFor EXCEPT ![t] = a]
    /\ before' = [before EXCEPT ![t] = setBy \cup
           {handling[g].tok : g \in {g \in Handler : handling[g].pc \in {"sweeping", "swept"}}}]
    /\ handling' = [handling EXCEPT ![h] = [NoHandling EXCEPT !.pc = "mailing", !.tok = t]]
    /\ UNCHANGED <<hashed, used, barred, lapsed, mailed, setBy>>

(* hostedPasswordReset: the mail, a statement of its own.                  *)
QueueMail(h) ==
    /\ handling[h].pc = "mailing"
    /\ mailed' = mailed \cup {handling[h].tok}
    /\ Ends(h)
    /\ UNCHANGED <<hashed, resetFor, used, barred, lapsed, setBy, before>>

(* ResetPassword: its first UPDATE; the token was mailed.                  *)
ConsumeResetToken(h, t, pw) ==
    /\ handling[h].pc = "idle"
    /\ t \in mailed \ lapsed
    /\ Unspent(t) /\ ~TokenHeld(t, h)
    /\ handling' = [handling EXCEPT ![h] =
           [pc |-> "consumed", acc |-> resetFor[t], tok |-> t, pw |-> pw, found |-> {}]]
    /\ UNCHANGED <<hashed, resetVars, setBy, before>>

(* ResetPassword: the policy refuses the password; rollback.               *)
RefusePassword(h) ==
    /\ handling[h].pc = "consumed"
    /\ ~Validate(handling[h].pw)
    /\ Ends(h)
    /\ UNCHANGED <<hashed, resetVars, setBy, before>>

(* ResetPassword: the INSERT ... ON CONFLICT of the password.              *)
UpsertPassword(h) ==
    /\ handling[h].pc = "consumed"
    /\ Validate(handling[h].pw)
    /\ ~PasswordHeld(handling[h].acc, h)
    /\ Moves(h, "written")
    /\ UNCHANGED <<hashed, resetVars, setBy, before>>

AuthPasswordReset(h, t, pw) == ConsumeResetToken(h, t, pw)

(* With an address a token is issued, with a token the password is reset.  *)
HostedPasswordReset(h, a, t, pw) == IssueResetToken(h, a, t) \/ ConsumeResetToken(h, t, pw)

(* The UPDATE that revokes the account's other tokens starts: those of its *)
(* snapshot, the ones other resets have consumed and not committed too.    *)
BeginSweep(h) ==
    /\ handling[h].pc = "written"
    /\ handling' = [handling EXCEPT
           ![h].pc = "sweeping", ![h].found = Siblings(handling[h].acc) \ {handling[h].tok}]
    /\ UNCHANGED <<hashed, resetVars, setBy, before>>

(* Fault: tokens that another reset holds are skipped.                     *)
SweepReady_Skip(h) == TRUE

(* The UPDATE waits for the tokens it found that other resets hold.        *)
SweepReady(h) == \A t \in handling[h].found : ~TokenHeld(t, h)

(* It revokes those still unspent, and holds their rows until the commit.  *)
SweepTokens(h) ==
    /\ handling[h].pc = "sweeping"
    /\ SweepReady(h)
    /\ handling' = [handling EXCEPT
           ![h].pc = "swept", ![h].found = {t \in handling[h].found : Unspent(t)}]
    /\ UNCHANGED <<hashed, resetVars, setBy, before>>

CommitReset(h) ==
    /\ handling[h].pc = "swept"
    /\ hashed' = [hashed EXCEPT ![handling[h].acc] = handling[h].pw]
    /\ used' = used \cup {handling[h].tok}
    /\ barred' = barred \cup handling[h].found
    /\ setBy' = setBy \cup {handling[h].tok}
    /\ Ends(h)
    /\ UNCHANGED <<resetFor, lapsed, mailed, before>>

(***************************************************************************)
(* Two resets of an account wait for each other: the one for the password, *)
(* the other for the token of the first.  The database ends one of them.   *)
(***************************************************************************)
Deadlocked(g, h) ==
    /\ handling[g].pc = "sweeping" /\ handling[h].pc = "consumed"
    /\ handling[h].tok \in handling[g].found /\ Validate(handling[h].pw)

BreakDeadlock(g, h) ==
    /\ Deadlocked(g, h)
    /\ \E loser \in {g, h} : Ends(loser)
    /\ UNCHANGED <<hashed, resetVars, setBy, before>>

-----------------------------------------------------------------------------
(* SetPassword, of a sign-up or an invite: the password is written.        *)
SetPassword(h, a, pw) ==
    /\ handling[h].pc = "idle"
    /\ Validate(pw) /\ ~PasswordHeld(a, h)
    /\ hashed' = [hashed EXCEPT ![a] = pw]
    /\ handling' = [handling EXCEPT ![h] = [NoHandling EXCEPT !.pc = "set", !.acc = a]]
    /\ UNCHANGED <<resetVars, setBy, before>>

(* RevokeLiveResetTokens, the second statement of SetPassword, finds the   *)
(* account's live tokens when it starts.                                   *)
BeginRevoke(h) ==
    /\ handling[h].pc = "set"
    /\ handling' = [handling EXCEPT
           ![h].pc = "revoking", ![h].found = Siblings(handling[h].acc)]
    /\ UNCHANGED <<hashed, resetVars, setBy, before>>

RevokeLiveResetTokens(h) ==
    /\ handling[h].pc = "revoking"
    /\ SweepReady(h)
    /\ barred' = barred \cup {t \in handling[h].found : Unspent(t)}
    /\ Ends(h)
    /\ UNCHANGED <<hashed, resetFor, used, lapsed, mailed, setBy, before>>

(* Verify, for an address that is known.                                   *)
Verify(h, a, pw) ==
    /\ handling[h].pc = "idle"
    /\ hashed[a] = pw /\ pw # Unset
    /\ handling' = [handling EXCEPT ![h] =
           [NoHandling EXCEPT !.pc = "verified", !.acc = a, !.pw = pw]]
    /\ UNCHANGED <<hashed, resetVars, setBy, before>>

AuthPasswordSignin(h, a, pw) == Verify(h, a, pw)

HostedPasswordSignIn(h, a, pw) == Verify(h, a, pw)

(* They insert the session, whatever became of the password meanwhile.     *)
SignIn(h) ==
    /\ handling[h].pc = "verified"
    /\ Ends(h)
    /\ UNCHANGED <<hashed, resetVars, setBy, before>>

(* A statement fails or the server dies; a reset rolls back.               *)
AbandonHandler(h) ==
    /\ handling[h].pc # "idle"
    /\ Ends(h)
    /\ UNCHANGED <<hashed, resetVars, setBy, before>>

LapseResetToken(t) ==
    /\ resetFor[t] # Unset /\ t \notin lapsed
    /\ lapsed' = lapsed \cup {t}
    /\ UNCHANGED <<hashed, resetFor, used, barred, mailed, handling, setBy, before>>

PWNext ==
    \/ \E h \in Handler :
          \/ QueueMail(h) \/ RefusePassword(h) \/ UpsertPassword(h)
          \/ BeginSweep(h) \/ SweepTokens(h) \/ CommitReset(h)
          \/ BeginRevoke(h) \/ RevokeLiveResetTokens(h) \/ SignIn(h) \/ AbandonHandler(h)
          \/ \E t \in ResetToken, pw \in Secret :
                \/ AuthPasswordReset(h, t, pw)
                \/ \E a \in Account : HostedPasswordReset(h, a, t, pw)
          \/ \E a \in Account, pw \in Secret :
                \/ SetPassword(h, a, pw)
                \/ AuthPasswordSignin(h, a, pw) \/ HostedPasswordSignIn(h, a, pw)
          \/ \E g \in Handler : BreakDeadlock(g, h)
    \/ \E t \in ResetToken : LapseResetToken(t)

PWSpec == PWInit /\ [][PWNext]_pwvars

-----------------------------------------------------------------------------
(* Of the tokens of an account, two set a password only when one was       *)
(* issued after the reset by the other had begun to revoke its             *)
(* competitors, even if both resets were in flight at once.  One issued    *)
(* while that UPDATE waits for a row escapes it: it survives the reset and *)
(* may set a password again.                                               *)
OneResetWins ==
    \A s, t \in setBy :
        (s # t /\ resetFor[s] = resetFor[t]) => (s \in before[t] \/ t \in before[s])

=============================================================================
