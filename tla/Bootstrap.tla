------------------------------ MODULE Bootstrap ------------------------------
(***************************************************************************)
(* First boot: setup tokens and the first instance admin.                  *)
(*   internal/bootstrap/bootstrap.go          IsFirstBoot, MintSetupToken, *)
(*       RedeemSetupToken, createFirstInstanceAdmin, RevokeSetupToken      *)
(*   internal/httpserver/setup_handlers.go    setupComplete                *)
(*   cmd/cypra/main.go                        adminResetBootstrap          *)
(* An operator's reset and the browsers that complete the setup run        *)
(* concurrently; each statement outside createFirstInstanceAdmin commits   *)
(* on its own.                                                             *)
(***************************************************************************)
EXTENDS Naturals, FiniteSets

CONSTANTS
    Token,     \* setup tokens that can be drawn
    Proc,      \* resets and setups that can be in flight at once
    NoToken,
    TTL,       \* SetupTokenTTL, 24 hours
    MaxTime    \* bound on the clock

ASSUME BootAssumption ==
    /\ NoToken \notin Token
    /\ TTL \in Nat \ {0} /\ MaxTime \in Nat

VARIABLES
    now,       \* the clock
    minted,    \* rows of bootstrap_tokens
    consumed,  \* consumed_at IS NOT NULL
    revoked,   \* revoked_at IS NOT NULL
    expires,   \* expires_at
    admins,    \* instance_admins created, each named by its setup token
    keyed,     \* admins whose passkey was stored
    run,       \* what each process does, and with which token
    redeemers  \* history: the processes that redeemed each token

tokenVars == <<minted, consumed, revoked, expires>>
vars == <<now, tokenVars, admins, keyed, run, redeemers>>

(***************************************************************************)
(* pc: "reset" the live tokens are revoked; "minting" IsFirstBoot held,    *)
(* the token is not inserted; "redeemed" RedeemSetupToken is done;         *)
(* "counted" createFirstInstanceAdmin saw no admin; "claimed" it has       *)
(* updated the token and not committed; "created" it committed.            *)
(***************************************************************************)
Places == {"idle", "reset", "minting", "redeemed", "counted", "claimed", "created"}

Run == [pc : Places, tok : Token \cup {NoToken}]

At(where, t) == [pc |-> where, tok |-> t]

Idle == At("idle", NoToken)

(* consumed_at IS NULL AND revoked_at IS NULL                              *)
Open == minted \ (consumed \cup revoked)

(* Fault: consumed_at is not looked at.                                    *)
Redeemable_Again(t) == t \in minted \ revoked /\ expires[t] > now

(* Fault: revoked_at is not looked at.                                     *)
Redeemable_Withdrawn(t) == t \in minted \ consumed /\ expires[t] > now

(* The WHERE clause of RedeemSetupToken and ValidateSetupToken.            *)
Redeemable(t) == t \in Open /\ expires[t] > now

IsFirstBoot == admins = {} /\ \A t \in Token : ~Redeemable(t)

(* The WHERE clause of the claim in createFirstInstanceAdmin.              *)
Claimable(t) == t \in consumed \ revoked /\ expires[t] > now

Init ==
    /\ now = 0
    /\ minted = {} /\ consumed = {} /\ revoked = {}
    /\ expires = [t \in Token |-> 0]
    /\ admins = {} /\ keyed = {}
    /\ run = [p \in Proc |-> Idle]
    /\ redeemers = [t \in Token |-> {}]

-----------------------------------------------------------------------------
(* Fault: the unique index is missing.                                     *)
OneLive_Missing == TRUE

(* bootstrap_tokens_one_live_idx admits one token that is neither consumed *)
(* nor revoked, expired or not.                                            *)
OneLive == Open = {}

(* RevokeSetupToken: its UPDATE.                                           *)
ResetBootstrap(p) ==
    /\ run[p].pc = "idle"
    /\ revoked' = revoked \cup Open
    /\ run' = [run EXCEPT ![p] = At("reset", NoToken)]
    /\ UNCHANGED <<now, minted, consumed, expires, admins, keyed, redeemers>>

(* IsFirstBoot, which MintSetupToken asks again.                           *)
CheckFirstBoot(p) ==
    /\ run[p].pc = "reset"
    /\ IsFirstBoot
    /\ run' = [run EXCEPT ![p] = At("minting", NoToken)]
    /\ UNCHANGED <<now, tokenVars, admins, keyed, redeemers>>

RefuseReset(p) ==
    /\ run[p].pc = "reset"
    /\ ~IsFirstBoot
    /\ run' = [run EXCEPT ![p] = Idle]
    /\ UNCHANGED <<now, tokenVars, admins, keyed, redeemers>>

(* MintSetupToken: the INSERT.                                             *)
MintSetupToken(p, t) ==
    /\ run[p].pc = "minting"
    /\ OneLive
    /\ t \notin minted
    /\ minted' = minted \cup {t}
    /\ expires' = [expires EXCEPT ![t] = now + TTL]
    /\ run' = [run EXCEPT ![p] = Idle]
    /\ UNCHANGED <<now, consumed, revoked, admins, keyed, redeemers>>

(* setupComplete, after the passkey ceremony: RedeemSetupToken.            *)
RedeemSetupToken(p, t) ==
    /\ run[p].pc = "idle"
    /\ Redeemable(t)
    /\ consumed' = consumed \cup {t}
    /\ run' = [run EXCEPT ![p] = At("redeemed", t)]
    /\ redeemers' = [redeemers EXCEPT ![t] = @ \cup {p}]
    /\ UNCHANGED <<now, minted, revoked, expires, admins, keyed>>

(* createFirstInstanceAdmin: the number of instance admins is read.        *)
CountAdmins(p) ==
    /\ run[p].pc = "redeemed"
    /\ run' = [run EXCEPT ![p] = IF admins = {} THEN At("counted", run[p].tok) ELSE Idle]
    /\ UNCHANGED <<now, tokenVars, admins, keyed, redeemers>>

(* createFirstInstanceAdmin: the claim of the token, or its refusal.       *)
ClaimToken(p) ==
    /\ run[p].pc = "counted"
    /\ \A q \in Proc \ {p} : run[q] # At("claimed", run[p].tok)
    /\ run' = [run EXCEPT ![p] = IF Claimable(run[p].tok) THEN At("claimed", run[p].tok)
                                                           ELSE Idle]
    /\ UNCHANGED <<now, tokenVars, admins, keyed, redeemers>>

(* createFirstInstanceAdmin: the INSERT and the commit.                    *)
CreateAdmin(p) ==
    /\ run[p].pc = "claimed"
    /\ revoked' = revoked \cup {run[p].tok}
    /\ admins' = admins \cup {run[p].tok}
    /\ run' = [run EXCEPT ![p] = At("created", run[p].tok)]
    /\ UNCHANGED <<now, minted, consumed, expires, keyed, redeemers>>

(* setupComplete: the passkey, the backup codes and the session.           *)
StoreCredential(p) ==
    /\ run[p].pc = "created"
    /\ keyed' = keyed \cup {run[p].tok}
    /\ run' = [run EXCEPT ![p] = Idle]
    /\ UNCHANGED <<now, tokenVars, admins, redeemers>>

(* A statement fails or the server dies; an open transaction rolls back.   *)
Abort(p) ==
    /\ run[p].pc # "idle"
    /\ run' = [run EXCEPT ![p] = Idle]
    /\ UNCHANGED <<now, tokenVars, admins, keyed, redeemers>>

Tick ==
    /\ now < MaxTime
    /\ now' = now + 1
    /\ UNCHANGED <<tokenVars, admins, keyed, run, redeemers>>

Next ==
    \/ \E p \in Proc :
          \/ ResetBootstrap(p) \/ CheckFirstBoot(p) \/ RefuseReset(p)
          \/ CountAdmins(p) \/ ClaimToken(p) \/ CreateAdmin(p) \/ StoreCredential(p)
          \/ Abort(p)
    \/ \E p \in Proc, t \in Token : MintSetupToken(p, t) \/ RedeemSetupToken(p, t)
    \/ Tick

Spec == Init /\ [][Next]_vars

-----------------------------------------------------------------------------
(* Tokens are consumed or revoked only after they were minted; at most one *)
(* is open, which is the unique index.                                     *)
BootTypeOK ==
    /\ now \in 0..MaxTime
    /\ minted \subseteq Token /\ consumed \subseteq minted /\ revoked \subseteq minted
    /\ expires \in [Token -> Nat]
    /\ keyed \subseteq admins /\ admins \subseteq consumed
    /\ run \in [Proc -> Run]
    /\ redeemers \in [Token -> SUBSET Proc]
    /\ Cardinality(Open) <= 1

(* A setup token is single-use: whoever presents it, however requests race *)
(* with a reset, one request at most gets its id.                          *)
RedeemedOnce == \A t \in Token : Cardinality(redeemers[t]) <= 1

(* A token a reset revoked before it was redeemed never becomes an admin.  *)
ResetWithdraws ==
    [][\A t \in revoked \ admins : t \notin consumed => t \notin consumed']_vars

(* ADR-0006: after the first admin is created, bootstrap is permanently    *)
(* unavailable: no second admin comes out of it.                           *)
ClosedByFirstAdmin ==
    [][admins' # admins => admins = {}]_vars

=============================================================================
