--------------------------- MODULE InstanceAdmins ----------------------------
(***************************************************************************)
(* Instance admins: those the setup creates (Bootstrap), those who are     *)
(* invited, how they sign in, and how they are demoted.                    *)
(*   internal/httpserver/instance_admin_login_handlers.go                  *)
(*   internal/httpserver/phase10_handlers.go   demoteInstanceAdmin         *)
(*   internal/httpserver/auth_handlers.go      instanceInvite,             *)
(*       revokeInstanceInvite, authInviteRedeem                            *)
(*   internal/auth/webauthn/webauthn.go        FinishInstanceAdminAssertion*)
(*   internal/auth/auth.go                     actorFromSessionCookie      *)
(* An admin of the setup is named by the setup token, an invited one by    *)
(* the invitation.  Every one of them is a row that IsFirstBoot counts.    *)
(***************************************************************************)
EXTENDS Bootstrap

CONSTANTS
    Guest,     \* people who can be invited
    Operator   \* sign-ins and demotions in flight at once

ASSUME InstanceAssumption == Guest \cap (Token \cup {NoToken}) = {}

VARIABLES
    invited,   \* guests with an unredeemed invitation that has not expired
    disabled,  \* instance_admins.disabled_at IS NOT NULL
    coded,     \* admins with a backup code left
    signedIn,  \* admins with a live row in instance_admin_sessions
    task       \* what each operator is doing

adminVars == <<invited, disabled, coded, signedIn, task>>
iavars == <<vars, adminVars>>

(***************************************************************************)
(* pc: "known" an enabled admin has the address that came with a backup    *)
(* code; "entering" the credential is accepted, the session is not yet     *)
(* inserted; "counted" more than one admin is enabled.  overlapped: an     *)
(* admin was demoted since.                                                *)
(***************************************************************************)
Free == [pc |-> "idle", who |-> NoToken, overlapped |-> FALSE]

Turns(o, from, where, a) ==
    /\ task[o].pc = from
    /\ task' = [task EXCEPT ![o] = [Free EXCEPT !.pc = where, !.who = a]]

listInstanceAdmins == admins \ disabled

hasInstanceAdmin == listInstanceAdmins # {}

(* hasValidSession: any live session, a demoted admin's too.               *)
hasValidSession == signedIn # {}

(* dashboardSPA: where a browser is led that has, or has not, a session.   *)
dashboardSPA(session) ==
    IF ~hasInstanceAdmin THEN "/setup" ELSE IF session THEN "/dashboard" ELSE "/login"

IAInit ==
    /\ Init
    /\ invited = {} /\ disabled = {} /\ coded = {} /\ signedIn = {}
    /\ task = [o \in Operator |-> Free]

-----------------------------------------------------------------------------
(* A step of the setup.  setupComplete ends with the backup codes and the  *)
(* session, each of which may fail.                                        *)
SetupStep ==
    /\ Next
    /\ \E codes, session \in BOOLEAN :
          /\ session => codes
          /\ coded' = IF codes THEN coded \cup (keyed' \ keyed) ELSE coded
          /\ signedIn' = IF session THEN signedIn \cup (keyed' \ keyed) ELSE signedIn
    /\ UNCHANGED <<invited, disabled, task>>

(* actorFromSessionCookie and RequireInstanceAdmin: any live session, a    *)
(* demoted admin's too.                                                    *)
RequireInstanceAdmin == hasValidSession

Invites(g) ==
    /\ invited' = invited \cup {g}
    /\ UNCHANGED <<vars, disabled, coded, signedIn, task>>

InstanceInvite(g) == RequireInstanceAdmin /\ Invites(g)

(* cypra admin invite: the instance has, or had, an admin.                 *)
AdminInvite(g) == admins # {} /\ Invites(g)

(* revokeInstanceInvite, or the invitation expires.                        *)
RevokeInstanceInvite(g) ==
    /\ g \in invited
    /\ invited' = invited \ {g}
    /\ UNCHANGED <<vars, disabled, coded, signedIn, task>>

(* authInviteRedeem: the admin is created, without a passkey or codes; the *)
(* session may fail.  The address of an admin cannot be used again.        *)
RedeemInstanceInvite(g) ==
    /\ g \in invited \ admins
    /\ invited' = invited \ {g}
    /\ admins' = admins \cup {g}
    /\ signedIn' \in {signedIn, signedIn \cup {g}}
    /\ UNCHANGED <<now, tokenVars, keyed, run, redeemers, disabled, coded, task>>

-----------------------------------------------------------------------------
(* authInstanceAdminLogin: the admin is found by the passkey.              *)
(* loadInstanceAdmin drops the error of a disabled one.                    *)
FinishInstanceAdminAssertion(o, a) ==
    /\ a \in keyed
    /\ Turns(o, "idle", "entering", a)
    /\ UNCHANGED <<vars, invited, disabled, coded, signedIn>>

(* authInstanceAdminBackupCode: only an enabled admin is found.            *)
LookupInstanceAdminID(o, a) ==
    /\ a \in listInstanceAdmins
    /\ Turns(o, "idle", "known", a)
    /\ UNCHANGED <<vars, invited, disabled, coded, signedIn>>

(* ConsumeForInstanceAdmin; the code may be the last.                      *)
ConsumeForInstanceAdmin(o) ==
    /\ task[o].who \in coded
    /\ coded' \in {coded, coded \ {task[o].who}}
    /\ Turns(o, "known", "entering", task[o].who)
    /\ UNCHANGED <<vars, invited, disabled, signedIn>>

EstablishInstanceAdminSession(o) ==
    /\ task[o].pc = "entering"
    /\ signedIn' = signedIn \cup {task[o].who}
    /\ task' = [task EXCEPT ![o] = Free]
    /\ UNCHANGED <<vars, invited, disabled, coded>>

(* Logout, revokeInstanceAdminSession, or the sessions expire.             *)
EndAdminSession(a) ==
    /\ a \in signedIn
    /\ signedIn' = signedIn \ {a}
    /\ UNCHANGED <<vars, invited, disabled, coded, task>>

-----------------------------------------------------------------------------
(* Fault: the admin to be demoted is not left out of the count.            *)
EnoughAdmins_Own == Cardinality(listInstanceAdmins) >= 1

(* demoteInstanceAdmin: count > 1                                          *)
EnoughAdmins == Cardinality(listInstanceAdmins) > 1

(* demoteInstanceAdmin: the count.                                         *)
CountEnabled(o, a) ==
    /\ RequireInstanceAdmin
    /\ EnoughAdmins
    /\ Turns(o, "idle", "counted", a)
    /\ UNCHANGED <<vars, invited, disabled, coded, signedIn>>

(* demoteInstanceAdmin: the UPDATE.  The sessions of the admin stay.       *)
DemoteInstanceAdmin(o) ==
    /\ task[o].pc = "counted"
    /\ disabled' = disabled \cup ({task[o].who} \cap admins)
    /\ task' = [x \in Operator |-> IF x = o THEN Free
                                   ELSE IF task[x].pc = "counted"
                                        THEN [task[x] EXCEPT !.overlapped = TRUE]
                                        ELSE task[x]]
    /\ UNCHANGED <<vars, invited, coded, signedIn>>

(* A statement fails or the server dies.                                   *)
AbandonTask(o) ==
    /\ task[o].pc # "idle"
    /\ task' = [task EXCEPT ![o] = Free]
    /\ UNCHANGED <<vars, invited, disabled, coded, signedIn>>

IANext ==
    \/ SetupStep
    \/ \E g \in Guest :
          \/ InstanceInvite(g) \/ AdminInvite(g)
          \/ RevokeInstanceInvite(g) \/ RedeemInstanceInvite(g)
    \/ \E o \in Operator :
          \/ \E a \in Token : FinishInstanceAdminAssertion(o, a)
          \/ \E a \in Token \cup Guest : LookupInstanceAdminID(o, a) \/ CountEnabled(o, a)
          \/ ConsumeForInstanceAdmin(o) \/ EstablishInstanceAdminSession(o)
          \/ DemoteInstanceAdmin(o) \/ AbandonTask(o)
    \/ \E a \in Token \cup Guest : EndAdminSession(a)

IASpec == IAInit /\ [][IANext]_iavars

-----------------------------------------------------------------------------
(* instance_admin.last_admin: demotions that do not overlap another leave  *)
(* an enabled admin, so that the dashboard never falls back to the setup   *)
(* instructions, which IsFirstBoot would refuse from then on.              *)
LastAdminKept ==
    [][dashboardSPA(TRUE) = "/dashboard" /\ dashboardSPA(TRUE)' = "/setup" =>
         \E o \in Operator : task[o].overlapped /\ task'[o] # task[o]]_iavars

(* The dashboard says that a demoted admin "will lose instance-admin       *)
(* access".                                                                *)
DemotedLosesAccess == disabled \cap signedIn = {}

=============================================================================
