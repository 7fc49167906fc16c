---------------------------- MODULE UserDialogs ----------------------------
(***************************************************************************)
(* UsersTab's dialogs for an account: PasswordReset and RoleDialog, which  *)
(* share selectedAccount.  One of them is open at a time, and opening any  *)
(* dialog, the consents included, selects its account for all of them;     *)
(* but what a closed dialog has sent, and what Sudo Mode holds for it,     *)
(* goes on, and ends while another dialog is open for another account.     *)
(***************************************************************************)
EXTENDS Naturals, FiniteSets

CONSTANTS
    Accounts, Self, NoAccount,
    Passwords, Blank, Old, MaxSubmits,     \* PasswordReset
    Roles, NoRole, Slots, Free, MaxOps,    \* RoleDialog
    MaxMixed   \* bound: submits and operations when there are both

VARIABLES
    selectedAccount,
    \* PasswordReset
    password, showPasswordModal, newPassword, notice, timer, heldResets, requests,
    submitted, submits,
    \* RoleDialog
    roles, rows, shown, showRoleModal, newRoleInput, heldOps, running, asked, ops,
    undisturbed

Password == INSTANCE PasswordReset WITH waiting <- heldResets

Role == INSTANCE RoleDialog WITH waiting <- heldOps

ASSUME DialogsAssumption ==
    /\ Password!PasswordsAssumption
    /\ Role!RolesAssumption
    /\ MaxMixed \in Nat

passwordVars == <<password, showPasswordModal, newPassword, notice, timer, heldResets, requests,
                  submitted, submits>>
roleVars == <<roles, rows, shown, showRoleModal, newRoleInput, heldOps, running, asked, ops,
              undisturbed>>
vars == <<selectedAccount, passwordVars, roleVars>>

TypeOK == Password!TypeOK /\ Role!TypeOK

Init == Password!Init /\ Role!Init

-----------------------------------------------------------------------------

\* handleOpenPasswordModal.
OpenPasswordModal(a) == Password!OpenPasswordModal(a) /\ Role!OpenOtherModal(a)

\* handleOpenRoleModal.
OpenRoleModal(a) == Password!OpenOtherModal(a) /\ Role!OpenRoleModal(a)

\* handleOpenConsentModal.
OpenConsentModal(a) == Password!OpenOtherModal(a) /\ Role!OpenOtherModal(a)

Mixed == submits' > 0 /\ ops' > 0 => submits' + ops' <= MaxMixed

PasswordStep == Password!Proceed /\ UNCHANGED roleVars /\ Mixed

RoleStep == Role!Proceed /\ UNCHANGED passwordVars /\ Mixed

Next ==
    \/ \E a \in Accounts : OpenPasswordModal(a) \/ OpenRoleModal(a) \/ OpenConsentModal(a)
    \/ PasswordStep
    \/ RoleStep

Spec == Init /\ [][Next]_vars

\* What a dialog awaits.
AwaitedReset ==
    /\ \E q \in requests : q.awaited /\ (Password!ResetSucceeds(q) \/ Password!ResetFails(q))
    /\ UNCHANGED roleVars

AwaitedRole ==
    /\ \E s \in Slots :
           /\ running[s] # Free /\ running[s].awaited
           /\ \/ Role!ApplyChange(s) \/ Role!ReadRoles(s) \/ Role!AnswerRoles(s)
              \/ Role!Succeeds(s) \/ Role!Fails(s)
    /\ UNCHANGED passwordVars

\* An awaited request is answered or fails, what follows the await runs, and timers fire.
Fairness ==
    /\ WF_vars(Password!TimerFires /\ UNCHANGED roleVars)
    /\ WF_vars(AwaitedReset)
    /\ WF_vars(AwaitedRole)

FairSpec == Spec /\ Fairness

-----------------------------------------------------------------------------

\* A password is only ever set for the account whose name the modal showed when it
\* was submitted, whatever dialog is open for whom while Sudo Mode asks.
RightAccount == Password!RightAccount

\* The modal awaits one reset at a time, and then shows no outcome.
OneAwaited == Password!OneAwaited

\* The password modal becomes usable again after every submit.
ModalUnlocks == Password!ModalUnlocks

\* A role is only given to or taken from an account as it was asked for in the
\* dialog of that account.
OnlyAskedChanges == Role!OnlyAskedChanges

\* Whatever roles the dialog shows under whose name, the administrator who uses
\* the console neither gains nor loses one.
OwnRolesKept == Role!OwnRolesKept

\* While nothing overlaps or fails, the role dialog shows the roles of its account
\* once an operation is over, also after another dialog was open meanwhile.
ShownIsCurrent == Role!ShownIsCurrent

\* The Assign button is given back.
AssigningEnds == Role!AssigningEnds

=============================================================================
