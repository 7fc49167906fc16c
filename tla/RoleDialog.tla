----------------------------- MODULE RoleDialog -----------------------------
(***************************************************************************)
(* Assigning roles to an account and removing them: handleOpenRoleModal,   *)
(* handleAssignRole and handleRemoveRole of UsersTab, and                  *)
(* AssignRolesModal.                                                       *)
(*                                                                         *)
(* Both operations run behind Sudo Mode with the account of the render     *)
(* they were asked in, and then write the roles of that account onto       *)
(* whatever account is selected by then.                                   *)
(***************************************************************************)
EXTENDS Naturals, FiniteSets

CONSTANTS
    Accounts,    \* account ids
    Self,        \* currentAdmin.sub
    NoAccount,
    Roles,
    NoRole,      \* an empty picker
    Slots,       \* bound: operations running at a time
    Free,        \* a slot without an operation
    MaxOps       \* bound: operations asked for

Op == [kind : {"assign", "remove"}, account : Accounts, role : Roles]

\* onSuccess awaits the change, then fetchAccountRoles.  handleAddRoleSubmit
\* awaits onSuccess when Sudo Mode was active.
Run == [op : Op, phase : {"changing", "changed", "reading", "read"},
        answer : SUBSET Roles, awaited : BOOLEAN]

RolesAssumption ==
    /\ Self \in Accounts
    /\ NoAccount \notin Accounts
    /\ NoRole \notin Roles
    /\ Free \notin Run
    /\ MaxOps \in Nat

VARIABLES
    roles,            \* the server's roles of each account
    rows,             \* the roles that the table shows
    selectedAccount,
    shown,            \* selectedAccount.roles
    showRoleModal,
    newRoleInput,
    waiting,          \* operations that Sudo Mode holds
    running,          \* the onSuccess that each slot runs
    \* history
    asked,            \* operations asked for
    ops,              \* how many
    undisturbed       \* the dialog was opened from a current row, and nothing
                      \* overlapped or failed since

vars == <<roles, rows, selectedAccount, shown, showRoleModal, newRoleInput, waiting,
          running, asked, ops, undisturbed>>

server == <<roles, rows>>
dialog == <<selectedAccount, shown, showRoleModal>>

Started(op, awaited) == [op |-> op, phase |-> "changing", answer |-> {}, awaited |-> awaited]

Running == {s \in Slots : running[s] # Free}
Quiet == Running = {} /\ waiting = {}

assigning == \E s \in Running : running[s].awaited

TypeOK ==
    /\ roles \in [Accounts -> SUBSET Roles]
    /\ rows \in [Accounts -> SUBSET Roles]
    /\ selectedAccount \in Accounts \cup {NoAccount}
    /\ shown \subseteq Roles
    /\ showRoleModal \in BOOLEAN
    /\ newRoleInput \in Roles \cup {NoRole}
    /\ waiting \subseteq Op
    /\ running \in [Slots -> Run \cup {Free}]
    /\ asked \subseteq Op
    /\ ops \in 0..MaxOps
    /\ undisturbed \in BOOLEAN

Init ==
    /\ roles \in [Accounts -> SUBSET Roles]
    /\ rows = roles
    /\ selectedAccount = NoAccount
    /\ shown = {}
    /\ showRoleModal = FALSE
    /\ newRoleInput = NoRole
    /\ waiting = {}
    /\ running = [s \in Slots |-> Free]
    /\ asked = {}
    /\ ops = 0
    /\ undisturbed = FALSE

-----------------------------------------------------------------------------

\* handleOpenRoleModal: the row becomes the selected account.
OpenRoleModal(a) ==
    /\ ~showRoleModal
    /\ showRoleModal' = TRUE
    /\ selectedAccount' = a
    /\ shown' = rows[a]
    /\ undisturbed' = (Quiet /\ rows[a] = roles[a])
    /\ UNCHANGED <<server, newRoleInput, waiting, running, asked, ops>>

\* handleOpenPasswordModal, handleOpenConsentModal: another dialog selects an account.
OpenOtherModal(a) ==
    /\ ~showRoleModal
    /\ selectedAccount' = a
    /\ shown' = rows[a]
    /\ undisturbed' = FALSE
    /\ UNCHANGED <<server, showRoleModal, newRoleInput, waiting, running, asked, ops>>

CloseRoleModal ==
    /\ showRoleModal
    /\ showRoleModal' = FALSE
    /\ UNCHANGED <<server, selectedAccount, shown, newRoleInput, waiting, running, asked, ops, undisturbed>>

\* Faulty variant: roles can be changed for the own account.
EditableByAnyone == showRoleModal

\* The form is shown and the Remove buttons are enabled.
Editable == showRoleModal /\ selectedAccount # Self

PickRole(r) ==
    /\ Editable
    /\ newRoleInput' = r
    /\ UNCHANGED <<server, dialog, waiting, running, asked, ops, undisturbed>>

\* requireSudo runs the operation in slot s, or opens its dialog and returns.
RequireSudo(op, s, awaited) ==
    /\ ops < MaxOps
    /\ ops' = ops + 1
    /\ asked' = asked \cup {op}
    /\ undisturbed' = (undisturbed /\ Quiet)
    /\ \/ /\ running[s] = Free
          /\ running' = [running EXCEPT ![s] = Started(op, awaited)]
          /\ UNCHANGED waiting
       \/ /\ waiting' = waiting \cup {op}
          /\ UNCHANGED running

\* handleAddRoleSubmit.  When Sudo Mode only asks, onAssignRole returns as if
\* the role had been assigned and the picker is cleared.
Assign(s) ==
    /\ Editable
    /\ newRoleInput # NoRole /\ ~assigning
    /\ RequireSudo([kind |-> "assign", account |-> selectedAccount, role |-> newRoleInput], s, TRUE)
    /\ newRoleInput' = IF running' # running THEN newRoleInput ELSE NoRole
    /\ UNCHANGED <<server, dialog>>

\* onRemoveRole.  The button stays enabled.
Remove(s, r) ==
    /\ Editable
    /\ r \in shown
    /\ RequireSudo([kind |-> "remove", account |-> selectedAccount, role |-> r], s, FALSE)
    /\ UNCHANGED <<server, dialog, newRoleInput>>

\* Faulty variant: onSuccess takes the account selected when it runs.
RunForSelected(op, s) ==
    /\ op \in waiting /\ running[s] = Free
    /\ waiting' = waiting \ {op}
    /\ running' = [running EXCEPT ![s] = Started([op EXCEPT !.account = selectedAccount], FALSE)]
    /\ undisturbed' = (undisturbed /\ Running = {} /\ waiting = {op})
    /\ UNCHANGED <<server, dialog, newRoleInput, asked, ops>>

\* Sudo Mode calls onSuccess, or its dialog is dismissed.
SudoRuns(op, s) ==
    /\ op \in waiting /\ running[s] = Free
    /\ waiting' = waiting \ {op}
    /\ running' = [running EXCEPT ![s] = Started(op, FALSE)]
    /\ undisturbed' = (undisturbed /\ Running = {} /\ waiting = {op})
    /\ UNCHANGED <<server, dialog, newRoleInput, asked, ops>>

SudoDismissed(op) ==
    /\ op \in waiting
    /\ waiting' = waiting \ {op}
    /\ UNCHANGED <<server, dialog, newRoleInput, running, asked, ops, undisturbed>>

\* External: the server assigns or removes the role.
ApplyChange(s) ==
    /\ s \in Running /\ running[s].phase = "changing"
    /\ LET op == running[s].op
       IN  roles' = [roles EXCEPT ![op.account] =
                        IF op.kind = "assign" THEN @ \cup {op.role} ELSE @ \ {op.role}]
    /\ running' = [running EXCEPT ![s].phase = "changed"]
    /\ UNCHANGED <<rows, dialog, newRoleInput, waiting, asked, ops, undisturbed>>

ReadRoles(s) ==
    /\ s \in Running /\ running[s].phase = "changed"
    /\ running' = [running EXCEPT ![s].phase = "reading"]
    /\ UNCHANGED <<server, dialog, newRoleInput, waiting, asked, ops, undisturbed>>

\* External: the server answers fetchAccountRoles.
AnswerRoles(s) ==
    /\ s \in Running /\ running[s].phase = "reading"
    /\ running' = [running EXCEPT ![s].phase = "read", ![s].answer = roles[running[s].op.account]]
    /\ UNCHANGED <<server, dialog, newRoleInput, waiting, asked, ops, undisturbed>>

\* Faulty variant: the selected account keeps its roles.
SucceedsWithoutRead(s) ==
    /\ s \in Running /\ running[s].phase = "read"
    /\ running' = [running EXCEPT ![s] = Free]
    /\ newRoleInput' = IF running[s].awaited THEN NoRole ELSE newRoleInput
    /\ UNCHANGED <<server, dialog, waiting, asked, ops, undisturbed>>

\* setSelectedAccount gives the roles to the account selected by now.
Succeeds(s) ==
    /\ s \in Running /\ running[s].phase = "read"
    /\ shown' = running[s].answer
    /\ running' = [running EXCEPT ![s] = Free]
    /\ newRoleInput' = IF running[s].awaited THEN NoRole ELSE newRoleInput
    /\ UNCHANGED <<server, selectedAccount, showRoleModal, waiting, asked, ops, undisturbed>>

\* Faulty variant: handleAddRoleSubmit has no finally.
FailureKeepsAssigning(s) ==
    /\ s \in Running
    /\ running' = [running EXCEPT ![s].phase = "failed"]
    /\ undisturbed' = FALSE
    /\ UNCHANGED <<server, dialog, newRoleInput, waiting, asked, ops>>

\* Either await throws: a message, and the picker keeps the role.
Fails(s) ==
    /\ s \in Running
    /\ running' = [running EXCEPT ![s] = Free]
    /\ undisturbed' = FALSE
    /\ UNCHANGED <<server, dialog, newRoleInput, waiting, asked, ops>>

\* The table is read again, after an operation or for a reason of its own.
TableReloads ==
    /\ rows # roles
    /\ rows' = roles
    /\ UNCHANGED <<roles, dialog, newRoleInput, waiting, running, asked, ops, undisturbed>>

\* What selects no account.
Proceed ==
    \/ CloseRoleModal \/ TableReloads
    \/ \E r \in Roles \cup {NoRole} : PickRole(r)
    \/ \E op \in waiting : SudoDismissed(op) \/ \E s \in Slots : SudoRuns(op, s)
    \/ \E s \in Slots :
           \/ Assign(s) \/ \E r \in Roles : Remove(s, r)
           \/ ApplyChange(s) \/ ReadRoles(s) \/ AnswerRoles(s)
           \/ Succeeds(s) \/ Fails(s)

Next ==
    \/ \E a \in Accounts : OpenRoleModal(a) \/ OpenOtherModal(a)
    \/ Proceed

Spec == Init /\ [][Next]_vars

-----------------------------------------------------------------------------

\* A role is only given to or taken from an account as it was asked for in the
\* dialog of that account, whatever is selected when Sudo Mode lets it run.
OnlyAskedChanges ==
    [][\A a \in Accounts, r \in Roles :
           /\ r \in roles'[a] \ roles[a] => [kind |-> "assign", account |-> a, role |-> r] \in asked
           /\ r \in roles[a] \ roles'[a] => [kind |-> "remove", account |-> a, role |-> r] \in asked]_vars

\* Whatever roles the dialog shows under whose name, the administrator who uses
\* the console neither gains nor loses one.
OwnRolesKept == [][roles'[Self] = roles[Self]]_vars

\* While nothing overlaps or fails, the dialog shows the roles of its account
\* once an operation is over.
ShownIsCurrent ==
    showRoleModal /\ undisturbed /\ Quiet => shown = roles[selectedAccount]

\* The Assign button is given back.
AssigningEnds == assigning ~> ~assigning

=============================================================================
