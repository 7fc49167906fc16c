--------------------------- MODULE PasswordReset ---------------------------
(***************************************************************************)
(* Resetting a member's password: handleResetPassword of UsersTab and      *)
(* ResetPasswordModal.                                                     *)
(*                                                                         *)
(* requireSudo returns at once when it only opens the Sudo dialog, so the  *)
(* modal goes on as if the reset had been done, and the reset runs later,  *)
(* with the account and the password of the submit, or never.  The modal   *)
(* stays mounted when it is closed and keeps what it shows; its timer      *)
(* closes whatever it is open for by then.                                 *)
(***************************************************************************)
EXTENDS Naturals, FiniteSets

CONSTANTS
    Accounts,     \* account ids
    Self,         \* the administrator's own: the table disables its reset
    NoAccount,
    Passwords,    \* what may be typed
    Blank,        \* an empty field
    Old,          \* the password an account has at first
    MaxSubmits    \* bound: submits

PasswordsAssumption ==
    /\ Self \in Accounts
    /\ NoAccount \notin Accounts
    /\ Blank \notin Passwords /\ Old \notin Passwords \cup {Blank}
    /\ MaxSubmits \in Nat

VARIABLES
    password,          \* the server's password of each account
    selectedAccount,   \* shared by the role, password and consent dialogs
    showPasswordModal,
    newPassword,
    notice,            \* "error" or "success" shown in the modal
    timer,             \* the closing timer runs
    waiting,           \* resets that Sudo Mode holds
    requests,          \* resets sent to the server
    \* history
    submitted,         \* for which account which password was submitted
    submits

vars == <<password, selectedAccount, showPasswordModal, newPassword, notice, timer,
          waiting, requests, submitted, submits>>

Reset == [account : Accounts, password : Passwords]

\* handleSubmit awaits a request when Sudo Mode was active.
Request == [reset : Reset, awaited : BOOLEAN, applied : BOOLEAN]

submitting == \E q \in requests : q.awaited

TypeOK ==
    /\ password \in [Accounts -> Passwords \cup {Old}]
    /\ selectedAccount \in Accounts \cup {NoAccount}
    /\ showPasswordModal \in BOOLEAN
    /\ newPassword \in Passwords \cup {Blank}
    /\ notice \in {"none", "error", "success"}
    /\ timer \in BOOLEAN
    /\ waiting \subseteq Reset
    /\ requests \subseteq Request
    /\ submitted \subseteq Reset
    /\ submits \in 0..MaxSubmits

Init ==
    /\ password = [a \in Accounts |-> Old]
    /\ selectedAccount = NoAccount
    /\ showPasswordModal = FALSE
    /\ newPassword = Blank
    /\ notice = "none"
    /\ timer = FALSE
    /\ waiting = {}
    /\ requests = {}
    /\ submitted = {}
    /\ submits = 0

-----------------------------------------------------------------------------

\* handleOpenPasswordModal.  The modal shows what it was last closed with.
OpenPasswordModal(a) ==
    /\ ~showPasswordModal /\ a # Self
    /\ selectedAccount' = a
    /\ showPasswordModal' = TRUE
    /\ UNCHANGED <<password, newPassword, notice, timer, waiting, requests, submitted, submits>>

\* handleOpenRoleModal, handleOpenConsentModal: another dialog selects an account.
OpenOtherModal(a) ==
    /\ ~showPasswordModal
    /\ selectedAccount' = a
    /\ UNCHANGED <<password, showPasswordModal, newPassword, notice, timer, waiting,
                   requests, submitted, submits>>

\* Cancel is disabled while submitting and after a success, Escape never.
Dismiss ==
    /\ showPasswordModal
    /\ showPasswordModal' = FALSE
    /\ UNCHANGED <<password, selectedAccount, newPassword, notice, timer, waiting,
                   requests, submitted, submits>>

Type(p) ==
    /\ showPasswordModal
    /\ ~submitting /\ notice # "success"
    /\ newPassword' = p
    /\ UNCHANGED <<password, selectedAccount, showPasswordModal, notice, timer, waiting,
                   requests, submitted, submits>>

\* Faulty variant: the button is not disabled while submitting.
SubmitsTwice == showPasswordModal /\ newPassword # Blank /\ notice # "success"

\* The submit button is enabled.
CanSubmit ==
    /\ showPasswordModal
    /\ newPassword # Blank
    /\ ~submitting /\ notice # "success"

\* handleSubmit.  Sudo Mode is active: it awaits the request; or it is not, and
\* onSubmit has nothing left to await.
Submit ==
    /\ CanSubmit
    /\ submits < MaxSubmits
    /\ submits' = submits + 1
    /\ LET reset == [account |-> selectedAccount, password |-> newPassword]
       IN  /\ submitted' = submitted \cup {reset}
           /\ \/ /\ requests' = requests \cup {[reset |-> reset, awaited |-> TRUE, applied |-> FALSE]}
                 /\ notice' = "none"
                 /\ UNCHANGED <<waiting, timer>>
              \/ /\ waiting' = waiting \cup {reset}
                 /\ notice' = "success"
                 /\ timer' = TRUE
                 /\ UNCHANGED requests
    /\ UNCHANGED <<password, selectedAccount, showPasswordModal, newPassword>>

\* Faulty variant: onSuccess looks at the selected account when it runs.
RunForSelected(reset) ==
    /\ reset \in waiting
    /\ selectedAccount # NoAccount
    /\ waiting' = waiting \ {reset}
    /\ requests' = requests \cup
           {[reset |-> [reset EXCEPT !.account = selectedAccount], awaited |-> FALSE, applied |-> FALSE]}
    /\ UNCHANGED <<password, selectedAccount, showPasswordModal, newPassword, notice,
                   timer, submitted, submits>>

\* Sudo Mode calls onSuccess, which kept the account and password of its render;
\* or its dialog is dismissed.
SudoRuns(reset) ==
    /\ reset \in waiting
    /\ waiting' = waiting \ {reset}
    /\ requests' = requests \cup {[reset |-> reset, awaited |-> FALSE, applied |-> FALSE]}
    /\ UNCHANGED <<password, selectedAccount, showPasswordModal, newPassword, notice,
                   timer, submitted, submits>>

SudoDismissed(reset) ==
    /\ reset \in waiting
    /\ waiting' = waiting \ {reset}
    /\ UNCHANGED <<password, selectedAccount, showPasswordModal, newPassword, notice,
                   timer, requests, submitted, submits>>

\* External: the server sets the password.
ApplyReset(q) ==
    /\ q \in requests /\ ~q.applied
    /\ password' = [password EXCEPT ![q.reset.account] = q.reset.password]
    /\ requests' = (requests \ {q}) \cup {[q EXCEPT !.applied = TRUE]}
    /\ UNCHANGED <<selectedAccount, showPasswordModal, newPassword, notice, timer,
                   waiting, submitted, submits>>

\* The await returns.  The modal hears of it only when it awaited the request.
ResetSucceeds(q) ==
    /\ q \in requests /\ q.applied
    /\ requests' = requests \ {q}
    /\ IF q.awaited
       THEN notice' = "success" /\ timer' = TRUE
       ELSE UNCHANGED <<notice, timer>>
    /\ UNCHANGED <<password, selectedAccount, showPasswordModal, newPassword, waiting,
                   submitted, submits>>

\* The await throws, in handleSubmit or in the Sudo dialog, which is closed.
ResetFails(q) ==
    /\ q \in requests
    /\ requests' = requests \ {q}
    /\ IF q.awaited THEN notice' = "error" ELSE UNCHANGED notice
    /\ UNCHANGED <<password, selectedAccount, showPasswordModal, newPassword, timer,
                   waiting, submitted, submits>>

\* Faulty variant: the timer leaves the notice.
TimerKeepsNotice ==
    /\ timer
    /\ timer' = FALSE
    /\ showPasswordModal' = FALSE
    /\ newPassword' = Blank
    /\ UNCHANGED <<password, selectedAccount, notice, waiting, requests, submitted, submits>>

\* One second after a success: onClose, the field and the notice are cleared.
TimerFires ==
    /\ timer
    /\ timer' = FALSE
    /\ showPasswordModal' = FALSE
    /\ newPassword' = Blank
    /\ notice' = IF notice = "success" THEN "none" ELSE notice
    /\ UNCHANGED <<password, selectedAccount, waiting, requests, submitted, submits>>

\* What selects no account.
Proceed ==
    \/ Dismiss \/ Submit \/ TimerFires
    \/ \E p \in Passwords \cup {Blank} : Type(p)
    \/ \E reset \in waiting : SudoRuns(reset) \/ SudoDismissed(reset)
    \/ \E q \in requests : ApplyReset(q) \/ ResetSucceeds(q) \/ ResetFails(q)

Next ==
    \/ \E a \in Accounts : OpenPasswordModal(a) \/ OpenOtherModal(a)
    \/ Proceed

Spec == Init /\ [][Next]_vars

-----------------------------------------------------------------------------

\* A password is only ever set for the account whose name the modal showed when
\* it was submitted, whatever was selected while Sudo Mode asked.
RightAccount ==
    \A a \in Accounts :
        password[a] # Old => [account |-> a, password |-> password[a]] \in submitted

\* The modal awaits one reset at a time, and then shows no outcome: the outcome
\* it shows is that of its latest submit.
OneAwaited ==
    /\ \A p, q \in requests : p.awaited /\ q.awaited => p = q
    /\ submitting => notice = "none" /\ ~timer

\* The modal becomes usable again after every submit.
ModalUnlocks == (submitting \/ notice = "success") ~> (~submitting /\ notice # "success")

\* i18n/locales/en.json: "Password updated successfully. All user sessions have
\* been revoked." is only shown for an account whose password was updated.
SuccessMeansReset ==
    showPasswordModal /\ notice = "success" => password[selectedAccount] # Old

=============================================================================
