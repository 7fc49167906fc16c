-------------------------- MODULE UserDialogProofs --------------------------
(***************************************************************************)
(* Proofs about UserDialogs for every set of accounts, of passwords and of *)
(* roles and any number of submits and operations.  Each dialog has an     *)
(* inductive invariant of its own, kept by its own steps and by the        *)
(* openings of the others.                                                 *)
(***************************************************************************)
EXTENDS UserDialogs, TLAPS

-----------------------------------------------------------------------------
(* The dialogs share the selected account *)

PasswordActs == Password!Next \/ UNCHANGED Password!vars
RoleActs == Role!Next \/ UNCHANGED Role!vars

\* Every step of the tab is a step of each dialog, the opening of another dialog
\* included, or leaves it as it is.
LEMMA StepsOfBoth == [Next]_vars => PasswordActs /\ RoleActs
<1> SUFFICES ASSUME [Next]_vars PROVE PasswordActs /\ RoleActs
  OBVIOUS
<1> USE DEF PasswordActs, RoleActs
<1>1. ASSUME NEW a \in Accounts, OpenPasswordModal(a) \/ OpenRoleModal(a) \/ OpenConsentModal(a)
      PROVE  Password!Next /\ Role!Next
  BY <1>1 DEF OpenPasswordModal, OpenRoleModal, OpenConsentModal, Password!Next, Role!Next
<1>2. CASE PasswordStep
  <2>1. UNCHANGED selectedAccount
    BY <1>2 DEF PasswordStep, Password!Proceed, Password!Dismiss, Password!Submit,
                Password!TimerFires, Password!Type, Password!SudoRuns, Password!SudoDismissed,
                Password!ApplyReset, Password!ResetSucceeds, Password!ResetFails
  <2> QED
    BY <1>2, <2>1 DEF PasswordStep, Password!Next, roleVars, Role!vars
<1>3. CASE RoleStep
  <2>1. UNCHANGED selectedAccount
    BY <1>3 DEF RoleStep, Role!Proceed, Role!CloseRoleModal, Role!TableReloads, Role!PickRole,
                Role!SudoDismissed, Role!SudoRuns, Role!Assign, Role!Remove, Role!ApplyChange,
                Role!ReadRoles, Role!AnswerRoles, Role!Succeeds, Role!Fails, Role!dialog
  <2> QED
    BY <1>3, <2>1 DEF RoleStep, Role!Next, passwordVars, Password!vars
<1>4. CASE UNCHANGED vars
  BY <1>4 DEF vars, passwordVars, roleVars, Password!vars, Role!vars
<1> QED
  BY <1>1, <1>2, <1>3, <1>4 DEF Next

\* What UsersTab shares does not disturb its dialogs: in every behaviour of the tab
\* each dialog behaves as ResetPasswordModal and AssignRolesModal do alone.
THEOREM EachDialogAlone == Spec => Password!Spec /\ Role!Spec
<1>1. [Next]_vars => [Password!Next]_(Password!vars) /\ [Role!Next]_(Role!vars)
  BY StepsOfBoth DEF PasswordActs, RoleActs
<1> QED
  BY <1>1, PTL DEF Spec, Init, Password!Spec, Role!Spec

\* What is assumed of the constants of the dialogs.
LEMMA PasswordFacts ==
  /\ Self \in Accounts /\ NoAccount \notin Accounts
  /\ Blank \notin Passwords /\ Old \notin Passwords \cup {Blank}
  /\ MaxSubmits \in Nat
BY DialogsAssumption DEF Password!PasswordsAssumption

LEMMA RoleFacts ==
  /\ Self \in Accounts /\ NoAccount \notin Accounts
  /\ NoRole \notin Roles
  /\ Free \notin Role!Run
  /\ MaxOps \in Nat
BY DialogsAssumption DEF Role!RolesAssumption

-----------------------------------------------------------------------------
(* The password dialog *)

\* The modal is only open for an account.
PasswordOpenFor == showPasswordModal => selectedAccount \in Accounts

\* Sudo Mode and the server only hold what was submitted.
HeldWasSubmitted == heldResets \subseteq submitted /\ \A q \in requests : q.reset \in submitted

\* The timer runs from the success that it is to close.
TimerNeedsSuccess == timer => notice = "success"

\* The inductive invariant.
PasswordInv ==
    /\ Password!TypeOK
    /\ PasswordOpenFor
    /\ HeldWasSubmitted
    /\ TimerNeedsSuccess
    /\ Password!RightAccount
    /\ Password!OneAwaited

-----------------------------------------------------------------------------

\* Before the modal is first opened nothing is submitted and no password set.
LEMMA PasswordInit == Password!Init => PasswordInv
<1> USE PasswordFacts DEF Password!Init
<1>1. Password!Init => Password!TypeOK
  <2>1. Password!Init =>
            /\ password \in [Accounts -> Passwords \cup {Old}]
            /\ selectedAccount \in Accounts \cup {NoAccount}
            /\ newPassword \in Passwords \cup {Blank}
    OBVIOUS
  <2>2. Password!Init =>
            /\ notice \in {"none", "error", "success"}
            /\ showPasswordModal \in BOOLEAN /\ timer \in BOOLEAN
    OBVIOUS
  <2>3. Password!Init =>
            /\ heldResets \subseteq Password!Reset /\ requests \subseteq Password!Request
            /\ submitted \subseteq Password!Reset /\ submits \in 0..MaxSubmits
    OBVIOUS
  <2> QED
    BY <2>1, <2>2, <2>3 DEF Password!TypeOK
<1>2. Password!Init => PasswordOpenFor /\ HeldWasSubmitted /\ TimerNeedsSuccess
  BY DEF PasswordOpenFor, HeldWasSubmitted, TimerNeedsSuccess
<1>3. Password!Init => Password!RightAccount /\ Password!OneAwaited
  BY DEF Password!RightAccount, Password!OneAwaited, Password!submitting
<1> QED
  BY <1>1, <1>2, <1>3 DEF PasswordInv

\* Every action assigns each variable a value of its type.
LEMMA TypeStep == PasswordInv /\ PasswordActs => Password!TypeOK'
<1> SUFFICES ASSUME PasswordInv, PasswordActs
             PROVE  Password!TypeOK'
  OBVIOUS
<1> USE PasswordFacts DEF PasswordInv, Password!TypeOK, PasswordOpenFor, Password!Reset,
    Password!Request
<1>1. ASSUME NEW a \in Accounts, Password!OpenPasswordModal(a) \/ Password!OpenOtherModal(a)
      PROVE  Password!TypeOK'
  BY <1>1 DEF Password!OpenPasswordModal, Password!OpenOtherModal
<1>2. CASE Password!Dismiss
  BY <1>2 DEF Password!Dismiss
<1>3. CASE Password!Submit
  <2>1. PICK reset \in Password!Reset :
            /\ submitted' = submitted \cup {reset}
            /\ \/ /\ requests' = requests \cup
                         {[reset |-> reset, awaited |-> TRUE, applied |-> FALSE]}
                  /\ notice' = "none" /\ UNCHANGED <<heldResets, timer>>
               \/ /\ heldResets' = heldResets \cup {reset}
                  /\ notice' = "success" /\ timer' = TRUE /\ UNCHANGED requests
    <3>1. [account |-> selectedAccount, password |-> newPassword] \in Password!Reset
      BY <1>3 DEF Password!Submit, Password!CanSubmit
    <3> QED
      BY <1>3, <3>1 DEF Password!Submit
  <2>2. submitted' \subseteq Password!Reset /\ heldResets' \subseteq Password!Reset
    BY <2>1
  <2>3. requests' \subseteq Password!Request
    <3>1. [reset |-> reset, awaited |-> TRUE, applied |-> FALSE] \in Password!Request
      OBVIOUS
    <3> QED
      BY <2>1, <3>1
  <2>4. notice' \in {"none", "error", "success"} /\ timer' \in BOOLEAN
    BY <2>1
  <2>5. submits' \in 0..MaxSubmits
    BY <1>3 DEF Password!Submit
  <2> QED
    BY <1>3, <2>2, <2>3, <2>4, <2>5 DEF Password!Submit
<1>4. CASE Password!TimerFires
  BY <1>4 DEF Password!TimerFires
<1>5. ASSUME NEW p \in Passwords \cup {Blank}, Password!Type(p) PROVE Password!TypeOK'
  BY <1>5 DEF Password!Type
<1>6. ASSUME NEW reset \in heldResets, Password!SudoRuns(reset) \/ Password!SudoDismissed(reset)
      PROVE  Password!TypeOK'
  <2>1. [reset |-> reset, awaited |-> FALSE, applied |-> FALSE] \in Password!Request
    OBVIOUS
  <2>2. CASE Password!SudoRuns(reset)
    BY <2>1, <2>2 DEF Password!SudoRuns
  <2>3. CASE Password!SudoDismissed(reset)
    BY <2>3 DEF Password!SudoDismissed
  <2> QED
    BY <1>6, <2>2, <2>3
<1>7. ASSUME NEW q \in requests, Password!ApplyReset(q) PROVE Password!TypeOK'
  <2>1. [q EXCEPT !.applied = TRUE] \in Password!Request
    OBVIOUS
  <2>2. requests' \subseteq Password!Request
    BY <1>7, <2>1 DEF Password!ApplyReset
  <2>3. password' \in [Accounts -> Passwords \cup {Old}]
    BY <1>7 DEF Password!ApplyReset
  <2> QED
    BY <1>7, <2>2, <2>3 DEF Password!ApplyReset
<1>8. ASSUME NEW q \in requests, Password!ResetSucceeds(q) \/ Password!ResetFails(q)
      PROVE  Password!TypeOK'
  BY <1>8 DEF Password!ResetSucceeds, Password!ResetFails
<1>9. CASE UNCHANGED Password!vars
  BY <1>9 DEF Password!vars
<1> QED
  BY <1>1, <1>2, <1>3, <1>4, <1>5, <1>6, <1>7, <1>8, <1>9 DEF PasswordActs, Password!Next,
      Password!Proceed

\* Only the two openings change the account, and both select one; the rest of
\* the modal's actions leave it, so what it is open for stays an account.
LEMMA OpenStep == PasswordInv /\ PasswordActs => PasswordOpenFor'
<1> SUFFICES ASSUME PasswordInv, PasswordActs
             PROVE  PasswordOpenFor'
  OBVIOUS
<1> USE DEF PasswordInv, PasswordOpenFor
<1>1. ASSUME NEW a \in Accounts, Password!OpenPasswordModal(a) \/ Password!OpenOtherModal(a)
      PROVE  PasswordOpenFor'
  BY <1>1 DEF Password!OpenPasswordModal, Password!OpenOtherModal
<1>2. CASE Password!Dismiss \/ Password!Submit \/ Password!TimerFires
  BY <1>2 DEF Password!Dismiss, Password!Submit, Password!TimerFires
<1>3. ASSUME NEW p \in Passwords \cup {Blank}, Password!Type(p) PROVE PasswordOpenFor'
  BY <1>3 DEF Password!Type
<1>4. ASSUME NEW reset \in heldResets, Password!SudoRuns(reset) \/ Password!SudoDismissed(reset)
      PROVE  PasswordOpenFor'
  BY <1>4 DEF Password!SudoRuns, Password!SudoDismissed
<1>5. ASSUME NEW q \in requests,
             Password!ApplyReset(q) \/ Password!ResetSucceeds(q) \/ Password!ResetFails(q)
      PROVE  PasswordOpenFor'
  BY <1>5 DEF Password!ApplyReset, Password!ResetSucceeds, Password!ResetFails
<1>6. CASE UNCHANGED Password!vars
  BY <1>6 DEF Password!vars
<1> QED
  BY <1>1, <1>2, <1>3, <1>4, <1>5, <1>6 DEF PasswordActs, Password!Next, Password!Proceed

\* Submit records the reset it hands on, and everything later passes it on whole.
LEMMA HeldStep == PasswordInv /\ PasswordActs => HeldWasSubmitted'
<1> SUFFICES ASSUME PasswordInv, PasswordActs
             PROVE  HeldWasSubmitted'
  OBVIOUS
<1> USE DEF PasswordInv, Password!TypeOK, Password!Request, HeldWasSubmitted
<1>1. ASSUME NEW a \in Accounts, Password!OpenPasswordModal(a) \/ Password!OpenOtherModal(a)
      PROVE  HeldWasSubmitted'
  BY <1>1 DEF Password!OpenPasswordModal, Password!OpenOtherModal
<1>2. CASE Password!Dismiss \/ Password!TimerFires
  BY <1>2 DEF Password!Dismiss, Password!TimerFires
<1>3. CASE Password!Submit
  BY <1>3 DEF Password!Submit
<1>4. ASSUME NEW p \in Passwords \cup {Blank}, Password!Type(p) PROVE HeldWasSubmitted'
  BY <1>4 DEF Password!Type
<1>5. ASSUME NEW reset \in heldResets, Password!SudoRuns(reset) \/ Password!SudoDismissed(reset)
      PROVE  HeldWasSubmitted'
  BY <1>5 DEF Password!SudoRuns, Password!SudoDismissed
<1>6. ASSUME NEW q \in requests, Password!ApplyReset(q) PROVE HeldWasSubmitted'
  BY <1>6 DEF Password!ApplyReset
<1>7. ASSUME NEW q \in requests, Password!ResetSucceeds(q) \/ Password!ResetFails(q)
      PROVE  HeldWasSubmitted'
  BY <1>7 DEF Password!ResetSucceeds, Password!ResetFails
<1>8. CASE UNCHANGED Password!vars
  BY <1>8 DEF Password!vars
<1> QED
  BY <1>1, <1>2, <1>3, <1>4, <1>5, <1>6, <1>7, <1>8 DEF PasswordActs, Password!Next,
      Password!Proceed

\* Only an awaited request can overwrite a notice with a failure, and while one
\* is awaited no timer runs.
LEMMA TimerStep == PasswordInv /\ PasswordActs => TimerNeedsSuccess'
<1> SUFFICES ASSUME PasswordInv, PasswordActs
             PROVE  TimerNeedsSuccess'
  OBVIOUS
<1> USE DEF PasswordInv, Password!TypeOK, TimerNeedsSuccess
<1>1. ASSUME NEW a \in Accounts, Password!OpenPasswordModal(a) \/ Password!OpenOtherModal(a)
      PROVE  TimerNeedsSuccess'
  BY <1>1 DEF Password!OpenPasswordModal, Password!OpenOtherModal
<1>2. CASE Password!Dismiss \/ Password!TimerFires
  BY <1>2 DEF Password!Dismiss, Password!TimerFires
<1>3. CASE Password!Submit
  BY <1>3 DEF Password!Submit, Password!CanSubmit
<1>4. ASSUME NEW p \in Passwords \cup {Blank}, Password!Type(p) PROVE TimerNeedsSuccess'
  BY <1>4 DEF Password!Type
<1>5. ASSUME NEW reset \in heldResets, Password!SudoRuns(reset) \/ Password!SudoDismissed(reset)
      PROVE  TimerNeedsSuccess'
  BY <1>5 DEF Password!SudoRuns, Password!SudoDismissed
<1>6. ASSUME NEW q \in requests,
             Password!ApplyReset(q) \/ Password!ResetSucceeds(q) \/ Password!ResetFails(q)
      PROVE  TimerNeedsSuccess'
  BY <1>6 DEF Password!ApplyReset, Password!ResetSucceeds, Password!ResetFails,
      Password!OneAwaited, Password!submitting
<1>7. CASE UNCHANGED Password!vars
  BY <1>7 DEF Password!vars
<1> QED
  BY <1>1, <1>2, <1>3, <1>4, <1>5, <1>6, <1>7 DEF PasswordActs, Password!Next, Password!Proceed

\* Only the server changes a password, and it takes it from a request, which was
\* submitted; what was submitted stays so.
LEMMA RightAccountStep == PasswordInv /\ PasswordActs => Password!RightAccount'
<1> SUFFICES ASSUME PasswordInv, PasswordActs
             PROVE  Password!RightAccount'
  OBVIOUS
<1> USE DEF PasswordInv, Password!RightAccount
<1>1. ASSUME NEW q \in requests, Password!ApplyReset(q) PROVE Password!RightAccount'
  <2>1. PICK reset \in submitted : reset = q.reset /\ reset \in Password!Reset
    BY DEF HeldWasSubmitted, Password!TypeOK, Password!Request
  <2>2. reset = [account |-> reset.account, password |-> reset.password]
    BY <2>1 DEF Password!Reset
  <2> QED
    BY <1>1, <2>1, <2>2 DEF Password!ApplyReset, Password!TypeOK
<1>2. CASE Password!Submit
  BY <1>2 DEF Password!Submit
<1>3. CASE UNCHANGED <<password, submitted>>
  BY <1>3
<1>4. ASSUME Password!Next, ~Password!Submit, \A q \in requests : ~Password!ApplyReset(q)
      PROVE  UNCHANGED <<password, submitted>>
  BY <1>4 DEF Password!Next, Password!Proceed, Password!OpenPasswordModal, Password!OpenOtherModal,
              Password!Dismiss, Password!TimerFires, Password!Type, Password!SudoRuns,
              Password!SudoDismissed, Password!ResetSucceeds, Password!ResetFails
<1> QED
  BY <1>1, <1>2, <1>3, <1>4 DEF PasswordActs, Password!vars

\* Submit needs a modal that awaits nothing and shows no success, so the request
\* it sends is the only awaited one; Sudo Mode's requests are not awaited.
LEMMA OneAwaitedStep == PasswordInv /\ PasswordActs => Password!OneAwaited'
<1> SUFFICES ASSUME PasswordInv, PasswordActs
             PROVE  Password!OneAwaited'
  OBVIOUS
<1> USE DEF PasswordInv, Password!TypeOK, Password!Request, Password!OneAwaited, Password!submitting
<1>1. ASSUME NEW a \in Accounts, Password!OpenPasswordModal(a) \/ Password!OpenOtherModal(a)
      PROVE  Password!OneAwaited'
  BY <1>1 DEF Password!OpenPasswordModal, Password!OpenOtherModal
<1>2. CASE Password!Dismiss \/ Password!TimerFires
  BY <1>2 DEF Password!Dismiss, Password!TimerFires, TimerNeedsSuccess
<1>3. CASE Password!Submit
  <2>1. ~Password!submitting /\ ~timer
    BY <1>3 DEF Password!Submit, Password!CanSubmit, TimerNeedsSuccess
  <2>2. CASE UNCHANGED requests
    BY <2>1, <2>2
  <2>3. ASSUME requests' # requests PROVE Password!OneAwaited'
    <3>1. PICK q : requests' = requests \cup {q} /\ notice' = "none" /\ timer' = timer
      BY <1>3, <2>3 DEF Password!Submit
    <3> QED
      BY <2>1, <3>1
  <2> QED
    BY <2>2, <2>3
<1>4. ASSUME NEW p \in Passwords \cup {Blank}, Password!Type(p) PROVE Password!OneAwaited'
  BY <1>4 DEF Password!Type
<1>5. ASSUME NEW reset \in heldResets, Password!SudoRuns(reset) \/ Password!SudoDismissed(reset)
      PROVE  Password!OneAwaited'
  BY <1>5 DEF Password!SudoRuns, Password!SudoDismissed
<1>6. ASSUME NEW q \in requests, Password!ApplyReset(q) PROVE Password!OneAwaited'
  BY <1>6 DEF Password!ApplyReset
<1>7. ASSUME NEW q \in requests, Password!ResetSucceeds(q) \/ Password!ResetFails(q)
      PROVE  Password!OneAwaited'
  BY <1>7 DEF Password!ResetSucceeds, Password!ResetFails
<1>8. CASE UNCHANGED Password!vars
  BY <1>8 DEF Password!vars
<1> QED
  BY <1>1, <1>2, <1>3, <1>4, <1>5, <1>6, <1>7, <1>8 DEF PasswordActs, Password!Next,
      Password!Proceed

-----------------------------------------------------------------------------

\* PasswordInv holds in every reachable state of the tab.
THEOREM PasswordInvariance == Spec => []PasswordInv
<1>1. Init => PasswordInv
  BY PasswordInit DEF Init
<1>2. PasswordInv /\ [Next]_vars => PasswordInv'
  BY StepsOfBoth, TypeStep, OpenStep, HeldStep, TimerStep, RightAccountStep, OneAwaitedStep
  DEF PasswordInv
<1> QED
  BY <1>1, <1>2, PTL DEF Spec

\* A password is only ever set for the account it was submitted for, whatever
\* account handleOpenRoleModal or another opening selected since.
THEOREM ResetsTheRightAccount == Spec => []RightAccount
<1>1. PasswordInv => RightAccount
  BY DEF PasswordInv, RightAccount
<1> QED
  BY PasswordInvariance, <1>1, PTL

\* The modal awaits one reset at a time and shows no outcome while it does.
THEOREM AwaitsOneReset == Spec => []OneAwaited
<1>1. PasswordInv => OneAwaited
  BY DEF PasswordInv, OneAwaited
<1> QED
  BY PasswordInvariance, <1>1, PTL

-----------------------------------------------------------------------------
(* The role dialog *)

\* The dialog is only open for an account.
RoleOpenFor == showRoleModal => selectedAccount \in Accounts

\* Sudo Mode and the slots only hold operations that were asked for.
HeldWasAsked == heldOps \subseteq asked /\ \A s \in Role!Running : running[s].op \in asked

\* No operation on the own account is ever asked for.
NotAskedForSelf == \A op \in asked : op.account # Self

\* The inductive invariant.
RoleInv ==
    /\ Role!TypeOK
    /\ RoleOpenFor
    /\ HeldWasAsked
    /\ NotAskedForSelf

-----------------------------------------------------------------------------

\* Before the dialog is first opened nothing is asked for.
LEMMA RoleInit == Role!Init => RoleInv
<1> USE RoleFacts DEF Role!Init
<1>1. Role!Init => Role!TypeOK
  <2>1. Role!Init =>
            /\ roles \in [Accounts -> SUBSET Roles] /\ rows \in [Accounts -> SUBSET Roles]
            /\ selectedAccount \in Accounts \cup {NoAccount} /\ shown \subseteq Roles
    OBVIOUS
  <2>2. Role!Init =>
            /\ showRoleModal \in BOOLEAN /\ undisturbed \in BOOLEAN
            /\ newRoleInput \in Roles \cup {NoRole}
    OBVIOUS
  <2>3. Role!Init =>
            /\ heldOps \subseteq Role!Op /\ asked \subseteq Role!Op /\ ops \in 0..MaxOps
            /\ running \in [Slots -> Role!Run \cup {Free}]
    OBVIOUS
  <2> QED
    BY <2>1, <2>2, <2>3 DEF Role!TypeOK
<1>2. Role!Init => RoleOpenFor /\ HeldWasAsked /\ NotAskedForSelf
  BY DEF RoleOpenFor, HeldWasAsked, NotAskedForSelf, Role!Running
<1> QED
  BY <1>1, <1>2 DEF RoleInv

\* An operation that is started is one that a slot may run.
LEMMA StartedType ==
  ASSUME NEW op \in Role!Op, NEW awaited \in BOOLEAN
  PROVE  Role!Started(op, awaited) \in Role!Run /\ Role!Started(op, awaited).op = op
  BY DEF Role!Started, Role!Run

\* What Assign and Remove ask for is an operation on another account.
LEMMA AskedType ==
  ASSUME RoleInv, Role!Editable, NEW r \in Roles, NEW k \in {"assign", "remove"}
  PROVE  /\ [kind |-> k, account |-> selectedAccount, role |-> r] \in Role!Op
         /\ selectedAccount # Self
  BY DEF RoleInv, RoleOpenFor, Role!Editable, Role!Op

\* requireSudo starts or holds what it is given.
LEMMA RequireSudoType ==
  ASSUME RoleInv, NEW op \in Role!Op, NEW s \in Slots, NEW awaited \in BOOLEAN,
         Role!RequireSudo(op, s, awaited), op.account # Self
  PROVE  /\ heldOps' \subseteq Role!Op /\ asked' \subseteq Role!Op /\ ops' \in 0..MaxOps
         /\ running' \in [Slots -> Role!Run \cup {Free}]
         /\ HeldWasAsked' /\ NotAskedForSelf'
<1> USE DEF RoleInv, Role!TypeOK, Role!RequireSudo
<1>1. heldOps' \subseteq Role!Op /\ asked' \subseteq Role!Op /\ asked \subseteq asked' /\ op \in asked'
  OBVIOUS
<1>2. ops' \in 0..MaxOps
  BY RoleFacts
<1>3. running' \in [Slots -> Role!Run \cup {Free}]
  BY StartedType
<1>4. heldOps' \subseteq asked'
  BY DEF HeldWasAsked
<1>5. ASSUME NEW v \in Role!Running' PROVE running'[v].op \in asked'
  <2>1. CASE running' = [running EXCEPT ![s] = Role!Started(op, awaited)]
    BY <1>1, <1>5, <2>1, StartedType DEF HeldWasAsked, Role!Running
  <2>2. CASE UNCHANGED running
    BY <1>1, <1>5, <2>2 DEF HeldWasAsked, Role!Running
  <2> QED
    BY <2>1, <2>2
<1>6. NotAskedForSelf'
  BY DEF NotAskedForSelf
<1> QED
  BY <1>1, <1>2, <1>3, <1>4, <1>5, <1>6 DEF HeldWasAsked

\* A role is given to and taken from an account in the words of a running
\* operation: only ApplyChange writes the server's roles.
LEMMA ServerStep ==
  ASSUME RoleInv, RoleActs
  PROVE  \/ UNCHANGED roles
         \/ \E s \in Role!Running : Role!ApplyChange(s)
<1>1. ASSUME NEW a \in Accounts, Role!OpenRoleModal(a) \/ Role!OpenOtherModal(a)
      PROVE  UNCHANGED roles
  BY <1>1 DEF Role!OpenRoleModal, Role!OpenOtherModal, Role!server
<1>2. CASE Role!CloseRoleModal \/ Role!TableReloads
  BY <1>2 DEF Role!CloseRoleModal, Role!TableReloads, Role!server
<1>3. ASSUME NEW r \in Roles \cup {NoRole}, Role!PickRole(r) PROVE UNCHANGED roles
  BY <1>3 DEF Role!PickRole, Role!server
<1>4. ASSUME NEW op \in heldOps, NEW s \in Slots, Role!SudoDismissed(op) \/ Role!SudoRuns(op, s)
      PROVE  UNCHANGED roles
  BY <1>4 DEF Role!SudoDismissed, Role!SudoRuns, Role!server
<1>5. ASSUME NEW op \in heldOps, Role!SudoDismissed(op) PROVE UNCHANGED roles
  BY <1>5 DEF Role!SudoDismissed, Role!server
<1>6. ASSUME NEW s \in Slots, NEW r \in Roles, Role!Assign(s) \/ Role!Remove(s, r)
      PROVE  UNCHANGED roles
  BY <1>6 DEF Role!Assign, Role!Remove, Role!server
<1>7. ASSUME NEW s \in Slots, Role!Assign(s) PROVE UNCHANGED roles
  BY <1>7 DEF Role!Assign, Role!server
<1>8. ASSUME NEW s \in Slots,
             Role!ReadRoles(s) \/ Role!AnswerRoles(s) \/ Role!Succeeds(s) \/ Role!Fails(s)
      PROVE  UNCHANGED roles
  BY <1>8 DEF Role!ReadRoles, Role!AnswerRoles, Role!Succeeds, Role!Fails, Role!server
<1>9. ASSUME NEW s \in Slots, Role!ApplyChange(s) PROVE s \in Role!Running
  BY <1>9 DEF Role!ApplyChange
<1>10. CASE UNCHANGED Role!vars
  BY <1>10 DEF Role!vars
<1> QED
  BY <1>1, <1>2, <1>3, <1>4, <1>5, <1>6, <1>7, <1>8, <1>9, <1>10 DEF RoleActs, Role!Next,
      Role!Proceed

-----------------------------------------------------------------------------

\* Every action keeps the types, the account of the open dialog and what is known
\* of the operations.
LEMMA RoleInvStep == RoleInv /\ RoleActs => RoleInv'
<1> SUFFICES ASSUME RoleInv, RoleActs
             PROVE  RoleInv'
  OBVIOUS
<1> USE DEF RoleInv
<1>1. ASSUME NEW a \in Accounts, Role!OpenRoleModal(a) \/ Role!OpenOtherModal(a) PROVE RoleInv'
  <2>1. Role!TypeOK'
    BY <1>1 DEF Role!OpenRoleModal, Role!OpenOtherModal, Role!TypeOK, Role!server, Role!Quiet
  <2> QED
    BY <1>1, <2>1 DEF Role!OpenRoleModal, Role!OpenOtherModal, RoleOpenFor, HeldWasAsked,
                      NotAskedForSelf, Role!Running
<1>2. CASE Role!CloseRoleModal
  <2>1. Role!TypeOK'
    BY <1>2 DEF Role!CloseRoleModal, Role!TypeOK, Role!server
  <2> QED
    BY <1>2, <2>1 DEF Role!CloseRoleModal, RoleOpenFor, HeldWasAsked, NotAskedForSelf, Role!Running
<1>3. CASE Role!TableReloads
  <2>1. Role!TypeOK'
    BY <1>3 DEF Role!TableReloads, Role!TypeOK, Role!dialog
  <2> QED
    BY <1>3, <2>1 DEF Role!TableReloads, Role!dialog, RoleOpenFor, HeldWasAsked, NotAskedForSelf,
        Role!Running
<1>4. ASSUME NEW r \in Roles \cup {NoRole}, Role!PickRole(r) PROVE RoleInv'
  <2>1. Role!TypeOK'
    BY <1>4 DEF Role!PickRole, Role!TypeOK, Role!server, Role!dialog
  <2> QED
    BY <1>4, <2>1 DEF Role!PickRole, Role!dialog, RoleOpenFor, HeldWasAsked, NotAskedForSelf,
        Role!Running
<1>5. ASSUME NEW op \in heldOps, Role!SudoDismissed(op) PROVE RoleInv'
  <2>1. Role!TypeOK'
    BY <1>5 DEF Role!SudoDismissed, Role!TypeOK, Role!server, Role!dialog
  <2> QED
    BY <1>5, <2>1 DEF Role!SudoDismissed, Role!dialog, RoleOpenFor, HeldWasAsked,
        NotAskedForSelf, Role!Running
<1>6. ASSUME NEW op \in heldOps, NEW s \in Slots, Role!SudoRuns(op, s) PROVE RoleInv'
  <2>1. Role!Started(op, FALSE) \in Role!Run /\ Role!Started(op, FALSE).op = op
    BY StartedType DEF Role!TypeOK
  <2>2. Role!TypeOK'
    BY <1>6, <2>1 DEF Role!SudoRuns, Role!TypeOK, Role!server, Role!dialog
  <2>3. HeldWasAsked'
    BY <1>6, <2>1 DEF Role!SudoRuns, HeldWasAsked, Role!Running, Role!TypeOK
  <2> QED
    BY <1>6, <2>2, <2>3 DEF Role!SudoRuns, Role!dialog, RoleOpenFor, NotAskedForSelf
<1>7. ASSUME NEW s \in Slots, Role!Assign(s) PROVE RoleInv'
  <2> DEFINE op == [kind |-> "assign", account |-> selectedAccount, role |-> newRoleInput]
  <2>1. Role!Editable /\ newRoleInput \in Roles /\ Role!RequireSudo(op, s, TRUE)
    BY <1>7 DEF Role!Assign, Role!TypeOK
  <2>2. op \in Role!Op /\ op.account # Self
    BY <2>1, AskedType
  <2>3. /\ heldOps' \subseteq Role!Op /\ asked' \subseteq Role!Op /\ ops' \in 0..MaxOps
        /\ running' \in [Slots -> Role!Run \cup {Free}] /\ HeldWasAsked' /\ NotAskedForSelf'
    BY <2>1, <2>2, RequireSudoType
  <2>4. undisturbed' \in BOOLEAN
    BY <2>1 DEF Role!RequireSudo, Role!TypeOK, Role!Quiet
  <2>5. /\ UNCHANGED <<Role!server, Role!dialog>> /\ newRoleInput' \in Roles \cup {NoRole}
    BY <1>7, <2>1 DEF Role!Assign
  <2> QED
    BY <2>3, <2>4, <2>5 DEF Role!server, Role!dialog, Role!TypeOK, RoleOpenFor
<1>8. ASSUME NEW s \in Slots, NEW r \in Roles, Role!Remove(s, r) PROVE RoleInv'
  <2> DEFINE op == [kind |-> "remove", account |-> selectedAccount, role |-> r]
  <2>1. Role!Editable /\ Role!RequireSudo(op, s, FALSE)
    BY <1>8 DEF Role!Remove
  <2>2. op \in Role!Op /\ op.account # Self
    BY <2>1, AskedType
  <2>3. /\ heldOps' \subseteq Role!Op /\ asked' \subseteq Role!Op /\ ops' \in 0..MaxOps
        /\ running' \in [Slots -> Role!Run \cup {Free}] /\ HeldWasAsked' /\ NotAskedForSelf'
    BY <2>1, <2>2, RequireSudoType
  <2>4. undisturbed' \in BOOLEAN
    BY <2>1 DEF Role!RequireSudo, Role!TypeOK, Role!Quiet
  <2>5. UNCHANGED <<Role!server, Role!dialog, newRoleInput>>
    BY <1>8 DEF Role!Remove
  <2> QED
    BY <2>3, <2>4, <2>5 DEF Role!server, Role!dialog, Role!TypeOK, RoleOpenFor
<1>9. ASSUME NEW s \in Slots, Role!ApplyChange(s) PROVE RoleInv'
  <2>1. running[s] \in Role!Run \/ running[s] = Free
    BY DEF Role!TypeOK
  <2>2. s \in Role!Running
    BY <1>9 DEF Role!ApplyChange
  <2>3. running[s] \in Role!Run /\ running[s].op \in Role!Op
    BY <2>1, <2>2 DEF Role!Running, Role!Run
  <2>4. roles' \in [Accounts -> SUBSET Roles]
    <3> DEFINE op == running[s].op
    <3>1. op.account \in Accounts /\ op.role \in Roles
      BY <2>3 DEF Role!Op
    <3>2. roles' = [roles EXCEPT ![op.account] =
                       IF op.kind = "assign" THEN roles[op.account] \cup {op.role}
                       ELSE roles[op.account] \ {op.role}]
      BY <1>9 DEF Role!ApplyChange
    <3> HIDE DEF op
    <3>3. (IF op.kind = "assign" THEN roles[op.account] \cup {op.role}
           ELSE roles[op.account] \ {op.role}) \in SUBSET Roles
      BY <3>1 DEF Role!TypeOK
    <3> QED
      BY <3>2, <3>3 DEF Role!TypeOK
  <2>5. /\ running' = [running EXCEPT ![s].phase = "changed"]
        /\ running' \in [Slots -> Role!Run \cup {Free}]
    BY <1>9, <2>3 DEF Role!ApplyChange, Role!TypeOK, Role!Run
  <2>6. Role!TypeOK'
    BY <1>9, <2>4, <2>5 DEF Role!ApplyChange, Role!TypeOK, Role!dialog
  <2>7. HeldWasAsked'
    BY <1>9, <2>2, <2>3, <2>5 DEF Role!ApplyChange, HeldWasAsked, Role!Running, Role!TypeOK,
        Role!Run
  <2> QED
    BY <1>9, <2>6, <2>7 DEF Role!ApplyChange, Role!dialog, RoleOpenFor, NotAskedForSelf
<1>10. ASSUME NEW s \in Slots, Role!ReadRoles(s) PROVE RoleInv'
  <2>1. s \in Role!Running /\ running[s] \in Role!Run
    BY <1>10 DEF Role!ReadRoles, Role!TypeOK, Role!Running
  <2>2. Role!TypeOK'
    BY <1>10, <2>1 DEF Role!ReadRoles, Role!TypeOK, Role!Run, Role!server, Role!dialog
  <2>3. HeldWasAsked'
    BY <1>10, <2>1 DEF Role!ReadRoles, HeldWasAsked, Role!Running, Role!TypeOK, Role!Run
  <2> QED
    BY <1>10, <2>2, <2>3 DEF Role!ReadRoles, Role!dialog, RoleOpenFor, NotAskedForSelf
<1>11. ASSUME NEW s \in Slots, Role!AnswerRoles(s) PROVE RoleInv'
  <2>1. s \in Role!Running /\ running[s] \in Role!Run
    BY <1>11 DEF Role!AnswerRoles, Role!TypeOK, Role!Running
  <2>2. roles[running[s].op.account] \in SUBSET Roles
    BY <2>1 DEF Role!TypeOK, Role!Run, Role!Op
  <2>3. Role!TypeOK'
    BY <1>11, <2>1, <2>2 DEF Role!AnswerRoles, Role!TypeOK, Role!Run, Role!server, Role!dialog
  <2>4. HeldWasAsked'
    BY <1>11, <2>1 DEF Role!AnswerRoles, HeldWasAsked, Role!Running, Role!TypeOK, Role!Run
  <2> QED
    BY <1>11, <2>3, <2>4 DEF Role!AnswerRoles, Role!dialog, RoleOpenFor, NotAskedForSelf
<1>12. ASSUME NEW s \in Slots, Role!Succeeds(s) PROVE RoleInv'
  <2>1. s \in Role!Running /\ running[s] \in Role!Run
    BY <1>12 DEF Role!Succeeds, Role!TypeOK, Role!Running
  <2>2. running[s].answer \subseteq Roles
    BY <2>1 DEF Role!Run
  <2>3. Role!TypeOK'
    BY <1>12, <2>2 DEF Role!Succeeds, Role!TypeOK, Role!server
  <2>4. HeldWasAsked'
    BY <1>12 DEF Role!Succeeds, HeldWasAsked, Role!Running, Role!TypeOK
  <2> QED
    BY <1>12, <2>3, <2>4 DEF Role!Succeeds, RoleOpenFor, NotAskedForSelf
<1>13. ASSUME NEW s \in Slots, Role!Fails(s) PROVE RoleInv'
  <2>1. Role!TypeOK'
    BY <1>13 DEF Role!Fails, Role!TypeOK, Role!server, Role!dialog
  <2>2. HeldWasAsked'
    BY <1>13 DEF Role!Fails, HeldWasAsked, Role!Running, Role!TypeOK
  <2> QED
    BY <1>13, <2>1, <2>2 DEF Role!Fails, Role!dialog, RoleOpenFor, NotAskedForSelf
<1>14. CASE UNCHANGED Role!vars
  BY <1>14 DEF Role!vars, Role!TypeOK, RoleOpenFor, HeldWasAsked, NotAskedForSelf, Role!Running
<1> QED
  BY <1>1, <1>2, <1>3, <1>4, <1>5, <1>6, <1>7, <1>8, <1>9, <1>10, <1>11, <1>12, <1>13, <1>14
     DEF RoleActs, Role!Next, Role!Proceed

-----------------------------------------------------------------------------

\* RoleInv holds in every reachable state of the tab.
THEOREM RoleInvariance == Spec => []RoleInv
<1>1. Init => RoleInv
  BY RoleInit DEF Init
<1>2. RoleInv /\ [Next]_vars => RoleInv'
  BY StepsOfBoth, RoleInvStep
<1> QED
  BY <1>1, <1>2, PTL DEF Spec

\* The state of both dialogs, of Sudo Mode and of the server keeps its types.
THEOREM TypeCorrect == Spec => []TypeOK
<1>1. PasswordInv /\ RoleInv => TypeOK
  BY DEF PasswordInv, RoleInv, TypeOK
<1> QED
  BY PasswordInvariance, RoleInvariance, <1>1, PTL

\* Of a running operation: it was asked for, on another account than the own, and
\* applying it changes one role of that account.
LEMMA ChangeOfAccount ==
  ASSUME RoleInv, NEW s \in Role!Running, Role!ApplyChange(s), NEW a \in Accounts, roles'[a] # roles[a]
  PROVE  /\ running[s].op \in asked /\ running[s].op \in Role!Op
         /\ running[s].op.account = a /\ a # Self
         /\ roles'[a] = IF running[s].op.kind = "assign" THEN roles[a] \cup {running[s].op.role}
                                                        ELSE roles[a] \ {running[s].op.role}
<1> DEFINE op == running[s].op
<1>1. op \in asked /\ op \in Role!Op /\ op.account # Self
  BY DEF RoleInv, HeldWasAsked, NotAskedForSelf, Role!TypeOK
<1>2. roles' = [roles EXCEPT ![op.account] =
                   IF op.kind = "assign" THEN roles[op.account] \cup {op.role}
                   ELSE roles[op.account] \ {op.role}]
  BY DEF Role!ApplyChange
<1>3. roles \in [Accounts -> SUBSET Roles]
  BY DEF RoleInv, Role!TypeOK
<1> HIDE DEF op
<1>4. op.account = a
  BY <1>2, <1>3
<1>5. roles'[a] = IF op.kind = "assign" THEN roles[a] \cup {op.role} ELSE roles[a] \ {op.role}
  BY <1>2, <1>3, <1>4
<1> QED
  BY <1>1, <1>4, <1>5 DEF op

\* handleAssignRole and handleRemoveRole change an account's roles only as it was
\* asked for in the dialog of that account.
THEOREM ChangesOnlyWhatWasAsked == Spec => OnlyAskedChanges
<1> DEFINE A == \A a \in Accounts, r \in Roles :
             /\ r \in roles'[a] \ roles[a] => [kind |-> "assign", account |-> a, role |-> r] \in asked
             /\ r \in roles[a] \ roles'[a] => [kind |-> "remove", account |-> a, role |-> r] \in asked
<1>1. RoleInv /\ [Next]_vars => [A]_(Role!vars)
  <2> SUFFICES ASSUME RoleInv, RoleActs PROVE A
    BY StepsOfBoth
  <2>1. CASE UNCHANGED roles
    BY <2>1
  <2>2. ASSUME NEW s \in Role!Running, Role!ApplyChange(s) PROVE A
    <3> SUFFICES ASSUME NEW a \in Accounts, NEW r \in Roles
                 PROVE  /\ r \in roles'[a] \ roles[a] =>
                             [kind |-> "assign", account |-> a, role |-> r] \in asked
                        /\ r \in roles[a] \ roles'[a] =>
                             [kind |-> "remove", account |-> a, role |-> r] \in asked
      OBVIOUS
    <3>1. CASE roles'[a] = roles[a]
      BY <3>1
    <3>2. CASE roles'[a] # roles[a]
      <4>1. PICK op \in asked :
                /\ op \in Role!Op /\ op.account = a
                /\ roles'[a] = IF op.kind = "assign" THEN roles[a] \cup {op.role}
                                                    ELSE roles[a] \ {op.role}
        BY <2>2, <3>2, ChangeOfAccount
      <4>2. op = [kind |-> op.kind, account |-> a, role |-> op.role] /\ op.kind \in {"assign", "remove"}
        BY <4>1 DEF Role!Op
      <4>3. ASSUME r \in roles'[a] \ roles[a] PROVE op.kind = "assign" /\ r = op.role
        BY <4>1, <4>3
      <4>4. ASSUME r \in roles[a] \ roles'[a] PROVE op.kind = "remove" /\ r = op.role
        BY <4>1, <4>2, <4>4
      <4> QED
        BY <4>1, <4>2, <4>3, <4>4
    <3> QED
      BY <3>1, <3>2
  <2> QED
    BY <2>1, <2>2, ServerStep
<1> QED
  BY RoleInvariance, <1>1, PTL DEF Spec, OnlyAskedChanges, Role!OnlyAskedChanges

\* The administrator who uses the dialog neither gains nor loses a role.
THEOREM KeepsOwnRoles == Spec => OwnRolesKept
<1>1. RoleInv /\ [Next]_vars => [roles'[Self] = roles[Self]]_(Role!vars)
  BY StepsOfBoth, ServerStep, ChangeOfAccount, RoleFacts
<1> QED
  BY RoleInvariance, <1>1, PTL DEF Spec, OwnRolesKept, Role!OwnRolesKept

-----------------------------------------------------------------------------
(* What the Role!dialog shows *)

\* While the dialog is undisturbed at most one operation is held or runs, it is
\* for the account that is selected, what it has read is still so, and what is
\* shown when none runs is what the server has.
OneAtATime ==
    undisturbed =>
        /\ \A s, t \in Role!Running : s = t
        /\ Role!Running # {} => heldOps = {}
        /\ \A op \in heldOps : op.account = selectedAccount
        /\ \A s \in Role!Running : running[s].op.account = selectedAccount
        /\ \A s \in Role!Running : running[s].phase = "read" => running[s].answer = roles[selectedAccount]
        /\ Role!Running = {} => shown = roles[selectedAccount]

\* requireSudo leaves the dialog undisturbed when it is given its first operation.
LEMMA RequireSudoAlone ==
  ASSUME RoleInv, OneAtATime, NEW op \in Role!Op, NEW s \in Slots, NEW awaited \in BOOLEAN,
         Role!RequireSudo(op, s, awaited), op.account = selectedAccount,
         UNCHANGED <<Role!server, Role!dialog>>
  PROVE  OneAtATime'
<1> SUFFICES ASSUME undisturbed' PROVE OneAtATime'
  BY DEF OneAtATime
<1> USE DEF Role!server, Role!dialog
<1>1. undisturbed /\ Role!Running = {} /\ heldOps = {}
  BY DEF Role!RequireSudo, Role!Quiet
<1>2. shown = roles[selectedAccount]
  BY <1>1 DEF OneAtATime
<1>3. CASE running' = [running EXCEPT ![s] = Role!Started(op, awaited)] /\ UNCHANGED heldOps
  <2>1. Role!Started(op, awaited).op = op /\ Role!Started(op, awaited).phase = "changing"
    BY DEF Role!Started
  <2>2. Role!Running' \subseteq {s} /\ running'[s] = Role!Started(op, awaited)
    BY <1>1, <1>3 DEF Role!Running, RoleInv, Role!TypeOK
  <2>3. s \in Role!Running'
    BY <2>2, RoleFacts, StartedType DEF Role!Running
  <2> QED
    BY <1>1, <1>3, <2>1, <2>2, <2>3 DEF OneAtATime
<1>4. CASE heldOps' = heldOps \cup {op} /\ UNCHANGED running
  BY <1>1, <1>2, <1>4 DEF OneAtATime, Role!Running
<1> QED
  BY <1>3, <1>4 DEF Role!RequireSudo

\* Sudo Mode starts the one operation it holds.
LEMMA SudoRunsAlone ==
  ASSUME RoleInv, OneAtATime, NEW op \in heldOps, NEW s \in Slots, Role!SudoRuns(op, s)
  PROVE  OneAtATime'
<1> SUFFICES ASSUME undisturbed' PROVE OneAtATime'
  BY DEF OneAtATime
<1> USE DEF Role!server, Role!dialog
<1>1. undisturbed /\ Role!Running = {} /\ heldOps' = {} /\ op.account = selectedAccount
  BY DEF Role!SudoRuns, OneAtATime
<1>2. /\ Role!Started(op, FALSE) # Free
      /\ Role!Started(op, FALSE).op = op /\ Role!Started(op, FALSE).phase = "changing"
  BY RoleFacts, StartedType DEF Role!Started, RoleInv, Role!TypeOK
<1>3. Role!Running' = {s} /\ running'[s] = Role!Started(op, FALSE)
  BY <1>1, <1>2 DEF Role!SudoRuns, Role!Running, RoleInv, Role!TypeOK
<1> QED
  BY <1>1, <1>2, <1>3 DEF Role!SudoRuns, OneAtATime

\* The one operation that runs goes on: the others are the same.
LEMMA PhaseAlone ==
  ASSUME RoleInv, NEW s \in Role!Running, NEW new \in Role!Run, new.op = running[s].op,
         running' = [running EXCEPT ![s] = new]
  PROVE  /\ Role!Running' = Role!Running /\ running'[s] = new
         /\ \A t \in Role!Running : t # s => running'[t] = running[t]
         /\ \A t \in Role!Running : running'[t].op = running[t].op
  BY RoleFacts DEF RoleInv, Role!TypeOK, Role!Running

\* The answers of the requests: the role is changed, the roles are read, and what
\* was read is shown.
LEMMA AnswersAlone ==
  ASSUME RoleInv, OneAtATime, NEW s \in Slots,
         Role!ApplyChange(s) \/ Role!ReadRoles(s) \/ Role!AnswerRoles(s) \/ Role!Succeeds(s)
  PROVE  OneAtATime'
<1> SUFFICES ASSUME undisturbed' PROVE OneAtATime'
  BY DEF OneAtATime
<1> USE DEF Role!server, Role!dialog
<1>1. s \in Role!Running /\ running[s] \in Role!Run /\ undisturbed /\ UNCHANGED <<selectedAccount, heldOps>>
  BY DEF Role!ApplyChange, Role!ReadRoles, Role!AnswerRoles, Role!Succeeds, RoleInv, Role!TypeOK,
      Role!Running
<1>2. /\ \A t \in Role!Running : t = s
      /\ heldOps = {} /\ running[s].op.account = selectedAccount
  BY <1>1 DEF OneAtATime
<1>3. CASE Role!ApplyChange(s)
  <2> DEFINE new == [running[s] EXCEPT !.phase = "changed"]
  <2>1. new \in Role!Run /\ new.op = running[s].op /\ new.phase = "changed"
    BY <1>1 DEF Role!Run
  <2>2. running' = [running EXCEPT ![s] = new]
    BY <1>3 DEF Role!ApplyChange
  <2> HIDE DEF new
  <2>3. Role!Running' = Role!Running /\ running'[s] = new
    BY <1>1, <2>1, <2>2, PhaseAlone
  <2> QED
    BY <1>1, <1>2, <2>1, <2>3 DEF OneAtATime
<1>4. CASE Role!ReadRoles(s)
  <2> DEFINE new == [running[s] EXCEPT !.phase = "reading"]
  <2>1. new \in Role!Run /\ new.op = running[s].op /\ new.phase = "reading"
    BY <1>1 DEF Role!Run
  <2>2. running' = [running EXCEPT ![s] = new]
    BY <1>4 DEF Role!ReadRoles
  <2> HIDE DEF new
  <2>3. Role!Running' = Role!Running /\ running'[s] = new
    BY <1>1, <2>1, <2>2, PhaseAlone
  <2> QED
    BY <1>1, <1>2, <2>1, <2>3 DEF OneAtATime
<1>5. CASE Role!AnswerRoles(s)
  <2> DEFINE now == roles[running[s].op.account]
             new == [running[s] EXCEPT !.phase = "read", !.answer = now]
  <2>1. now \in SUBSET Roles
    BY <1>1 DEF RoleInv, Role!TypeOK, Role!Run, Role!Op
  <2>2. new \in Role!Run /\ new.op = running[s].op /\ new.answer = now
    BY <1>1, <2>1 DEF Role!Run
  <2>3. running' = [running EXCEPT ![s] = new] /\ UNCHANGED roles
    BY <1>5 DEF Role!AnswerRoles
  <2>4. now = roles[selectedAccount]
    BY <1>2
  <2> HIDE DEF new, now
  <2>5. Role!Running' = Role!Running /\ running'[s] = new
    BY <1>1, <2>2, <2>3, PhaseAlone
  <2> QED
    BY <1>1, <1>2, <2>2, <2>3, <2>4, <2>5 DEF OneAtATime
<1>6. CASE Role!Succeeds(s)
  <2>1. Role!Running' = {}
    BY <1>2, <1>6 DEF Role!Succeeds, Role!Running, RoleInv, Role!TypeOK
  <2>2. shown' = roles[selectedAccount]
    BY <1>1, <1>6 DEF Role!Succeeds, OneAtATime
  <2> QED
    BY <1>1, <1>2, <1>6, <2>1, <2>2 DEF Role!Succeeds, OneAtATime
<1> QED
  BY <1>3, <1>4, <1>5, <1>6

\* OneAtATime is inductive relative to IInv.
LEMMA OneAtATimeStep == RoleInv /\ OneAtATime /\ RoleActs => OneAtATime'
<1> SUFFICES ASSUME RoleInv, OneAtATime, RoleActs
             PROVE  OneAtATime'
  OBVIOUS
<1> USE DEF Role!server, Role!dialog
<1>1. ASSUME NEW a \in Accounts, Role!OpenRoleModal(a) \/ Role!OpenOtherModal(a)
      PROVE  OneAtATime'
  BY <1>1 DEF Role!OpenRoleModal, Role!OpenOtherModal, OneAtATime, Role!Quiet, Role!Running
<1>2. CASE Role!CloseRoleModal \/ Role!TableReloads
  BY <1>2 DEF Role!CloseRoleModal, Role!TableReloads, OneAtATime, Role!Running
<1>3. ASSUME NEW r \in Roles \cup {NoRole}, Role!PickRole(r) PROVE OneAtATime'
  BY <1>3 DEF Role!PickRole, OneAtATime, Role!Running
<1>4. ASSUME NEW op \in heldOps, Role!SudoDismissed(op) PROVE OneAtATime'
  BY <1>4 DEF Role!SudoDismissed, OneAtATime, Role!Running
<1>5. ASSUME NEW op \in heldOps, NEW s \in Slots, Role!SudoRuns(op, s) PROVE OneAtATime'
  BY <1>5, SudoRunsAlone
<1>6. ASSUME NEW s \in Slots, Role!Assign(s) PROVE OneAtATime'
  <2> DEFINE op == [kind |-> "assign", account |-> selectedAccount, role |-> newRoleInput]
  <2>1. /\ Role!Editable /\ newRoleInput \in Roles /\ Role!RequireSudo(op, s, TRUE)
        /\ UNCHANGED <<Role!server, Role!dialog>>
    BY <1>6 DEF Role!Assign, RoleInv, Role!TypeOK
  <2>2. op \in Role!Op /\ op.account = selectedAccount
    BY <2>1, AskedType
  <2> HIDE DEF op
  <2> QED
    BY <2>1, <2>2, RequireSudoAlone
<1>7. ASSUME NEW s \in Slots, NEW r \in Roles, Role!Remove(s, r) PROVE OneAtATime'
  <2> DEFINE op == [kind |-> "remove", account |-> selectedAccount, role |-> r]
  <2>1. Role!Editable /\ Role!RequireSudo(op, s, FALSE) /\ UNCHANGED <<Role!server, Role!dialog>>
    BY <1>7 DEF Role!Remove
  <2>2. op \in Role!Op /\ op.account = selectedAccount
    BY <2>1, AskedType
  <2> HIDE DEF op
  <2> QED
    BY <2>1, <2>2, RequireSudoAlone
<1>8. ASSUME NEW s \in Slots,
             Role!ApplyChange(s) \/ Role!ReadRoles(s) \/ Role!AnswerRoles(s) \/ Role!Succeeds(s)
      PROVE  OneAtATime'
  BY <1>8, AnswersAlone
<1>9. ASSUME NEW s \in Slots, Role!Fails(s) PROVE OneAtATime'
  BY <1>9 DEF Role!Fails, OneAtATime
<1>10. CASE UNCHANGED Role!vars
  BY <1>10 DEF Role!vars, OneAtATime, Role!Running
<1> QED
  BY <1>1, <1>2, <1>3, <1>4, <1>5, <1>6, <1>7, <1>8, <1>9, <1>10 DEF RoleActs, Role!Next,
      Role!Proceed

\* Whatever overlapped before it was opened: the dialog that was opened from a
\* current row, and whose operations neither overlap nor fail, shows the roles of
\* its account once setSelectedAccount has been called.
THEOREM ShowsCurrentRoles == Spec => []ShownIsCurrent
<1>1. Init => OneAtATime
  BY DEF Init, Role!Init, OneAtATime
<1>2. RoleInv /\ OneAtATime /\ [Next]_vars => OneAtATime'
  BY StepsOfBoth, OneAtATimeStep
<1>3. OneAtATime => ShownIsCurrent
  BY DEF OneAtATime, ShownIsCurrent, Role!ShownIsCurrent, Role!Quiet
<1> QED
  BY RoleInvariance, <1>1, <1>2, <1>3, PTL DEF Spec

=============================================================================
