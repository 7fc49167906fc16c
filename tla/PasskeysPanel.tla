--------------------------- MODULE PasskeysPanel ---------------------------
(***************************************************************************)
(* Adding and removing the account's own passkeys: PasskeysPanel over the  *)
(* external hook usePasskeys and over Sudo Mode.                           *)
(*                                                                         *)
(* Sudo Mode keeps one operation at a time: asking for another replaces    *)
(* it.  Its window and the server's own notion of a recent authentication  *)
(* end independently, so a registration may be refused although the window *)
(* is open; it is then asked for again.                                    *)
(***************************************************************************)
EXTENDS Naturals, FiniteSets

CONSTANTS
    Ids,         \* credentials; bound: how many there may be
    NoId,
    Slots,       \* bound: operations that wait or are in flight
    Free         \* a slot without an operation

\* "open" shows the registration dialog.  Sudo Mode holds an operation that is asked,
\* with its dialog open, or verifying: its dialog was dismissed while it awaited an
\* answer, which will still run the operation.  One is left when its panel was unmounted;
\* made is how many credentials it registered.
Task == [kind : {"load", "open", "register", "remove"}, id : Ids \cup {NoId},
         stage : {"asked", "verifying", "sent", "done"}, made : 0..2, left : BOOLEAN]

PasskeysAssumption ==
    /\ NoId \notin Ids
    /\ Free \notin Task

VARIABLES
    keys,            \* the server's credentials of the account
    strong,          \* the server finds the authentication recent
    active,          \* isSudoActive
    passkeys, loading, error,   \* of the hook
    resolved,        \* hasResolvedInitialLoad
    showPasskeyModal,
    named,           \* newPasskeyName is not blank
    pendingRemoval,
    tasks,           \* the operation of each slot
    \* history
    known            \* the credentials were read since the panel was mounted

vars == <<keys, strong, active, passkeys, loading, error, resolved, showPasskeyModal, named,
          pendingRemoval, tasks, known>>

hookVars == <<passkeys, loading, error, resolved, known>>
formVars == <<showPasskeyModal, named, pendingRemoval>>

New(kind, id, stage) ==
    [kind |-> kind, id |-> id, stage |-> stage, made |-> 0, left |-> FALSE]
Used == {s \in Slots : tasks[s] # Free}
Asked == {s \in Used : tasks[s].stage = "asked"}
Held == {s \in Used : tasks[s].stage \in {"asked", "verifying"}}
Sent == {s \in Used : tasks[s].stage = "sent"}
Done == {s \in Used : tasks[s].stage = "done"}
Mine == {s \in Used : ~tasks[s].left}
Doing(kind) == {s \in Used : tasks[s].kind = kind}

TypeOK ==
    /\ keys \subseteq Ids /\ passkeys \subseteq Ids
    /\ {strong, active, loading, error, resolved, showPasskeyModal, named, known} \subseteq BOOLEAN
    /\ pendingRemoval \in Ids \cup {NoId}
    /\ tasks \in [Slots -> Task \cup {Free}]

\* The hook has started to read the credentials.
Init ==
    /\ keys \in SUBSET Ids
    /\ strong \in BOOLEAN /\ active \in BOOLEAN
    /\ passkeys = {} /\ loading = TRUE /\ error = FALSE
    /\ resolved = FALSE
    /\ showPasskeyModal = FALSE /\ named = FALSE
    /\ pendingRemoval = NoId
    /\ tasks \in {[t \in Slots |-> IF t = s THEN New("load", NoId, "sent") ELSE Free] : s \in Slots}
    /\ known = FALSE

-----------------------------------------------------------------------------

fatalLoadError == error /\ ~resolved
ContentShown == ~(loading /\ ~resolved) /\ ~fatalLoadError

\* Nothing covers the panel.
Uncovered == Asked = {} /\ ~showPasskeyModal /\ pendingRemoval = NoId

\* Faulty variant: the effect does not look at the error.
AnyEndResolves(isLoading, isError) == resolved' = (resolved \/ ~isLoading)

\* The effect on loading and error.
Resolve(isLoading, isError) == resolved' = (resolved \/ (~isLoading /\ ~isError))

\* External: an operation of the hook begins or ends.
Begin == loading' = TRUE /\ error' = FALSE /\ Resolve(TRUE, FALSE)
End(failed) == loading' = FALSE /\ error' = failed /\ Resolve(FALSE, failed)

\* setPendingAction: the dialog is no longer open for what was asked before.
Replace(s, task) == [t \in Slots |-> IF t = s THEN task ELSE IF t \in Asked THEN Free ELSE tasks[t]]

\* requireSudo: run now, or ask.
requireSudo(s, kind, id) ==
    IF active
    THEN tasks' = [tasks EXCEPT ![s] = New(kind, id, "sent")] /\ Begin
    ELSE tasks' = Replace(s, New(kind, id, "asked")) /\ UNCHANGED <<loading, error, resolved>>

reload(s) ==
    /\ Uncovered /\ fatalLoadError /\ ~loading
    /\ tasks[s] = Free
    /\ tasks' = [tasks EXCEPT ![s] = New("load", NoId, "sent")]
    /\ Begin
    /\ UNCHANGED <<keys, strong, active, passkeys, formVars, known>>

handleOpenAddPasskey(s) ==
    /\ Uncovered /\ ~loading /\ ~fatalLoadError
    /\ tasks[s] = Free
    /\ IF active
       THEN showPasskeyModal' = TRUE /\ UNCHANGED tasks
       ELSE tasks' = [tasks EXCEPT ![s] = New("open", NoId, "asked")] /\ UNCHANGED showPasskeyModal
    /\ UNCHANGED <<keys, strong, active, hookVars, named, pendingRemoval>>

TypeName(blank) ==
    /\ showPasskeyModal /\ Asked = {}
    /\ named' = ~blank
    /\ UNCHANGED <<keys, strong, active, hookVars, showPasskeyModal, pendingRemoval, tasks>>

CloseModal ==
    /\ showPasskeyModal /\ Asked = {}
    /\ showPasskeyModal' = FALSE
    /\ named' = FALSE
    /\ UNCHANGED <<keys, strong, active, hookVars, pendingRemoval, tasks>>

handleRegisterPasskey(s) ==
    /\ showPasskeyModal /\ named /\ Asked = {} /\ ~loading
    /\ Cardinality(keys) + Cardinality(Doing("register")) < Cardinality(Ids)
    /\ tasks[s] = Free
    /\ requireSudo(s, "register", NoId)
    /\ UNCHANGED <<keys, strong, active, passkeys, known, formVars>>

AskRemoval(i) ==
    /\ Uncovered /\ ContentShown /\ ~loading
    /\ i \in passkeys
    /\ pendingRemoval' = i
    /\ UNCHANGED <<keys, strong, active, hookVars, showPasskeyModal, named, tasks>>

CancelRemoval ==
    /\ pendingRemoval # NoId /\ Asked = {}
    /\ pendingRemoval' = NoId
    /\ UNCHANGED <<keys, strong, active, hookVars, showPasskeyModal, named, tasks>>

handleDeletePasskey(s) ==
    /\ pendingRemoval # NoId /\ Asked = {}
    /\ tasks[s] = Free
    /\ pendingRemoval' = NoId
    /\ requireSudo(s, "remove", pendingRemoval)
    /\ UNCHANGED <<keys, strong, active, passkeys, known, showPasskeyModal, named>>

\* The step-up succeeds: Sudo Mode closes its dialog, whatever it is open for, and
\* onSuccess runs, up to its await.
SudoRuns(s) ==
    /\ s \in Held
    /\ active' = TRUE /\ strong' = TRUE
    /\ IF tasks[s].kind = "open"
       THEN /\ tasks' = Replace(s, Free)
            /\ showPasskeyModal' = (showPasskeyModal \/ s \in Mine)
            /\ UNCHANGED hookVars
       ELSE /\ tasks' = Replace(s, [tasks[s] EXCEPT !.stage = "sent"])
            /\ IF s \in Mine THEN Begin ELSE UNCHANGED <<loading, error, resolved>>
            /\ UNCHANGED <<passkeys, known, showPasskeyModal>>
    /\ UNCHANGED <<keys, named, pendingRemoval>>

\* Dismissing the dialog calls the operation off, unless it is being verified.
SudoDismissed(s) ==
    /\ s \in Held
    /\ \/ tasks' = [tasks EXCEPT ![s] = Free]
       \/ s \in Asked /\ tasks' = [tasks EXCEPT ![s].stage = "verifying"]
    /\ UNCHANGED <<keys, strong, active, hookVars, formVars>>

\* The window closes; external: the server no longer finds the authentication recent.
WindowEnds ==
    /\ active' = FALSE
    /\ UNCHANGED <<keys, strong, hookVars, formVars, tasks>>

AuthenticationAges ==
    /\ strong' = FALSE
    /\ UNCHANGED <<keys, active, hookVars, formVars, tasks>>

\* External: the server carries an operation out.
Served(task) ==
    [kind |-> task.kind, id |-> task.id, stage |-> "done",
     made |-> task.made + (IF task.kind = "register" THEN 1 ELSE 0), left |-> task.left]

Serve(s) ==
    /\ s \in Sent
    /\ \/ s \in Doing("load") /\ UNCHANGED keys
       \/ s \in Doing("remove") /\ keys' = keys \ {tasks[s].id}
       \/ /\ s \in Doing("register") /\ strong
          /\ \E i \in Ids \ keys : keys' = keys \cup {i}
    /\ tasks' = [tasks EXCEPT ![s] = Served(@)]
    /\ UNCHANGED <<strong, active, hookVars, formVars>>

\* The hook's state is that of the panel, and is gone with it.
EndMine(s, failure) ==
    IF s \in Mine THEN End(failure) ELSE UNCHANGED <<loading, error, resolved>>

\* The awaits return.  A registration closes the dialog.
Succeed(s) ==
    /\ s \in Done
    /\ tasks' = [tasks EXCEPT ![s] = Free]
    /\ EndMine(s, FALSE)
    /\ passkeys' = IF s \in Mine THEN keys ELSE passkeys
    /\ known' = (known \/ s \in Mine)
    /\ IF s \in Mine \cap Doing("register")
       THEN showPasskeyModal' = FALSE /\ named' = FALSE
       ELSE UNCHANGED <<showPasskeyModal, named>>
    /\ UNCHANGED <<keys, strong, active, pendingRemoval>>

\* doRegister again, in the place of what was asked before.
AskAgain(s) == tasks' = Replace(s, [tasks[s] EXCEPT !.stage = "asked"])

\* Faulty variant: the window is not cleared, so requireSudo runs doRegister at once.
RefusedKeepsWindow(s) ==
    /\ s \in Sent \cap Doing("register") /\ ~strong
    /\ IF active THEN UNCHANGED <<tasks, loading, error, resolved>>
       ELSE AskAgain(s) /\ EndMine(s, TRUE)
    /\ UNCHANGED <<keys, strong, active, passkeys, known, formVars>>

\* doRegister: the server wants a recent strong authentication.
RegisterRefused(s) ==
    /\ s \in Sent \cap Doing("register") /\ ~strong
    /\ active' = FALSE
    /\ AskAgain(s)
    /\ EndMine(s, TRUE)
    /\ UNCHANGED <<keys, strong, passkeys, known, formVars>>

\* Faulty variant: whatever the error, the registration is asked for again.
FailedIsAskedAgain(s) ==
    /\ s \in Sent \cup Done
    /\ IF s \in Doing("register") THEN AskAgain(s) ELSE tasks' = [tasks EXCEPT ![s] = Free]
    /\ EndMine(s, TRUE)
    /\ UNCHANGED <<keys, strong, active, passkeys, known, formVars>>

\* Any other failure, the loss of the answer among them, is only reported.
Fail(s) ==
    /\ s \in Sent \cup Done
    /\ tasks' = [tasks EXCEPT ![s] = Free]
    /\ EndMine(s, TRUE)
    /\ UNCHANGED <<keys, strong, active, passkeys, known, formVars>>

\* The tab is left, and reads the credentials again when it is entered.
Remount(s) ==
    /\ tasks[s] = Free
    /\ passkeys' = {} /\ loading' = TRUE /\ error' = FALSE
    /\ resolved' = FALSE /\ known' = FALSE
    /\ showPasskeyModal' = FALSE /\ named' = FALSE /\ pendingRemoval' = NoId
    /\ tasks' = [t \in Slots |->
                    IF t = s THEN New("load", NoId, "sent")
                    ELSE IF t \in Used \ Doing("load") THEN [tasks[t] EXCEPT !.left = TRUE]
                    ELSE Free]
    /\ UNCHANGED <<keys, strong, active>>

Answer(s) == Serve(s) \/ Succeed(s) \/ RegisterRefused(s)

Next ==
    \/ \E s \in Slots :
           \/ reload(s) \/ handleOpenAddPasskey(s) \/ handleRegisterPasskey(s)
           \/ handleDeletePasskey(s) \/ SudoRuns(s) \/ SudoDismissed(s)
           \/ Answer(s) \/ Fail(s) \/ Remount(s)
    \/ \E i \in Ids : AskRemoval(i)
    \/ \E blank \in BOOLEAN : TypeName(blank)
    \/ CloseModal \/ CancelRemoval \/ WindowEnds \/ AuthenticationAges

Spec == Init /\ [][Next]_vars

\* The server answers every request that does not fail.
FairSpec == Spec /\ \A s \in Slots : WF_vars(Answer(s))

-----------------------------------------------------------------------------

\* The list, or that there is none, is shown only when the credentials were read,
\* not after a failed first load: "Empty: only after a successful read proves there
\* is no content".
ListIsKnown == ContentShown => known

\* One submission registers at most one credential, however often it is refused and
\* asked again, and also when the answer is lost.
RegistersOnce == \A s \in Used : tasks[s].made <= 1

\* A registration under way ends, or waits for a step-up: being refused does not
\* send it again by itself.
RegistrationSettles == \A s \in Slots : s \in Sent \cap Doing("register") ~> s \notin Sent

=============================================================================
