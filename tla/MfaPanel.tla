------------------------------ MODULE MfaPanel ------------------------------
(***************************************************************************)
(* Setting up, disabling and renewing two-factor authentication: MFAPanel  *)
(* over the external hook useMfa and over Sudo Mode.                       *)
(*                                                                         *)
(* The hook has one loading flag and one error for all its operations.     *)
(* Renewing the backup codes, and leaving the enrolment, are not disabled  *)
(* while another operation is in flight, so operations may overlap.        *)
(* Backup codes are the number of their issue.                             *)
(***************************************************************************)
EXTENDS Naturals, FiniteSets

CONSTANTS
    MaxIssues,   \* bound: issues of backup codes
    Slots,       \* bound: operations that wait or are in flight
    Free         \* a slot without an operation

Issues == 0..MaxIssues
NoCodes == 0

\* Sudo Mode holds an operation that is asked, with its dialog open, or verifying: its
\* dialog was dismissed while it awaited an answer, which will still run the operation.
\* One is left when its panel was unmounted; codes is what it answers.
Task == [kind : {"load", "enroll", "activate", "disable", "regenerate"},
         stage : {"asked", "verifying", "sent", "done"}, enabled : BOOLEAN, codes : Issues, left : BOOLEAN]

MfaAssumption == MaxIssues \in Nat /\ Free \notin Task

VARIABLES
    enabled,     \* the server: two-factor authentication is active
    codes,       \* and its valid backup codes
    issued,      \* bound and identity of the issues
    status, enrollment, backupCodes, loading, error,   \* of the hook
    resolved,    \* hasResolvedInitialLoad
    dialog,      \* showRegenerateModal, showDisableModal
    tasks,
    \* history
    known,       \* the status was read since the panel was mounted
    calm         \* no operation overlapped another, failed or was left since then

vars == <<enabled, codes, issued, status, enrollment, backupCodes, loading, error, resolved,
          dialog, tasks, known, calm>>

serverVars == <<enabled, codes, issued>>

New(kind, stage) ==
    [kind |-> kind, stage |-> stage, enabled |-> FALSE, codes |-> NoCodes, left |-> FALSE]
Used == {s \in Slots : tasks[s] # Free}
Asked == {s \in Used : tasks[s].stage = "asked"}
InFlight == {s \in Used : tasks[s].stage \in {"sent", "done"}}
Mine == {s \in Used : ~tasks[s].left}

TypeOK ==
    /\ {enabled, status, enrollment, loading, error, resolved, known, calm} \subseteq BOOLEAN
    /\ {codes, issued, backupCodes} \subseteq Issues
    /\ dialog \in {"none", "regenerate", "disable"}
    /\ tasks \in [Slots -> Task \cup {Free}]

\* The hook has started to read the status.
Init ==
    /\ enabled \in BOOLEAN
    /\ codes = NoCodes /\ issued = 0
    /\ status = FALSE /\ enrollment = FALSE /\ backupCodes = NoCodes
    /\ loading = TRUE /\ error = FALSE
    /\ resolved = FALSE
    /\ dialog = "none"
    /\ tasks \in {[t \in Slots |-> IF t = s THEN New("load", "sent") ELSE Free] : s \in Slots}
    /\ known = FALSE
    /\ calm = TRUE

-----------------------------------------------------------------------------

fatalLoadError == error /\ ~resolved
ContentShown == ~(loading /\ ~resolved) /\ ~fatalLoadError
Uncovered == Asked = {} /\ dialog = "none"

\* The effect on loading and error.
Resolve(isLoading, isError) == resolved' = (resolved \/ (~isLoading /\ ~isError))

\* External: an operation of the hook begins or ends.
Begin == loading' = TRUE /\ error' = FALSE /\ Resolve(TRUE, FALSE)
End(failed) == loading' = FALSE /\ error' = failed /\ Resolve(FALSE, failed)

Send(s, kind) ==
    /\ tasks[s] = Free
    /\ tasks' = [tasks EXCEPT ![s] = New(kind, "sent")]
    /\ Begin
    /\ calm' = (calm /\ InFlight = {})

reload(s) ==
    /\ Uncovered /\ fatalLoadError /\ ~loading
    /\ Send(s, "load")
    /\ UNCHANGED <<serverVars, status, enrollment, backupCodes, dialog, known>>

handleEnrollMFA(s) ==
    /\ Uncovered /\ ContentShown /\ ~status /\ ~enrollment /\ ~loading
    /\ Send(s, "enroll")
    /\ UNCHANGED <<serverVars, status, enrollment, backupCodes, dialog, known>>

\* External: the hook forgets the enrolment.  Cancel is never disabled.
cancelEnroll ==
    /\ Uncovered /\ ContentShown /\ enrollment
    /\ enrollment' = FALSE
    /\ UNCHANGED <<serverVars, status, backupCodes, loading, error, resolved, dialog, tasks, known, calm>>

handleActivateMFA(s) ==
    /\ Uncovered /\ ContentShown /\ enrollment /\ ~loading
    /\ Send(s, "activate")
    /\ UNCHANGED <<serverVars, status, enrollment, backupCodes, dialog, known>>

\* The buttons of an active status are never disabled.
OpenDialog(d) ==
    /\ Uncovered /\ ContentShown /\ status
    /\ dialog' = d
    /\ UNCHANGED <<serverVars, status, enrollment, backupCodes, loading, error, resolved, tasks, known, calm>>

CloseDialog ==
    /\ dialog # "none" /\ Asked = {}
    /\ dialog' = "none"
    /\ UNCHANGED <<serverVars, status, enrollment, backupCodes, loading, error, resolved, tasks, known, calm>>

handleDisableMFA(s) ==
    /\ dialog = "disable" /\ Asked = {} /\ ~loading
    /\ Send(s, "disable")
    /\ UNCHANGED <<serverVars, status, enrollment, backupCodes, dialog, known>>

\* requireSudo runs onSuccess or asks first.
handleRegenerateBackupCodes(s) ==
    /\ dialog = "regenerate" /\ Asked = {}
    /\ dialog' = "none"
    /\ \/ Send(s, "regenerate")
       \/ /\ tasks[s] = Free
          /\ tasks' = [tasks EXCEPT ![s] = New("regenerate", "asked")]
          /\ UNCHANGED <<loading, error, resolved, calm>>
    /\ UNCHANGED <<serverVars, status, enrollment, backupCodes, known>>

\* A verification succeeds, and closes the dialog whatever operation it is open for.
SudoRuns(s) ==
    /\ s \in Used \ InFlight
    /\ tasks' = [t \in Slots |-> IF t = s THEN [tasks[s] EXCEPT !.stage = "sent"]
                              ELSE IF t \in Asked THEN Free ELSE tasks[t]]
    /\ IF s \in Mine THEN Begin ELSE UNCHANGED <<loading, error, resolved>>
    /\ calm' = (calm /\ InFlight = {} /\ s \in Mine)
    /\ UNCHANGED <<serverVars, status, enrollment, backupCodes, dialog, known>>

\* Dismissing the dialog calls the operation off, unless it is being verified.
SudoDismissed(s) ==
    /\ s \in Used \ InFlight
    /\ \/ tasks' = [tasks EXCEPT ![s] = Free]
       \/ s \in Asked /\ tasks' = [tasks EXCEPT ![s].stage = "verifying"]
    /\ UNCHANGED <<serverVars, status, enrollment, backupCodes, loading, error, resolved, dialog, known, calm>>

\* External: the server carries an operation out.
Served(task, isEnabled, valid) ==
    [kind |-> task.kind, stage |-> "done", enabled |-> isEnabled, codes |-> valid, left |-> task.left]

Serve(s) ==
    /\ s \in Used /\ tasks[s].stage = "sent"
    /\ CASE tasks[s].kind \in {"load", "enroll"} -> UNCHANGED serverVars
         [] tasks[s].kind = "disable" -> enabled' = FALSE /\ codes' = NoCodes /\ UNCHANGED issued
         [] OTHER -> /\ issued < MaxIssues
                     /\ tasks[s].kind = "regenerate" => enabled
                     /\ enabled' = TRUE /\ issued' = issued + 1 /\ codes' = issued'
    /\ tasks' = [tasks EXCEPT ![s] = Served(@, enabled', codes')]
    /\ UNCHANGED <<status, enrollment, backupCodes, loading, error, resolved, dialog, known, calm>>

\* Faulty variant: the codes shown stay those of the activation.
SucceedKeepsCodes(s) ==
    /\ s \in Mine /\ tasks[s].stage = "done"
    /\ tasks' = [tasks EXCEPT ![s] = Free]
    /\ End(FALSE)
    /\ status' = tasks[s].enabled
    /\ enrollment' = (tasks[s].kind = "enroll" \/ (enrollment /\ tasks[s].kind # "activate"))
    /\ backupCodes' = IF tasks[s].kind = "activate" THEN tasks[s].codes ELSE backupCodes
    /\ dialog' = IF tasks[s].kind = "disable" /\ dialog = "disable" THEN "none" ELSE dialog
    /\ known' = (known \/ tasks[s].kind = "load")
    /\ UNCHANGED <<serverVars, calm>>

\* The awaits return: the hook takes the answer, and a dialog of its own closes.
Succeed(s) ==
    /\ s \in Mine /\ tasks[s].stage = "done"
    /\ tasks' = [tasks EXCEPT ![s] = Free]
    /\ End(FALSE)
    /\ status' = tasks[s].enabled
    /\ enrollment' = (tasks[s].kind = "enroll" \/ (enrollment /\ tasks[s].kind # "activate"))
    /\ backupCodes' = IF tasks[s].kind \in {"activate", "regenerate"} THEN tasks[s].codes ELSE backupCodes
    /\ dialog' = IF tasks[s].kind = "disable" /\ dialog = "disable" THEN "none" ELSE dialog
    /\ known' = (known \/ tasks[s].kind = "load")
    /\ UNCHANGED <<serverVars, calm>>

\* Faulty variant: a failed status request is taken for a disabled status.
FailResolves(s) ==
    /\ s \in Mine \cap InFlight
    /\ tasks' = [tasks EXCEPT ![s] = Free]
    /\ loading' = FALSE /\ error' = TRUE /\ resolved' = TRUE
    /\ calm' = FALSE
    /\ UNCHANGED <<serverVars, status, enrollment, backupCodes, dialog, known>>

Fail(s) ==
    /\ s \in Mine \cap InFlight
    /\ tasks' = [tasks EXCEPT ![s] = Free]
    /\ End(TRUE)
    /\ calm' = FALSE
    /\ UNCHANGED <<serverVars, status, enrollment, backupCodes, dialog, known>>

LeftEnds(s) ==
    /\ s \in InFlight \ Mine
    /\ tasks' = [tasks EXCEPT ![s] = Free]
    /\ UNCHANGED <<serverVars, status, enrollment, backupCodes, loading, error, resolved, dialog, known, calm>>

\* The tab is left, and reads the status again when it is entered.
Remount(s) ==
    /\ s \in Used => tasks[s].kind = "load"
    /\ status' = FALSE /\ enrollment' = FALSE /\ backupCodes' = NoCodes
    /\ loading' = TRUE /\ error' = FALSE /\ resolved' = FALSE
    /\ dialog' = "none"
    /\ known' = FALSE
    /\ tasks' = [t \in Slots |->
                    IF t = s THEN New("load", "sent")
                    ELSE IF t \in Used /\ tasks[t].kind # "load" THEN [tasks[t] EXCEPT !.left = TRUE]
                    ELSE Free]
    /\ calm' = (\A t \in InFlight : tasks[t].kind = "load")
    /\ UNCHANGED serverVars

Next ==
    \/ \E s \in Slots :
           \/ reload(s) \/ handleEnrollMFA(s) \/ handleActivateMFA(s) \/ handleDisableMFA(s)
           \/ handleRegenerateBackupCodes(s) \/ SudoRuns(s) \/ SudoDismissed(s)
           \/ Serve(s) \/ Succeed(s) \/ Fail(s) \/ LeftEnds(s) \/ Remount(s)
    \/ \E d \in {"regenerate", "disable"} : OpenDialog(d)
    \/ CloseDialog \/ cancelEnroll

Spec == Init /\ [][Next]_vars

-----------------------------------------------------------------------------

\* A status, enabled or disabled, is shown only when it was read: the SDK's default
\* of a disabled status is not presented when the first request failed.
StatusIsKnown == ContentShown => known

\* The status and the backup codes shown are the server's, unless operations
\* overlapped, failed or were left in flight by an earlier visit.
ShownCodesWork ==
    ContentShown /\ calm /\ InFlight = {} =>
        status = enabled /\ (status /\ backupCodes # NoCodes => backupCodes = codes)

=============================================================================
