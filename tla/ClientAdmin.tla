---------------------------- MODULE ClientAdmin ----------------------------
(***************************************************************************)
(* The OAuth clients page: ClientsTab, useClients and ClientSecretModal.   *)
(* Clients are registered, edited, deleted and given a new secret, and a   *)
(* secret that the server issued is shown once.                            *)
(*                                                                         *)
(* Nothing marks a registration or a rotation in flight, so they overlap;  *)
(* there is one dialog for all secrets and one editor for all clients, and *)
(* a late answer fills the one and closes the other.  Leaving the page     *)
(* takes back neither a request nor what Sudo Mode holds.                  *)
(***************************************************************************)
EXTENDS Naturals, FiniteSets

CONSTANTS
    Clients,    \* client ids, registered or not yet
    Slots,      \* bound: requests in flight
    Free,       \* a slot without a request
    None,       \* no client: nothing edited, pending or shown
    MaxOps      \* bound: operations asked for

\* A client that is not registered yet is absent; its id is not given to another.
Kinds == {"absent", "public", "confidential", "deleted"}
Registered == {"public", "confidential"}

Op == [type : {"update", "delete", "rotate"}, client : Clients]

\* A request, or a held operation, is left when its page was unmounted.
Held == [op : Op, left : BOOLEAN]
Call == [type : {"load", "create", "update", "delete", "rotate"}, client : Clients \cup {None},
         confidential : BOOLEAN, answered : BOOLEAN,
         listing : [Clients -> Kinds], secret : Nat, left : BOOLEAN]

ClientsAssumption ==
    /\ None \notin Clients \cup Op
    /\ Free \notin Call
    /\ MaxOps \in Nat

VARIABLES
    kind,             \* the server: what each client is
    secret,           \* the server's current secret of each client
    issued,           \* how many secrets it issued: they are all different
    rows,             \* clients
    loading,
    error,
    resolved,         \* hasResolvedInitialLoad
    editor,           \* showClientModal, editingClient and the form's is_confidential
    pendingAction,
    waiting,          \* operations that Sudo Mode holds
    calls,            \* what each slot awaits
    details,          \* newClientDetails, shown as long as it is there
    \* history
    asked,            \* operations asked for
    ops,              \* how many
    blurred           \* clients whose rotation overlapped another issue, or failed

vars == <<kind, secret, issued, rows, loading, error, resolved, editor, pendingAction,
          waiting, calls, details, asked, ops, blurred>>

server == <<kind, secret, issued>>
table == <<rows, loading, error, resolved>>
dialogs == <<editor, pendingAction, details>>
history == <<asked, ops, blurred>>

Editing == [client : Clients \cup {None}, confidential : BOOLEAN]

InFlight(type) == {s \in Slots : calls[s] # Free /\ calls[s].type = type}
Editors == InFlight("create") \cup InFlight("update")
Issuing == InFlight("create") \cup InFlight("rotate")
Busy == {s \in Slots : calls[s] # Free}
Mine == {s \in Busy : ~calls[s].left}

NoListing == [c \in Clients |-> "absent"]

Request(type, c, confidential, left) ==
    [type |-> type, client |-> c, confidential |-> confidential, answered |-> FALSE,
     listing |-> NoListing, secret |-> 0, left |-> left]

Send(type, c, confidential) == Request(type, c, confidential, FALSE)

TypeOK ==
    /\ kind \in [Clients -> Kinds]
    /\ secret \in [Clients -> Nat]
    /\ issued \in Nat
    /\ rows \in [Clients -> Kinds]
    /\ {loading, error, resolved} \subseteq BOOLEAN
    /\ editor \in Editing \cup {None}
    /\ pendingAction \in Op \cup {None}
    /\ waiting \subseteq Held
    /\ calls \in [Slots -> Call \cup {Free}]
    /\ details \in [client : Clients, secret : Nat] \cup {None}
    /\ asked \subseteq Op
    /\ ops \in 0..MaxOps
    /\ blurred \subseteq Clients

Init ==
    /\ kind \in [Clients -> Kinds \ {"deleted"}]
    /\ secret = [c \in Clients |-> 0]
    /\ issued = 0
    /\ rows = [c \in Clients |-> "absent"]
    /\ loading = TRUE
    /\ error = FALSE
    /\ resolved = FALSE
    /\ editor = None
    /\ pendingAction = None
    /\ waiting = {}
    /\ calls \in {[t \in Slots |-> IF t = s THEN Send("load", None, FALSE) ELSE Free] : s \in Slots}
    /\ details = None
    /\ asked = {}
    /\ ops = 0
    /\ blurred = {}

-----------------------------------------------------------------------------
(* The table *)

Listed(c) == rows[c] \in Registered

fatalLoadError == error /\ ~resolved
TableShown == (~loading \/ resolved) /\ ~fatalLoadError
EmptyShown == TableShown /\ \A c \in Clients : ~Listed(c)
Uncovered == editor = None /\ pendingAction = None /\ details = None

\* useClients: refresh, up to its await.
refresh(s) ==
    /\ calls' = [calls EXCEPT ![s] = Send("load", None, FALSE)]
    /\ loading' = TRUE
    /\ error' = FALSE
    /\ UNCHANGED <<rows, resolved>>

Reload(s) ==
    /\ error /\ Uncovered
    /\ calls[s] = Free
    /\ refresh(s)
    /\ UNCHANGED <<server, dialogs, waiting, history>>

LoadSucceeds(s) ==
    /\ s \in InFlight("load") /\ calls[s].answered
    /\ rows' = calls[s].listing
    /\ loading' = FALSE
    /\ resolved' = (resolved \/ ~error)
    /\ calls' = [calls EXCEPT ![s] = Free]
    /\ UNCHANGED <<server, error, dialogs, waiting, history>>

LoadFails(s) ==
    /\ s \in InFlight("load")
    /\ loading' = FALSE
    /\ error' = TRUE
    /\ calls' = [calls EXCEPT ![s] = Free]
    /\ UNCHANGED <<server, rows, resolved, dialogs, waiting, history>>

-----------------------------------------------------------------------------
(* Asking for operations *)

\* handleOpenClientModal.  The rows and the button above them are disabled
\* while the table loads, the button of the Empty state is not.
OpenEditor(c) ==
    /\ Uncovered
    /\ \/ c \in Clients /\ TableShown /\ ~loading /\ Listed(c)
       \/ c = None /\ (~loading \/ EmptyShown)
    /\ editor' = [client |-> c, confidential |-> c \in Clients /\ rows[c] = "confidential"]
    /\ UNCHANGED <<server, table, pendingAction, details, waiting, calls, history>>

\* Of a client that is being registered only.
ToggleConfidential ==
    /\ editor # None /\ editor.client = None
    /\ editor' = [editor EXCEPT !.confidential = ~@]
    /\ UNCHANGED <<server, table, pendingAction, details, waiting, calls, history>>

CloseEditor ==
    /\ editor # None
    /\ editor' = None
    /\ UNCHANGED <<server, table, pendingAction, details, waiting, calls, history>>

\* handleClientFormSubmit of a valid form, up to its await.
SubmitEditor(s) ==
    /\ editor # None
    /\ ops < MaxOps
    /\ calls[s] = Free
    /\ ops' = ops + 1
    /\ IF editor.client = None
       THEN /\ calls' = [calls EXCEPT ![s] = Send("create", None, editor.confidential)]
            /\ UNCHANGED asked
       ELSE /\ calls' = [calls EXCEPT ![s] = Send("update", editor.client, editor.confidential)]
            /\ asked' = asked \cup {[type |-> "update", client |-> editor.client]}
    /\ UNCHANGED <<server, table, dialogs, waiting, blurred>>

\* The buttons of a row open the confirmation dialog.
Ask(type, c) ==
    /\ Uncovered
    /\ TableShown /\ ~loading /\ Listed(c)
    /\ type = "rotate" => rows[c] = "confidential"
    /\ pendingAction' = [type |-> type, client |-> c]
    /\ UNCHANGED <<server, table, editor, details, waiting, calls, history>>

CancelAction ==
    /\ pendingAction # None
    /\ pendingAction' = None
    /\ UNCHANGED <<server, table, editor, details, waiting, calls, history>>

\* onSuccess begins in slot s.
Begin(op, left, s) ==
    /\ calls[s] = Free
    /\ calls' = [calls EXCEPT ![s] = Request(op.type, op.client, FALSE, left)]
    /\ blurred' = IF op.type = "rotate" /\ \E t \in Issuing : calls[t].client = op.client
                  THEN blurred \cup {op.client} ELSE blurred

\* confirmPendingAction: requireSudo runs it in slot s or asks first.
Confirm(s) ==
    /\ pendingAction # None
    /\ ops < MaxOps
    /\ ops' = ops + 1
    /\ pendingAction' = None
    /\ asked' = asked \cup {pendingAction}
    /\ \/ Begin(pendingAction, FALSE, s) /\ UNCHANGED waiting
       \/ waiting' = waiting \cup {[op |-> pendingAction, left |-> FALSE]} /\ UNCHANGED <<calls, blurred>>
    /\ UNCHANGED <<server, table, editor, details>>

\* Faulty variant: onSuccess reads pendingAction when it runs.
SudoRunsPending(held, s) ==
    /\ held \in waiting
    /\ waiting' = waiting \ {held}
    /\ Begin(IF pendingAction = None THEN held.op ELSE pendingAction, held.left, s)
    /\ UNCHANGED <<server, table, dialogs, asked, ops>>

SudoRuns(held, s) ==
    /\ held \in waiting
    /\ waiting' = waiting \ {held}
    /\ Begin(held.op, held.left, s)
    /\ UNCHANGED <<server, table, dialogs, asked, ops>>

SudoDismissed(held) ==
    /\ held \in waiting
    /\ waiting' = waiting \ {held}
    /\ UNCHANGED <<server, table, dialogs, calls, history>>

-----------------------------------------------------------------------------
(* External: the server *)

Answered(call, c, listing, sec) ==
    [type |-> call.type, client |-> c, confidential |-> call.confidential, answered |-> TRUE,
     listing |-> listing, secret |-> sec, left |-> call.left]

Answer(s) ==
    /\ s \in Busy /\ ~calls[s].answered
    /\ LET c == calls[s].client
           type == calls[s].type
       IN  \/ /\ type = "load"
              /\ calls' = [calls EXCEPT ![s] = Answered(calls[s], c, kind, 0)]
              /\ UNCHANGED server
           \/ /\ type = "create"
              /\ \E new \in {x \in Clients : kind[x] = "absent"} :
                     LET issue == calls[s].confidential
                     IN  /\ kind' = [kind EXCEPT ![new] = IF issue THEN "confidential" ELSE "public"]
                         /\ issued' = IF issue THEN issued + 1 ELSE issued
                         /\ secret' = [secret EXCEPT ![new] = IF issue THEN issued' ELSE @]
                         /\ calls' = [calls EXCEPT ![s] = Answered(calls[s], new, NoListing, secret'[new])]
           \/ /\ type = "update" /\ kind[c] \in Registered
              /\ kind' = [kind EXCEPT ![c] = IF calls[s].confidential THEN "confidential" ELSE "public"]
              /\ calls' = [calls EXCEPT ![s].answered = TRUE]
              /\ UNCHANGED <<secret, issued>>
           \/ /\ type = "delete" /\ kind[c] \in Registered
              /\ kind' = [kind EXCEPT ![c] = "deleted"]
              /\ calls' = [calls EXCEPT ![s].answered = TRUE]
              /\ UNCHANGED <<secret, issued>>
           \/ /\ type = "rotate" /\ kind[c] = "confidential"
              /\ issued' = issued + 1
              /\ secret' = [secret EXCEPT ![c] = issued']
              /\ calls' = [calls EXCEPT ![s] = Answered(calls[s], c, NoListing, issued')]
              /\ UNCHANGED kind
    /\ UNCHANGED <<table, dialogs, waiting, history>>

-----------------------------------------------------------------------------
(* What follows the awaits *)

ShowSecret(s) == details' = [client |-> calls[s].client, secret |-> calls[s].secret]

\* The editor closes, whatever it edits by now.
EditorSucceeds(s) ==
    /\ s \in Editors \cap Mine /\ calls[s].answered
    /\ editor' = None
    /\ IF calls[s].type = "create" /\ calls[s].confidential
       THEN ShowSecret(s)
       ELSE UNCHANGED details
    /\ refresh(s)
    /\ UNCHANGED <<server, pendingAction, waiting, history>>

DeleteSucceeds(s) ==
    /\ s \in InFlight("delete") \cap Mine /\ calls[s].answered
    /\ refresh(s)
    /\ UNCHANGED <<server, dialogs, waiting, history>>

\* Faulty variant: a dialog that is already open keeps its secret.
RotateMergesDetails(s) ==
    /\ s \in InFlight("rotate") \cap Mine /\ calls[s].answered
    /\ IF details = None THEN ShowSecret(s) ELSE details' = [details EXCEPT !.client = calls[s].client]
    /\ refresh(s)
    /\ UNCHANGED <<server, editor, pendingAction, waiting, history>>

RotateSucceeds(s) ==
    /\ s \in InFlight("rotate") \cap Mine /\ calls[s].answered
    /\ ShowSecret(s)
    /\ refresh(s)
    /\ UNCHANGED <<server, editor, pendingAction, waiting, history>>

\* A message is shown, or nobody is left to show one.
OperationFails(s) ==
    /\ s \in Busy \ InFlight("load")
    /\ calls' = [calls EXCEPT ![s] = Free]
    /\ blurred' = IF calls[s].type = "rotate" THEN blurred \cup {calls[s].client} ELSE blurred
    /\ UNCHANGED <<server, table, dialogs, waiting, asked, ops>>

CloseSecret ==
    /\ details # None
    /\ details' = None
    /\ UNCHANGED <<server, table, editor, pendingAction, waiting, calls, history>>

\* What succeeds after its page was left.
LeftSucceeds(s) ==
    /\ s \in Busy \ Mine /\ calls[s].answered
    /\ calls' = [calls EXCEPT ![s] = Free]
    /\ blurred' = IF calls[s].type = "rotate" THEN blurred \cup {calls[s].client} ELSE blurred
    /\ UNCHANGED <<server, table, dialogs, waiting, asked, ops>>

\* The page is left, and reads the clients again when it is entered.
Remount(s) ==
    /\ calls[s] = Free
    /\ rows' = [c \in Clients |-> "absent"]
    /\ loading' = TRUE /\ error' = FALSE /\ resolved' = FALSE
    /\ editor' = None /\ pendingAction' = None /\ details' = None
    /\ waiting' = {[held EXCEPT !.left = TRUE] : held \in waiting}
    /\ calls' = [t \in Slots |->
                    IF t = s THEN Send("load", None, FALSE)
                    ELSE IF t \in Busy \ InFlight("load") THEN [calls[t] EXCEPT !.left = TRUE]
                    ELSE Free]
    /\ UNCHANGED <<server, history>>

Next ==
    \/ \E c \in Clients \cup {None} : OpenEditor(c)
    \/ \E c \in Clients, type \in {"delete", "rotate"} : Ask(type, c)
    \/ ToggleConfidential \/ CloseEditor \/ CancelAction \/ CloseSecret
    \/ \E held \in waiting : SudoDismissed(held) \/ \E s \in Slots : SudoRuns(held, s)
    \/ \E s \in Slots :
           \/ Reload(s) \/ LoadSucceeds(s) \/ LoadFails(s)
           \/ SubmitEditor(s) \/ Confirm(s) \/ Answer(s) \/ EditorSucceeds(s)
           \/ DeleteSucceeds(s) \/ RotateSucceeds(s) \/ OperationFails(s)
           \/ LeftSucceeds(s) \/ Remount(s)

Spec == Init /\ [][Next]_vars

-----------------------------------------------------------------------------

\* A client changes on the server only as it was asked for in the dialog that
\* named it, whatever the page shows when Sudo Mode lets the operation run.
OnlyAskedChanges ==
    [][\A c \in Clients :
           kind[c] # "absent" =>
               /\ kind'[c] # kind[c] => [type |-> IF kind'[c] = "deleted" THEN "delete" ELSE "update",
                                        client |-> c] \in asked
               /\ secret'[c] # secret[c] => [type |-> "rotate", client |-> c] \in asked]_vars

\* The secret that is shown is the one the client it is shown with has, unless
\* a rotation of that client is under way, failed, or overlapped with what issued
\* the secret.
ShownSecretWorks ==
    \/ details = None
    \/ details.client \in blurred
    \/ \E s \in Issuing : calls[s].client = details.client
    \/ details.secret = secret[details.client]

=============================================================================
