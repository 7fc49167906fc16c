----------------------------- MODULE UserTable -----------------------------
(***************************************************************************)
(* The table of user accounts: useAdminUsers, which loads a page of it,    *)
(* and the operations of UsersTab that change accounts and reload.         *)
(*                                                                         *)
(* Nothing cancels or numbers a request, so reads overlap and are answered *)
(* in any order, and a handler that awaits a write reloads with the page   *)
(* of the render it was created in.                                        *)
(***************************************************************************)
EXTENDS Naturals, FiniteSets, SequencesExt

CONSTANTS
    Accounts,    \* account ids
    Self,        \* currentAdmin.sub
    Listed,      \* the accounts that exist at first, in the server's order
    PageSize,    \* PAGE_SIZE
    Reads,       \* slots for reads in flight
    Writes,      \* slots for writes in flight
    MaxChanges   \* bound: writes begun here and changes made by others, together

ASSUME AccountsAssumption ==
    /\ Self \in Accounts
    /\ Listed \in Seq(Accounts)
    /\ \E i \in DOMAIN Listed : Listed[i] = Self
    /\ \A i, j \in DOMAIN Listed : Listed[i] = Listed[j] => i = j
    /\ PageSize \in Nat \ {0}
    /\ MaxChanges \in Nat

VARIABLES
    \* server
    list,       \* the accounts, in listing order
    status,     \* whether each is active or suspended
    \* page
    page, rows, total, loading, error,   \* useAdminUsers
    hasResolvedInitialLoad,
    pendingAction,   \* the confirmation dialog, with the row it was opened from
    showCreateUserModal,
    reads,           \* refresh() calls that await the server
    writes,          \* operations that await Sudo Mode or the server
    \* history
    raced,       \* the last reload may show less than what happened since
    begun,       \* how many writes were begun
    foreign      \* how many changes others have made

vars == <<list, status, page, rows, total, loading, error, hasResolvedInitialLoad,
          pendingAction, showCreateUserModal, reads, writes, raced, begun, foreign>>

Status == {"active", "suspended"}
Row == [id : Accounts, status : Status]

\* Operations on a row; the last two go through Sudo Mode.
RowOps == {"status", "unlock", "delete", "reset-mfa"}
Guarded == {"delete", "reset-mfa"}
Ops == RowOps \cup {"create"}

Closed == [op |-> "none"]
NoRead == [phase |-> "free"]
NoWrite == [phase |-> "free"]

TypeOK ==
    /\ list \in Seq(Accounts)
    /\ status \in [Accounts -> Status]
    /\ page \in Nat \ {0}
    /\ rows \subseteq Row
    /\ total \in Nat
    /\ {loading, error, hasResolvedInitialLoad, showCreateUserModal, raced}
          \subseteq BOOLEAN
    /\ pendingAction = Closed \/ pendingAction \in [op : RowOps, row : Row]
    /\ \A r \in Reads :
          \/ reads[r] = NoRead
          \/ reads[r] \in [phase : {"sent"}, page : Nat \ {0}]
          \/ reads[r] \in [phase : {"answered"}, page : Nat \ {0}, rows : SUBSET Row, total : Nat]
    /\ \A w \in Writes :
          \/ writes[w] = NoWrite
          \/ writes[w] \in [phase : {"sudo", "sent", "applied"}, op : Ops, id : Accounts,
                            offered : Status, status : Status, page : Nat \ {0}]
    /\ begun \in 0..MaxChanges
    /\ foreign \in 0..MaxChanges

\* What the server answers for page p.
Listing(p) ==
    {[id |-> list[i], status |-> status[list[i]]] :
        i \in {j \in DOMAIN list : (p - 1) * PageSize < j /\ j <= p * PageSize}}

Exists(a) == \E i \in DOMAIN list : list[i] = a

\* The list without an account that exists: it is listed once.
Without(a) == RemoveAt(list, CHOOSE i \in DOMAIN list : list[i] = a)

Reading == \E r \in Reads : reads[r].phase # "free"
Writing == \E w \in Writes : writes[w].phase # "free"

\* The component has mounted and its effect has sent the first read.
Init ==
    /\ list = Listed
    /\ status \in {f \in [Accounts -> Status] :
                     \A a \in Accounts : a = Self \/ ~Exists(a) => f[a] = "active"}
    /\ page = 1
    /\ rows = {}
    /\ total = 0
    /\ loading = TRUE
    /\ error = FALSE
    /\ hasResolvedInitialLoad = FALSE
    /\ pendingAction = Closed
    /\ showCreateUserModal = FALSE
    /\ \E first \in Reads :
          reads = [r \in Reads |-> IF r = first THEN [phase |-> "sent", page |-> 1] ELSE NoRead]
    /\ writes = [w \in Writes |-> NoWrite]
    /\ raced = FALSE
    /\ begun = 0
    /\ foreign = 0

server == <<list, status, foreign>>
table == <<rows, total, hasResolvedInitialLoad>>
dialogs == <<pendingAction, showCreateUserModal>>

-----------------------------------------------------------------------------

\* What the page renders.
initialLoading == loading /\ ~hasResolvedInitialLoad
fatalLoadError == error /\ ~hasResolvedInitialLoad
Resolved == ~initialLoading /\ ~fatalLoadError
EmptyShown == Resolved /\ rows = {}
TableShown == Resolved /\ rows # {}

\* An open dialog covers the page.
Uncovered == pendingAction = Closed /\ ~showCreateUserModal

\* refresh() of a render in which the page was p.  A reload is on its own terms
\* when no other is in flight; it forgets earlier races when nothing is being
\* written and it reads the page in view.
refresh(r, p) ==
    /\ reads[r].phase = "free"
    /\ reads' = [reads EXCEPT ![r] = [phase |-> "sent", page |-> p]]
    /\ loading' = TRUE
    /\ error' = FALSE
    /\ raced' = (Reading \/ (raced /\ (Writing \/ p # page)))

\* External: the server answers with the page as it is now.
AnswerRead(r) ==
    /\ reads[r].phase = "sent"
    /\ reads' = [reads EXCEPT ![r] =
           [phase |-> "answered", page |-> @.page,
            rows |-> Listing(@.page), total |-> Len(list)]]
    /\ UNCHANGED <<server, table, page, loading, error, dialogs, writes,
                   raced, begun>>

\* The await returns; the effect then notes the first success.
ReadSucceeds(r) ==
    /\ reads[r].phase = "answered"
    /\ rows' = reads[r].rows
    /\ total' = reads[r].total
    /\ loading' = FALSE
    /\ hasResolvedInitialLoad' = (hasResolvedInitialLoad \/ ~error)
    /\ reads' = [reads EXCEPT ![r] = NoRead]
    /\ UNCHANGED <<server, page, error, dialogs, writes, raced, begun>>

\* The await throws.
ReadFails(r) ==
    /\ reads[r].phase # "free"
    /\ error' = TRUE
    /\ loading' = FALSE
    /\ reads' = [reads EXCEPT ![r] = NoRead]
    /\ UNCHANGED <<server, table, page, dialogs, writes, raced, begun>>

\* Pagination's onChange, and the effect of the new refresh callback.  A write
\* under way will reload the page it was clicked on.
SetPage(p) ==
    /\ TableShown /\ ~loading
    /\ Uncovered
    /\ p # page /\ (p - 1) * PageSize < total
    /\ page' = p
    /\ \E r \in Reads :
          /\ reads[r].phase = "free"
          /\ reads' = [reads EXCEPT ![r] = [phase |-> "sent", page |-> p]]
    /\ loading' = TRUE
    /\ error' = FALSE
    /\ raced' = (Reading \/ Writing)
    /\ UNCHANGED <<server, table, dialogs, writes, begun>>

\* The Reload button of the error alert; or another language, which renews `t`,
\* and with it refresh and its effect.
Reload ==
    /\ Uncovered
    /\ \E r \in Reads : refresh(r, page)
    /\ UNCHANGED <<server, table, page, dialogs, writes, begun>>

-----------------------------------------------------------------------------

\* Faulty variant: the destructive item of the menu does not look at isSelf.
OpenForAnyRow(op, row) ==
    /\ TableShown
    /\ Uncovered
    /\ row \in rows
    /\ op # "delete" => row.id # Self
    /\ pendingAction' = [op |-> op, row |-> row]
    /\ UNCHANGED <<server, table, page, loading, error, showCreateUserModal, reads, writes, raced, begun>>

\* A row's button or menu item opens the confirmation; all four are disabled on
\* the administrator's own row, none while the table is loading.
OpenConfirmation(op, row) ==
    /\ TableShown
    /\ Uncovered
    /\ row \in rows
    /\ row.id # Self
    /\ pendingAction' = [op |-> op, row |-> row]
    /\ UNCHANGED <<server, table, page, loading, error, showCreateUserModal, reads, writes, raced, begun>>

CancelConfirmation ==
    /\ pendingAction # Closed
    /\ pendingAction' = Closed
    /\ UNCHANGED <<server, table, page, loading, error, showCreateUserModal, reads, writes, raced, begun>>

\* The status the dialog offers, from the row it was opened on.
Opposite(s) == IF s = "active" THEN "suspended" ELSE "active"

\* Faulty variant: the status is toggled from the row as it is shown now.
ToggleShownRow(action) ==
    IF \E row \in rows : row.id = action.row.id
    THEN Opposite((CHOOSE row \in rows : row.id = action.row.id).status)
    ELSE Opposite(action.row.status)

TargetStatus(action) == Opposite(action.row.status)

\* confirmPendingAction: the dialog closes and the operation starts, at once or
\* in Sudo Mode.  Its later reload is the one of this render.
Confirm(w) ==
    /\ pendingAction # Closed
    /\ writes[w].phase = "free" /\ begun + foreign < MaxChanges
    /\ pendingAction' = Closed
    /\ LET op == pendingAction.op
       IN  writes' = [writes EXCEPT ![w] =
               [phase |-> IF op \in Guarded THEN "sudo" ELSE "sent", op |-> op,
                id |-> pendingAction.row.id, offered |-> Opposite(pendingAction.row.status),
                status |-> TargetStatus(pendingAction), page |-> page]]
    /\ begun' = begun + 1
    /\ UNCHANGED <<server, table, page, loading, error, showCreateUserModal, reads, raced>>

\* "Add user", in the lead (disabled while loading) or in the Empty state.
OpenCreateUser ==
    /\ ~loading \/ EmptyShown
    /\ Uncovered
    /\ showCreateUserModal' = TRUE
    /\ UNCHANGED <<server, table, page, loading, error, pendingAction, reads, writes,
                   raced, begun>>

\* Cancel, Escape, or the timer started after a success.
CloseCreateUser ==
    /\ showCreateUserModal
    /\ showCreateUserModal' = FALSE
    /\ UNCHANGED <<server, table, page, loading, error, pendingAction, reads, writes,
                   raced, begun>>

\* handleCreateUser; its button is disabled while a creation is under way.
CreateUser(w, a) ==
    /\ showCreateUserModal
    /\ \A v \in Writes : writes[v].phase # "free" => writes[v].op # "create"
    /\ ~Exists(a)
    /\ writes[w].phase = "free" /\ begun + foreign < MaxChanges
    /\ writes' = [writes EXCEPT ![w] =
           [phase |-> "sent", op |-> "create", id |-> a, offered |-> "active",
            status |-> "active", page |-> page]]
    /\ begun' = begun + 1
    /\ UNCHANGED <<server, table, page, loading, error, dialogs, reads, raced>>

\* Sudo Mode runs the operation, now or after a verification, or never does.
SudoRuns(w) ==
    /\ writes[w].phase = "sudo"
    /\ writes' = [writes EXCEPT ![w].phase = "sent"]
    /\ UNCHANGED <<server, table, page, loading, error, dialogs, reads, raced, begun>>

SudoDismissed(w) ==
    /\ writes[w].phase = "sudo"
    /\ writes' = [writes EXCEPT ![w] = NoWrite]
    /\ UNCHANGED <<server, table, page, loading, error, dialogs, reads, raced, begun>>

\* External: the server carries the request out, on an account it still has.
ApplyWrite(w) ==
    /\ writes[w].phase = "sent"
    /\ LET op == writes[w].op
           id == writes[w].id
       IN  /\ Exists(id) <=> op # "create"
           /\ list' = CASE op = "create" -> Append(list, id)
                        [] op = "delete" -> Without(id)
                        [] OTHER         -> list
           /\ status' = IF op \in {"status", "create"}
                        THEN [status EXCEPT ![id] = writes[w].status] ELSE status
    /\ writes' = [writes EXCEPT ![w].phase = "applied"]
    /\ UNCHANGED <<foreign, table, page, loading, error, dialogs, reads, raced, begun>>

\* Faulty variant: the handler does not reload.
SucceedsWithoutReload(w) ==
    /\ writes[w].phase = "applied"
    /\ writes' = [writes EXCEPT ![w] = NoWrite]
    /\ UNCHANGED <<server, table, page, loading, error, dialogs, reads, raced, begun>>

\* The await returns: fetchAccounts().
WriteSucceeds(w) ==
    /\ writes[w].phase = "applied"
    /\ \E r \in Reads : refresh(r, writes[w].page)
    /\ writes' = [writes EXCEPT ![w] = NoWrite]
    /\ UNCHANGED <<server, table, page, dialogs, begun>>

\* The await throws: an error message and no reload, though the server may have
\* carried the request out.
WriteFails(w) ==
    /\ writes[w].phase \in {"sent", "applied"}
    /\ raced' = (raced \/ writes[w].phase = "applied")
    /\ writes' = [writes EXCEPT ![w] = NoWrite]
    /\ UNCHANGED <<server, table, page, loading, error, dialogs, reads, begun>>

\* External: another administrator changes or deletes an account.
ForeignChange ==
    /\ begun + foreign < MaxChanges
    /\ foreign' = foreign + 1
    /\ \E a \in Accounts \ {Self} :
          /\ Exists(a)
          /\ \/ /\ status' = [status EXCEPT ![a] = Opposite(@)]
                /\ UNCHANGED list
             \/ /\ list' = Without(a)
                /\ UNCHANGED status
    /\ raced' = TRUE
    /\ UNCHANGED <<table, page, loading, error, dialogs, reads, writes, begun>>

Next ==
    \/ \E r \in Reads : AnswerRead(r) \/ ReadSucceeds(r) \/ ReadFails(r)
    \/ \E p \in 1..Cardinality(Accounts) : SetPage(p)
    \/ Reload
    \/ \E op \in RowOps, row \in rows : OpenConfirmation(op, row)
    \/ CancelConfirmation \/ OpenCreateUser \/ CloseCreateUser
    \/ \E w \in Writes :
          \/ Confirm(w)
          \/ \E a \in Accounts : CreateUser(w, a)
          \/ SudoRuns(w) \/ SudoDismissed(w)
          \/ ApplyWrite(w) \/ WriteSucceeds(w) \/ WriteFails(w)
    \/ ForeignChange

Spec == Init /\ [][Next]_vars

-----------------------------------------------------------------------------

\* Nothing is offered, confirmed, held by Sudo Mode or requested for the
\* administrator's own account, whichever rows are shown when and whatever a
\* dialog was opened on, and it is never suspended or deleted.
SelfUntouched ==
    /\ Exists(Self) /\ status[Self] = "active"
    /\ pendingAction # Closed => pendingAction.row.id # Self
    /\ \A w \in Writes : writes[w].phase # "free" => writes[w].id # Self

\* Once everything has settled without an error, the table shows the accounts as
\* they are, its own changes included - unless reads overlapped, a page was
\* turned during a write, a write failed after the server had carried it out, or
\* someone else made a change, and nothing was reloaded since.
TableIsCurrent ==
    ~Reading /\ ~Writing /\ ~error /\ ~raced => rows = Listing(page) /\ total = Len(list)

\* A request changes an account in the words the administrator confirmed, however
\* the account and its row changed while the dialog was open or Sudo Mode asked:
\* "suspend" never turns into an activation, and no other account is touched.
OnlyConfirmedChanges ==
    [][foreign' = foreign =>
        \A a \in Accounts :
           /\ status'[a] # status[a] =>
                 \E w \in Writes : writes[w].phase = "sent" /\ writes[w].id = a
                                 /\ writes[w].op \in {"status", "create"}
                                 /\ writes[w].offered = status'[a]
           /\ Exists(a) /\ ~Exists(a)' =>
                 \E w \in Writes : writes[w].phase = "sent" /\ writes[w].id = a
                                 /\ writes[w].op = "delete"]_vars

=============================================================================
