-------------------------- MODULE UserTableProofs --------------------------
(***************************************************************************)
(* Proofs about UserTable for every set of accounts, every page size, any  *)
(* number of reads and writes that overlap and any number of changes.      *)
(***************************************************************************)
EXTENDS UserTable, TLAPS

Position == Nat \ {0}

ReadType ==
    {NoRead} \cup [phase : {"sent"}, page : Position]
             \cup [phase : {"answered"}, page : Position, rows : SUBSET Row, total : Nat]
WriteType ==
    {NoWrite} \cup [phase : {"sudo", "sent", "applied"}, op : Ops, id : Accounts,
                    offered : Status, status : Status, page : Position]

\* TypeOK, with the domains of the slots.
Typed ==
    /\ list \in Seq(Accounts)
    /\ status \in [Accounts -> Status]
    /\ page \in Position
    /\ rows \subseteq Row
    /\ total \in Nat
    /\ loading \in BOOLEAN /\ error \in BOOLEAN /\ hasResolvedInitialLoad \in BOOLEAN
    /\ showCreateUserModal \in BOOLEAN /\ raced \in BOOLEAN
    /\ pendingAction = Closed \/ pendingAction \in [op : RowOps, row : Row]
    /\ reads \in [Reads -> ReadType]
    /\ writes \in [Writes -> WriteType]
    /\ begun \in 0..MaxChanges
    /\ foreign \in 0..MaxChanges

\* No dialog is open for the administrator's own row, and no write is on its way
\* to the own account: a new account gets an id that no account has.
NotForSelf ==
    /\ pendingAction # Closed => pendingAction.row.id # Self
    /\ \A w \in Writes : writes[w].phase # "free" => writes[w].id # Self

\* The own account is there and active.
SelfActive == Exists(Self) /\ status[Self] = "active"

\* A write carries what the dialog offered.
CarriesOffer ==
    \A w \in Writes : writes[w].phase # "free" => writes[w].status = writes[w].offered

\* The inductive invariant.
IInv ==
    /\ Typed
    /\ NotForSelf
    /\ CarriesOffer
    /\ SelfActive

-----------------------------------------------------------------------------
(* Operators *)

\* The server answers a page with rows of accounts.
LEMMA ListingType ==
  ASSUME list \in Seq(Accounts), status \in [Accounts -> Status], NEW p \in Position
  PROVE  Listing(p) \subseteq Row /\ Len(list) \in Nat
<1>1. \A i \in DOMAIN list : list[i] \in Accounts /\ status[list[i]] \in Status
  OBVIOUS
<1> QED
  BY <1>1 DEF Listing, Row

\* Removing an account leaves every other one in the list.
LEMMA WithoutKeepsOthers ==
  ASSUME list \in Seq(Accounts), NEW a, Exists(a)
  PROVE  /\ Without(a) \in Seq(Accounts)
         /\ \A b : Exists(b) /\ b # a => \E i \in DOMAIN Without(a) : Without(a)[i] = b
<1> DEFINE k == CHOOSE i \in DOMAIN list : list[i] = a
<1>1. k \in 1..Len(list) /\ list[k] = a
  BY DEF Exists
<1>2. Without(a) = SubSeq(list, 1, k - 1) \o SubSeq(list, k + 1, Len(list))
  BY DEF Without, RemoveAt
<1> HIDE DEF k
<1> DEFINE before == SubSeq(list, 1, k - 1)
           after == SubSeq(list, k + 1, Len(list))
<1>3. /\ before \in Seq(Accounts) /\ Len(before) = k - 1
      /\ \A i \in 1..(k - 1) : before[i] = list[i]
  BY <1>1
<1>4. /\ after \in Seq(Accounts) /\ Len(after) = Len(list) - k
      /\ \A i \in 1..(Len(list) - k) : after[i] = list[k + i]
  BY <1>1
<1>5. Without(a) = before \o after
  BY <1>2
<1> HIDE DEF before, after
<1>6. /\ Without(a) \in Seq(Accounts) /\ Len(Without(a)) = Len(list) - 1
      /\ DOMAIN Without(a) = 1..(Len(list) - 1)
  BY <1>1, <1>3, <1>4, <1>5
<1>7. \A i \in 1..(k - 1) : Without(a)[i] = list[i]
  BY <1>1, <1>3, <1>4, <1>5
<1>8. \A i \in k..(Len(list) - 1) : Without(a)[i] = list[i + 1]
  <2> SUFFICES ASSUME NEW i \in k..(Len(list) - 1) PROVE Without(a)[i] = list[i + 1]
    OBVIOUS
  <2>1. Without(a)[i] = after[i - (k - 1)] /\ i - (k - 1) \in 1..(Len(list) - k)
    BY <1>1, <1>3, <1>4, <1>5
  <2>2. k + (i - (k - 1)) = i + 1
    BY <1>1
  <2> QED
    BY <1>4, <2>1, <2>2
<1>9. ASSUME NEW b, Exists(b), b # a PROVE \E i \in DOMAIN Without(a) : Without(a)[i] = b
  <2>1. PICK i \in 1..Len(list) : list[i] = b
    BY <1>9 DEF Exists
  <2>2. CASE i < k
    <3>1. i \in 1..(k - 1) /\ i \in 1..(Len(list) - 1)
      BY <1>1, <2>2
    <3> QED
      BY <1>6, <1>7, <2>1, <3>1
  <2>3. CASE k < i
    <3>1. i - 1 \in k..(Len(list) - 1) /\ i - 1 \in 1..(Len(list) - 1) /\ (i - 1) + 1 = i
      BY <1>1, <2>3
    <3> QED
      BY <1>6, <1>8, <2>1, <3>1
  <2>4. i # k
    BY <1>1, <1>9, <2>1
  <2> QED
    BY <1>1, <2>2, <2>3, <2>4
<1> QED
  BY <1>6, <1>9

\* Another status.
LEMMA OppositeType == \A s \in Status : Opposite(s) \in Status
  BY DEF Opposite, Status

-----------------------------------------------------------------------------
(* One lemma per group of actions *)

\* When the page mounts no dialog is open and nothing is written.
LEMMA InitIInv == Init => IInv
<1> SUFFICES ASSUME Init PROVE IInv
  OBVIOUS
<1> USE AccountsAssumption DEF Init
<1>1. list \in Seq(Accounts) /\ status \in [Accounts -> Status]
  OBVIOUS
<1>2. /\ page \in Position /\ rows \subseteq Row /\ total \in Nat
      /\ begun \in 0..MaxChanges /\ foreign \in 0..MaxChanges
  BY DEF Position
<1>3. reads \in [Reads -> ReadType]
  BY DEF ReadType, Position
<1>4. writes \in [Writes -> WriteType] /\ \A w \in Writes : writes[w].phase = "free"
  BY DEF WriteType, NoWrite
<1>5. Typed
  BY <1>1, <1>2, <1>3, <1>4 DEF Typed
<1>6. SelfActive
  BY DEF SelfActive, Exists
<1> QED
  BY <1>4, <1>5, <1>6 DEF IInv, NotForSelf, CarriesOffer

\* refresh() only starts a read.
LEMMA RefreshType ==
  ASSUME Typed, NEW r \in Reads, NEW p \in Position, refresh(r, p)
  PROVE  /\ reads' \in [Reads -> ReadType] /\ loading' \in BOOLEAN /\ error' \in BOOLEAN
         /\ raced' \in BOOLEAN
<1>1. [phase |-> "sent", page |-> p] \in ReadType
  BY DEF ReadType
<1> QED
  BY <1>1 DEF refresh, Typed, Reading, Writing

\* What neither changes an account nor a write nor opens a dialog keeps IInv.
LEMMA ReadStep ==
  ASSUME IInv, UNCHANGED <<list, status, foreign, begun, writes, showCreateUserModal>>,
         pendingAction' = Closed \/ UNCHANGED pendingAction,
         page' \in Position, rows' \subseteq Row, total' \in Nat,
         loading' \in BOOLEAN, error' \in BOOLEAN, hasResolvedInitialLoad' \in BOOLEAN,
         raced' \in BOOLEAN, reads' \in [Reads -> ReadType]
  PROVE  IInv'
<1>1. Typed'
  BY DEF IInv, Typed
<1> QED
  BY <1>1 DEF IInv, NotForSelf, CarriesOffer, SelfActive, Exists

\* Reads, page turns and reloads.
ReadAction ==
    \/ \E r \in Reads : AnswerRead(r) \/ ReadSucceeds(r) \/ ReadFails(r)
    \/ \E p \in 1..Cardinality(Accounts) : SetPage(p)
    \/ Reload \/ CancelConfirmation

\* They touch neither an account nor a write.
LEMMA ReadsStep == IInv /\ ReadAction => IInv'
<1> SUFFICES ASSUME IInv, ReadAction
             PROVE  IInv'
  OBVIOUS
<1> USE DEF server, table, dialogs
<1>1. ASSUME NEW r \in Reads, AnswerRead(r) PROVE IInv'
  <2>1. reads[r] \in [phase : {"sent"}, page : Position]
    BY <1>1 DEF AnswerRead, IInv, Typed, ReadType, NoRead
  <2>2. Listing(reads[r].page) \subseteq Row /\ Len(list) \in Nat
    BY <2>1, ListingType DEF IInv, Typed
  <2>3. [phase |-> "answered", page |-> reads[r].page,
         rows |-> Listing(reads[r].page), total |-> Len(list)] \in ReadType
    BY <2>1, <2>2 DEF ReadType
  <2>4. reads' \in [Reads -> ReadType]
    BY <1>1, <2>3 DEF AnswerRead, IInv, Typed
  <2> QED
    BY <1>1, <2>4, ReadStep DEF AnswerRead, IInv, Typed
<1>2. ASSUME NEW r \in Reads, ReadSucceeds(r) PROVE IInv'
  <2>1. reads[r] \in [phase : {"answered"}, page : Position, rows : SUBSET Row, total : Nat]
    BY <1>2 DEF ReadSucceeds, IInv, Typed, ReadType, NoRead
  <2>2. reads' \in [Reads -> ReadType]
    BY <1>2 DEF ReadSucceeds, IInv, Typed, ReadType
  <2>3. rows' \subseteq Row /\ total' \in Nat
    BY <1>2, <2>1 DEF ReadSucceeds
  <2>4. hasResolvedInitialLoad' \in BOOLEAN /\ loading' \in BOOLEAN
    BY <1>2 DEF ReadSucceeds, IInv, Typed
  <2> QED
    BY <1>2, <2>2, <2>3, <2>4, ReadStep DEF ReadSucceeds, IInv, Typed
<1>3. ASSUME NEW r \in Reads, ReadFails(r) PROVE IInv'
  <2>1. reads' \in [Reads -> ReadType]
    BY <1>3 DEF ReadFails, IInv, Typed, ReadType
  <2> QED
    BY <1>3, <2>1, ReadStep DEF ReadFails, IInv, Typed
<1>4. ASSUME NEW p \in 1..Cardinality(Accounts), SetPage(p) PROVE IInv'
  <2>1. p \in Position
    BY DEF Position
  <2>2. [phase |-> "sent", page |-> p] \in ReadType
    BY <2>1 DEF ReadType
  <2>3. reads' \in [Reads -> ReadType]
    BY <1>4, <2>2 DEF SetPage, IInv, Typed
  <2>4. raced' \in BOOLEAN /\ loading' \in BOOLEAN /\ error' \in BOOLEAN
    BY <1>4 DEF SetPage, Reading, Writing
  <2> QED
    BY <1>4, <2>1, <2>3, <2>4, ReadStep DEF SetPage, IInv, Typed
<1>5. CASE Reload
  <2>1. PICK r \in Reads : refresh(r, page)
    BY <1>5 DEF Reload
  <2>2. /\ reads' \in [Reads -> ReadType] /\ loading' \in BOOLEAN /\ error' \in BOOLEAN
        /\ raced' \in BOOLEAN
    BY <2>1, RefreshType DEF IInv, Typed
  <2> QED
    BY <1>5, <2>2, ReadStep DEF Reload, IInv, Typed
<1>6. CASE CancelConfirmation
  BY <1>6, ReadStep DEF CancelConfirmation, IInv, Typed
<1> QED
  BY <1>1, <1>2, <1>3, <1>4, <1>5, <1>6 DEF ReadAction

\* What the user does in the dialogs.
DialogAction ==
    \/ \E op \in RowOps, row \in rows : OpenConfirmation(op, row)
    \/ OpenCreateUser \/ CloseCreateUser
    \/ \E w \in Writes : Confirm(w) \/ \E a \in Accounts : CreateUser(w, a)

\* Only rows of other accounts open one, and only those are written to.
LEMMA DialogsStep == IInv /\ DialogAction => IInv'
<1> SUFFICES ASSUME IInv, DialogAction
             PROVE  IInv'
  OBVIOUS
<1> USE DEF server, table, dialogs
<1>1. ASSUME NEW op \in RowOps, NEW row \in rows, OpenConfirmation(op, row) PROVE IInv'
  <2>1. /\ pendingAction' = [op |-> op, row |-> row] /\ row \in Row /\ row.id # Self
        /\ UNCHANGED <<server, table, page, loading, error, showCreateUserModal, reads, writes,
                       raced, begun>>
    BY <1>1 DEF OpenConfirmation, IInv, Typed
  <2>2. pendingAction' \in [op : RowOps, row : Row] /\ pendingAction'.row.id # Self
    BY <2>1
  <2>3. Typed'
    BY <2>1, <2>2 DEF IInv, Typed
  <2> QED
    BY <2>1, <2>2, <2>3 DEF IInv, NotForSelf, CarriesOffer, SelfActive, Exists
<1>2. CASE OpenCreateUser \/ CloseCreateUser
  <2>1. Typed'
    BY <1>2 DEF OpenCreateUser, CloseCreateUser, IInv, Typed
  <2> QED
    BY <1>2, <2>1
       DEF OpenCreateUser, CloseCreateUser, IInv, NotForSelf, CarriesOffer, SelfActive, Exists
<1>3. ASSUME NEW w \in Writes, Confirm(w) PROVE IInv'
  <2> DEFINE op == pendingAction.op
             new == [phase |-> IF op \in Guarded THEN "sudo" ELSE "sent", op |-> op,
                     id |-> pendingAction.row.id, offered |-> Opposite(pendingAction.row.status),
                     status |-> TargetStatus(pendingAction), page |-> page]
  <2>1. pendingAction \in [op : RowOps, row : Row] /\ pendingAction.row.id # Self
    BY <1>3 DEF Confirm, IInv, Typed, NotForSelf
  <2>2. /\ pendingAction.row.id \in Accounts /\ op \in Ops
        /\ Opposite(pendingAction.row.status) \in Status
        /\ TargetStatus(pendingAction) = Opposite(pendingAction.row.status)
    BY <2>1, OppositeType DEF Row, Ops, TargetStatus
  <2>3. new \in WriteType /\ new.id # Self /\ new.status = new.offered
    BY <2>1, <2>2 DEF WriteType, IInv, Typed
  <2>4. /\ writes' = [writes EXCEPT ![w] = new] /\ pendingAction' = Closed
        /\ begun' \in 0..MaxChanges
        /\ UNCHANGED <<server, table, page, loading, error, showCreateUserModal, reads, raced>>
    BY <1>3, AccountsAssumption DEF Confirm, IInv, Typed
  <2> HIDE DEF new
  <2>5. /\ writes' \in [Writes -> WriteType]
        /\ \A v \in Writes : writes'[v] = IF v = w THEN new ELSE writes[v]
    BY <2>3, <2>4 DEF IInv, Typed
  <2>6. Typed'
    BY <2>4, <2>5 DEF IInv, Typed
  <2> QED
    BY <2>3, <2>4, <2>5, <2>6 DEF IInv, NotForSelf, CarriesOffer, SelfActive, Exists
<1>4. ASSUME NEW w \in Writes, NEW a \in Accounts, CreateUser(w, a) PROVE IInv'
  <2> DEFINE new == [phase |-> "sent", op |-> "create", id |-> a, offered |-> "active",
                     status |-> "active", page |-> page]
  <2>1. a # Self
    BY <1>4 DEF CreateUser, IInv, SelfActive
  <2>2. new \in WriteType /\ new.id # Self /\ new.status = new.offered
    BY <2>1 DEF WriteType, IInv, Typed, Ops, Status
  <2>3. /\ writes' = [writes EXCEPT ![w] = new]
        /\ begun' \in 0..MaxChanges
        /\ UNCHANGED <<server, table, page, loading, error, dialogs, reads, raced>>
    BY <1>4, AccountsAssumption DEF CreateUser, IInv, Typed
  <2> HIDE DEF new
  <2>4. /\ writes' \in [Writes -> WriteType]
        /\ \A v \in Writes : writes'[v] = IF v = w THEN new ELSE writes[v]
    BY <2>2, <2>3 DEF IInv, Typed
  <2>5. Typed'
    BY <2>3, <2>4 DEF IInv, Typed
  <2> QED
    BY <2>2, <2>3, <2>4, <2>5 DEF IInv, NotForSelf, CarriesOffer, SelfActive, Exists
<1> QED
  BY <1>1, <1>2, <1>3, <1>4 DEF DialogAction

\* Of a write under way: it is one of another account, with the status offered.
LEMMA WriteFacts ==
  ASSUME IInv, NEW w \in Writes, writes[w].phase # "free"
  PROVE  /\ writes[w] \in [phase : {"sudo", "sent", "applied"}, op : Ops, id : Accounts,
                           offered : Status, status : Status, page : Position]
         /\ writes[w].id # Self /\ writes[w].status = writes[w].offered
  BY DEF IInv, Typed, WriteType, NoWrite, NotForSelf, CarriesOffer

\* A write that goes on keeps what it carries.
LEMMA PhaseStep ==
  ASSUME IInv, NEW w \in Writes, writes[w].phase # "free", NEW ph \in {"sent", "applied"},
         writes' = [writes EXCEPT ![w].phase = ph]
  PROVE  /\ writes' \in [Writes -> WriteType]
         /\ \A v \in Writes : writes'[v].phase # "free" =>
                writes'[v].id # Self /\ writes'[v].status = writes'[v].offered
<1>1. /\ [writes[w] EXCEPT !.phase = ph] \in WriteType
      /\ [writes[w] EXCEPT !.phase = ph].id # Self
      /\ [writes[w] EXCEPT !.phase = ph].status = [writes[w] EXCEPT !.phase = ph].offered
  BY WriteFacts DEF WriteType
<1>2. \A v \in Writes : writes'[v] = IF v = w THEN [writes[w] EXCEPT !.phase = ph] ELSE writes[v]
  BY DEF IInv, Typed
<1> QED
  BY <1>1, <1>2 DEF IInv, Typed, NotForSelf, CarriesOffer

\* The operations, from Sudo Mode to their answer.
WriteAction ==
    \E w \in Writes :
        SudoRuns(w) \/ SudoDismissed(w) \/ ApplyWrite(w) \/ WriteSucceeds(w) \/ WriteFails(w)

\* The server changes the account that a write names, which is not the own one.
LEMMA ApplyStep == ASSUME IInv, NEW w \in Writes, ApplyWrite(w) PROVE IInv'
<1> USE DEF server, table, dialogs
<1> DEFINE op == writes[w].op
           id == writes[w].id
<1>1. /\ writes[w].phase = "sent" /\ (Exists(id) <=> op # "create")
      /\ list' = IF op = "create" THEN Append(list, id)
                 ELSE IF op = "delete" THEN Without(id) ELSE list
      /\ status' = IF op \in {"status", "create"}
                   THEN [status EXCEPT ![id] = writes[w].status] ELSE status
      /\ writes' = [writes EXCEPT ![w].phase = "applied"]
      /\ UNCHANGED <<foreign, table, page, loading, error, dialogs, reads, raced, begun>>
  BY DEF ApplyWrite
<1>2. id \in Accounts /\ id # Self /\ writes[w].status \in Status
  BY <1>1, WriteFacts
<1>3. writes' \in [Writes -> WriteType] /\ \A v \in Writes : writes'[v].phase # "free" =>
          writes'[v].id # Self /\ writes'[v].status = writes'[v].offered
  BY <1>1, PhaseStep
<1> HIDE DEF op, id
<1>4. list \in Seq(Accounts) /\ Exists(Self)
  BY DEF IInv, Typed, SelfActive
<1>5. list' \in Seq(Accounts) /\ Exists(Self)'
  <2>1. CASE op = "create"
    BY <1>1, <1>2, <1>4, <2>1 DEF Exists
  <2>2. CASE op = "delete"
    BY <1>1, <1>2, <1>4, <2>2, WithoutKeepsOthers DEF Exists
  <2>3. CASE op # "create" /\ op # "delete"
    BY <1>1, <1>4, <2>3 DEF Exists
  <2> QED
    BY <2>1, <2>2, <2>3
<1>6. status' \in [Accounts -> Status] /\ status'[Self] = status[Self]
  BY <1>1, <1>2, AccountsAssumption DEF IInv, Typed
<1>7. Typed'
  BY <1>1, <1>3, <1>5, <1>6 DEF IInv, Typed
<1> QED
  BY <1>1, <1>3, <1>5, <1>6, <1>7 DEF IInv, NotForSelf, CarriesOffer, SelfActive

\* What follows Sudo Mode and the server only frees the slot of a write.
LEMMA WritesStep == IInv /\ WriteAction => IInv'
<1> SUFFICES ASSUME IInv, NEW w \in Writes,
                    SudoRuns(w) \/ SudoDismissed(w) \/ ApplyWrite(w) \/ WriteSucceeds(w)
                        \/ WriteFails(w)
             PROVE  IInv'
  BY DEF WriteAction
<1> USE DEF server, table, dialogs
<1>1. CASE SudoRuns(w)
  <2>1. writes' \in [Writes -> WriteType] /\ \A v \in Writes : writes'[v].phase # "free" =>
            writes'[v].id # Self /\ writes'[v].status = writes'[v].offered
    BY <1>1, PhaseStep DEF SudoRuns
  <2>2. Typed'
    BY <1>1, <2>1 DEF SudoRuns, IInv, Typed
  <2> QED
    BY <1>1, <2>1, <2>2 DEF SudoRuns, IInv, NotForSelf, CarriesOffer, SelfActive, Exists
<1>2. CASE writes' = [writes EXCEPT ![w] = NoWrite]
           /\ UNCHANGED <<server, table, page, dialogs, begun>>
           /\ reads' \in [Reads -> ReadType] /\ loading' \in BOOLEAN /\ error' \in BOOLEAN
           /\ raced' \in BOOLEAN
  <2>1. /\ writes' \in [Writes -> WriteType]
        /\ \A v \in Writes : writes'[v] = IF v = w THEN NoWrite ELSE writes[v]
    BY <1>2 DEF IInv, Typed, WriteType
  <2>2. Typed'
    BY <1>2, <2>1 DEF IInv, Typed
  <2> QED
    BY <1>2, <2>1, <2>2 DEF IInv, NotForSelf, CarriesOffer, SelfActive, Exists, NoWrite
<1>3. CASE SudoDismissed(w)
  BY <1>2, <1>3 DEF SudoDismissed, IInv, Typed
<1>4. CASE WriteSucceeds(w)
  <2>1. writes[w].page \in Position
    BY <1>4, WriteFacts DEF WriteSucceeds
  <2>2. PICK r \in Reads : refresh(r, writes[w].page)
    BY <1>4 DEF WriteSucceeds
  <2>3. /\ reads' \in [Reads -> ReadType] /\ loading' \in BOOLEAN /\ error' \in BOOLEAN
        /\ raced' \in BOOLEAN
    BY <2>1, <2>2, RefreshType DEF IInv
  <2> QED
    BY <1>2, <1>4, <2>3 DEF WriteSucceeds
<1>5. CASE WriteFails(w)
  <2>1. raced' \in BOOLEAN
    BY <1>5 DEF WriteFails, IInv, Typed
  <2> QED
    BY <1>2, <1>5, <2>1 DEF WriteFails, IInv, Typed
<1> QED
  BY <1>1, <1>3, <1>4, <1>5, ApplyStep

\* Others change or delete accounts, but not that of the administrator at work.
LEMMA ForeignStep == IInv /\ ForeignChange => IInv'
<1> SUFFICES ASSUME IInv, ForeignChange
             PROVE  IInv'
  OBVIOUS
<1> USE DEF server, table, dialogs
<1>1. /\ foreign' \in 0..MaxChanges /\ raced' = TRUE
      /\ UNCHANGED <<table, page, loading, error, dialogs, reads, writes, begun>>
  BY AccountsAssumption DEF ForeignChange, IInv, Typed
<1>2. PICK a \in Accounts \ {Self} :
          /\ Exists(a)
          /\ \/ status' = [status EXCEPT ![a] = Opposite(status[a])] /\ UNCHANGED list
             \/ list' = Without(a) /\ UNCHANGED status
  BY DEF ForeignChange
<1>3. status' \in [Accounts -> Status] /\ status'[Self] = status[Self]
  BY <1>2, OppositeType, AccountsAssumption DEF IInv, Typed
<1>4. list' \in Seq(Accounts) /\ Exists(Self)'
  <2>1. CASE UNCHANGED list
    BY <2>1 DEF IInv, Typed, SelfActive, Exists
  <2>2. CASE list' = Without(a)
    <3>1. list \in Seq(Accounts) /\ Exists(Self) /\ Self # a
      BY DEF IInv, Typed, SelfActive
    <3> QED
      BY <1>2, <2>2, <3>1, WithoutKeepsOthers DEF Exists
  <2> QED
    BY <1>2, <2>1, <2>2
<1>5. Typed'
  BY <1>1, <1>3, <1>4 DEF IInv, Typed
<1> QED
  BY <1>1, <1>3, <1>4, <1>5 DEF IInv, NotForSelf, CarriesOffer, SelfActive

\* Every step of the page, of Sudo Mode, of the server and of others keeps IInv.
LEMMA IInvStep == IInv /\ [Next]_vars => IInv'
<1> SUFFICES ASSUME IInv, [Next]_vars
             PROVE  IInv'
  OBVIOUS
<1>1. CASE UNCHANGED vars
  BY <1>1 DEF vars, IInv, Typed, NotForSelf, CarriesOffer, SelfActive, Exists
<1>2. CASE Next
  BY <1>2, ReadsStep, DialogsStep, WritesStep, ForeignStep
     DEF Next, ReadAction, DialogAction, WriteAction
<1> QED
  BY <1>1, <1>2

-----------------------------------------------------------------------------

\* IInv holds in every reachable state of useAdminUsers and UsersTab.
THEOREM Invariance == Spec => []IInv
  BY InitIInv, IInvStep, PTL DEF Spec

\* The state of the table, its dialogs, requests and the server keeps its types.
THEOREM TypeCorrect == Spec => []TypeOK
<1>1. IInv => TypeOK
  BY DEF IInv, Typed, TypeOK, ReadType, WriteType, Position
<1> QED
  BY Invariance, <1>1, PTL

\* UsersTab offers, confirms, holds and requests no operation on the account of the
\* administrator who uses it, and that account is neither suspended nor deleted.
THEOREM KeepsSelf == Spec => []SelfUntouched
<1>1. IInv => SelfUntouched
  BY DEF IInv, NotForSelf, SelfActive, SelfUntouched
<1> QED
  BY Invariance, <1>1, PTL

\* Only the server's part of an operation, or someone else, changes an account.
LEMMA AccountsStep ==
  ASSUME IInv, [Next]_vars, foreign' = foreign
  PROVE  UNCHANGED <<list, status>> \/ \E w \in Writes : ApplyWrite(w)
<1> USE DEF server
<1>1. CASE ReadAction
  BY <1>1 DEF ReadAction, AnswerRead, ReadSucceeds, ReadFails, SetPage, Reload, CancelConfirmation
<1>2. CASE DialogAction
  BY <1>2 DEF DialogAction, OpenConfirmation, OpenCreateUser, CloseCreateUser, Confirm, CreateUser
<1>3. CASE WriteAction
  BY <1>3 DEF WriteAction, SudoRuns, SudoDismissed, WriteSucceeds, WriteFails
<1>4. ~ForeignChange
  BY DEF ForeignChange, IInv, Typed
<1>5. CASE UNCHANGED vars
  BY <1>5 DEF vars
<1> QED
  BY <1>1, <1>2, <1>3, <1>4, <1>5 DEF Next, ReadAction, DialogAction, WriteAction

\* confirmPendingAction and CreateUserModal change an account as it was confirmed,
\* and no other one.
THEOREM ChangesWhatWasConfirmed == Spec => OnlyConfirmedChanges
<1> DEFINE A ==
      foreign' = foreign =>
        \A a \in Accounts :
           /\ status'[a] # status[a] =>
                 \E w \in Writes : writes[w].phase = "sent" /\ writes[w].id = a
                                 /\ writes[w].op \in {"status", "create"}
                                 /\ writes[w].offered = status'[a]
           /\ Exists(a) /\ ~Exists(a)' =>
                 \E w \in Writes : writes[w].phase = "sent" /\ writes[w].id = a
                                 /\ writes[w].op = "delete"
<1>1. IInv /\ [Next]_vars => [A]_vars
  <2> SUFFICES ASSUME IInv, [Next]_vars, foreign' = foreign PROVE A
    OBVIOUS
  <2>1. CASE UNCHANGED <<list, status>>
    BY <2>1 DEF Exists
  <2>2. ASSUME NEW w \in Writes, ApplyWrite(w) PROVE A
    <3>1. writes[w].phase = "sent" /\ writes[w].status = writes[w].offered
      BY <2>2, WriteFacts DEF ApplyWrite
    <3>2. ASSUME NEW a \in Accounts, status'[a] # status[a]
          PROVE  writes[w].id = a /\ writes[w].op \in {"status", "create"}
                     /\ writes[w].offered = status'[a]
      BY <2>2, <3>1, <3>2 DEF ApplyWrite, IInv, Typed
    <3>3. ASSUME NEW a \in Accounts, Exists(a), ~Exists(a)'
          PROVE  writes[w].id = a /\ writes[w].op = "delete"
      <4>1. /\ list' = IF writes[w].op = "create" THEN Append(list, writes[w].id)
                       ELSE IF writes[w].op = "delete" THEN Without(writes[w].id) ELSE list
            /\ writes[w].op # "create" => Exists(writes[w].id)
        BY <2>2 DEF ApplyWrite
      <4>2. writes[w].op # "create"
        BY <3>3, <4>1 DEF Exists, IInv, Typed
      <4>3. writes[w].op = "delete"
        BY <3>3, <4>1, <4>2 DEF Exists
      <4>4. list' = Without(writes[w].id) /\ Exists(writes[w].id)
        BY <4>1, <4>3
      <4>5. \A b : Exists(b) /\ b # writes[w].id =>
                \E i \in DOMAIN Without(writes[w].id) : Without(writes[w].id)[i] = b
        BY <4>4, WithoutKeepsOthers DEF IInv, Typed
      <4>6. Exists(a)' <=> \E i \in DOMAIN list' : list'[i] = a
        BY DEF Exists
      <4> QED
        BY <3>3, <4>3, <4>4, <4>5, <4>6
    <3> QED
      BY <3>1, <3>2, <3>3
  <2> QED
    BY <2>1, <2>2, AccountsStep
<1> QED
  BY Invariance, <1>1, PTL DEF Spec, OnlyConfirmedChanges


-----------------------------------------------------------------------------
(* What the table shows *)

AppliedWrite == \E w \in Writes : writes[w].phase = "applied"

InFlight == {r \in Reads : reads[r].phase # "free"}

Current(shown, count) == shown = Listing(page) /\ count = Len(list)

\* While nothing raced, at most one read is in flight and it is of the page in
\* view, as is the reload of every write.  What was answered, and what is shown
\* when no read is in flight or has failed, is what the server has, unless it has
\* carried out a write whose handler is yet to reload.
Settles ==
    ~raced =>
        /\ \A r, s \in InFlight : r = s
        /\ \A r \in InFlight : reads[r].page = page
        /\ \A w \in Writes : writes[w].phase # "free" => writes[w].page = page
        /\ ~AppliedWrite =>
              /\ \A r \in InFlight : reads[r].phase = "answered" =>
                    Current(reads[r].rows, reads[r].total)
              /\ InFlight = {} /\ ~error => Current(rows, total)

\* A refresh that ends the race leaves one read, and it is of the page in view.
LEMMA RefreshSettles ==
  ASSUME IInv, Settles, NEW r \in Reads, NEW p \in Position, refresh(r, p), ~raced',
         ~raced => p = page
  PROVE  /\ p = page /\ (raced => ~Writing)
         /\ reads' = [reads EXCEPT ![r] = [phase |-> "sent", page |-> p]]
         /\ r \in InFlight' /\ \A q \in InFlight' : q = r
<1>1. ~Reading /\ (raced => ~Writing /\ p = page)
  BY DEF refresh
<1>2. reads' = [reads EXCEPT ![r] = [phase |-> "sent", page |-> p]]
  BY DEF refresh
<1>3. \A q \in Reads : reads[q].phase = "free"
  BY <1>1 DEF Reading
<1>4. r \in InFlight' /\ \A q \in InFlight' : q = r
  <2>1. reads'[r].phase # "free" /\ \A q \in Reads : q # r => reads'[q] = reads[q]
    BY <1>2 DEF IInv, Typed
  <2> QED
    BY <1>3, <2>1 DEF InFlight
<1> QED
  BY <1>1, <1>2, <1>4

\* What neither reads nor writes, changes an account nor turns the page.
LEMMA ElsewhereSettles ==
  ASSUME Settles, UNCHANGED <<list, status, page, rows, total, error, reads, writes, raced>>
  PROVE  Settles'
<1>1. Listing(page)' = Listing(page)
  BY DEF Listing
<1> QED
  BY <1>1 DEF Settles, InFlight, AppliedWrite, Current

\* A read is answered, shown or fails; a page is turned; the page is reloaded.
LEMMA ReadsSettle == IInv /\ Settles /\ ReadAction => Settles'
<1> SUFFICES ASSUME IInv, Settles, ReadAction, ~raced'
             PROVE  Settles'
  BY DEF Settles
<1> USE DEF server, table, dialogs
<1>1. ASSUME NEW r \in Reads, AnswerRead(r) PROVE Settles'
  <2>1. /\ ~raced /\ reads[r].phase = "sent"
        /\ UNCHANGED <<list, status, page, rows, total, error, writes>>
    BY <1>1 DEF AnswerRead
  <2>2. Listing(page)' = Listing(page)
    BY <2>1 DEF Listing
  <2>3. \A q \in Reads : reads'[q] =
            IF q = r THEN [phase |-> "answered", page |-> reads[r].page,
                           rows |-> Listing(reads[r].page), total |-> Len(list)]
                     ELSE reads[q]
    BY <1>1 DEF AnswerRead, IInv, Typed
  <2>4. r \in InFlight /\ reads[r].page = page
    BY <2>1 DEF InFlight, Settles
  <2>5. /\ InFlight' = InFlight
        /\ reads'[r].page = page /\ reads'[r].rows = Listing(page) /\ reads'[r].total = Len(list)
    BY <2>1, <2>3, <2>4 DEF InFlight
  <2>6. AppliedWrite' = AppliedWrite
    BY <2>1 DEF AppliedWrite
  <2>7. \A q \in InFlight : q = r
    BY <2>1, <2>4 DEF Settles
  <2> QED
    BY <2>1, <2>2, <2>4, <2>5, <2>6, <2>7 DEF Settles, Current
<1>2. ASSUME NEW r \in Reads, ReadSucceeds(r) PROVE Settles'
  <2>1. /\ ~raced /\ reads[r].phase = "answered"
        /\ rows' = reads[r].rows /\ total' = reads[r].total
        /\ UNCHANGED <<list, status, page, error, writes>>
    BY <1>2 DEF ReadSucceeds
  <2>2. Listing(page)' = Listing(page)
    BY <2>1 DEF Listing
  <2>3. r \in InFlight /\ \A q \in InFlight : q = r
    BY <2>1 DEF InFlight, Settles
  <2>4. InFlight' = {}
    BY <1>2, <2>3 DEF ReadSucceeds, InFlight, IInv, Typed, NoRead
  <2>5. AppliedWrite' = AppliedWrite
    BY <2>1 DEF AppliedWrite
  <2>6. ~AppliedWrite => Current(reads[r].rows, reads[r].total)
    BY <2>1, <2>3 DEF Settles
  <2> QED
    BY <2>1, <2>2, <2>4, <2>5, <2>6 DEF Settles, Current
<1>3. ASSUME NEW r \in Reads, ReadFails(r) PROVE Settles'
  <2>1. ~raced /\ error' /\ UNCHANGED <<page, writes>>
    BY <1>3 DEF ReadFails
  <2>2. r \in InFlight /\ \A q \in InFlight : q = r
    BY <1>3, <2>1 DEF ReadFails, InFlight, Settles
  <2>3. InFlight' = {}
    BY <1>3, <2>2 DEF ReadFails, InFlight, IInv, Typed, NoRead
  <2> QED
    BY <2>1, <2>3 DEF Settles
<1>4. ASSUME NEW p \in 1..Cardinality(Accounts), SetPage(p) PROVE Settles'
  <2>1. ~Reading /\ ~Writing /\ page' = p /\ UNCHANGED writes
    BY <1>4 DEF SetPage
  <2>2. PICK r \in Reads : reads' = [reads EXCEPT ![r] = [phase |-> "sent", page |-> p]]
    BY <1>4 DEF SetPage
  <2>3. \A q \in Reads : reads'[q] = IF q = r THEN [phase |-> "sent", page |-> p] ELSE reads[q]
    BY <2>2 DEF IInv, Typed
  <2>4. InFlight' = {r} /\ reads'[r].page = p /\ reads'[r].phase = "sent"
    BY <2>1, <2>3 DEF InFlight, Reading
  <2>5. \A w \in Writes : writes'[w].phase = "free"
    BY <2>1 DEF Writing
  <2> QED
    BY <2>1, <2>4, <2>5 DEF Settles
<1>5. CASE Reload
  <2>1. PICK r \in Reads : refresh(r, page)
    BY <1>5 DEF Reload
  <2>2. /\ raced => ~Writing
        /\ reads' = [reads EXCEPT ![r] = [phase |-> "sent", page |-> page]]
        /\ r \in InFlight' /\ \A q \in InFlight' : q = r
    BY <2>1, RefreshSettles DEF IInv, Typed
  <2>3. reads'[r].page = page /\ reads'[r].phase = "sent"
    BY <2>2 DEF IInv, Typed
  <2>4. UNCHANGED <<page, writes>>
    BY <1>5 DEF Reload
  <2>5. \A w \in Writes : writes[w].phase # "free" => writes[w].page = page
    BY <2>2 DEF Settles, Writing
  <2> QED
    BY <2>2, <2>3, <2>4, <2>5 DEF Settles
<1>6. CASE CancelConfirmation
  BY <1>6, ElsewhereSettles DEF CancelConfirmation
<1> QED
  BY <1>1, <1>2, <1>3, <1>4, <1>5, <1>6 DEF ReadAction

\* A write begins: it will reload the page in view.
LEMMA DialogsSettle == IInv /\ Settles /\ DialogAction => Settles'
<1> SUFFICES ASSUME IInv, Settles, DialogAction
             PROVE  Settles'
  OBVIOUS
<1> USE DEF server, table, dialogs
<1>1. ASSUME NEW op \in RowOps, NEW row \in rows, OpenConfirmation(op, row) PROVE Settles'
  BY <1>1, ElsewhereSettles DEF OpenConfirmation
<1>2. CASE OpenCreateUser \/ CloseCreateUser
  BY <1>2, ElsewhereSettles DEF OpenCreateUser, CloseCreateUser
<1>3. ASSUME NEW w \in Writes, NEW new, writes[w].phase = "free",
             new.page = page, new.phase \in {"sudo", "sent"},
             writes' = [writes EXCEPT ![w] = new],
             UNCHANGED <<list, status, page, rows, total, error, reads, raced>>
      PROVE  Settles'
  <2>1. \A v \in Writes : writes'[v] = IF v = w THEN new ELSE writes[v]
    BY <1>3 DEF IInv, Typed
  <2>2. AppliedWrite' = AppliedWrite
    BY <1>3, <2>1 DEF AppliedWrite
  <2>3. Listing(page)' = Listing(page) /\ InFlight' = InFlight
    BY <1>3 DEF Listing, InFlight
  <2> QED
    BY <1>3, <2>1, <2>2, <2>3 DEF Settles, Current
<1>4. ASSUME NEW w \in Writes, Confirm(w) PROVE Settles'
  <2> DEFINE op == pendingAction.op
             new == [phase |-> IF op \in Guarded THEN "sudo" ELSE "sent", op |-> op,
                     id |-> pendingAction.row.id, offered |-> Opposite(pendingAction.row.status),
                     status |-> TargetStatus(pendingAction), page |-> page]
  <2>1. new.page = page /\ new.phase \in {"sudo", "sent"}
    OBVIOUS
  <2>2. /\ writes[w].phase = "free" /\ writes' = [writes EXCEPT ![w] = new]
        /\ UNCHANGED <<list, status, page, rows, total, error, reads, raced>>
    BY <1>4 DEF Confirm
  <2> HIDE DEF new
  <2> QED
    BY <1>3, <2>1, <2>2
<1>5. ASSUME NEW w \in Writes, NEW a \in Accounts, CreateUser(w, a) PROVE Settles'
  <2> DEFINE new == [phase |-> "sent", op |-> "create", id |-> a, offered |-> "active",
                     status |-> "active", page |-> page]
  <2>1. new.page = page /\ new.phase \in {"sudo", "sent"}
    OBVIOUS
  <2>2. /\ writes[w].phase = "free" /\ writes' = [writes EXCEPT ![w] = new]
        /\ UNCHANGED <<list, status, page, rows, total, error, reads, raced>>
    BY <1>5 DEF CreateUser
  <2> HIDE DEF new
  <2> QED
    BY <1>3, <2>1, <2>2
<1> QED
  BY <1>1, <1>2, <1>4, <1>5 DEF DialogAction

\* A write that is carried out leaves the table to its reload; one whose answer
\* is lost after that has raced; the others leave accounts and table alone.
LEMMA WritesSettle == IInv /\ Settles /\ WriteAction => Settles'
<1> SUFFICES ASSUME IInv, Settles, ~raced', NEW w \in Writes,
                    SudoRuns(w) \/ SudoDismissed(w) \/ ApplyWrite(w) \/ WriteSucceeds(w)
                        \/ WriteFails(w)
             PROVE  Settles'
  BY DEF WriteAction, Settles
<1> USE DEF server, table, dialogs
<1>1. ASSUME NEW new, new.phase # "free" => new.page = writes[w].page /\ writes[w].phase # "free",
             writes' = [writes EXCEPT ![w] = new], ~raced, UNCHANGED page
      PROVE  /\ \A v \in Writes : writes'[v] = IF v = w THEN new ELSE writes[v]
             /\ \A v \in Writes : writes'[v].phase # "free" => writes'[v].page = page'
  <2>1. \A v \in Writes : writes'[v] = IF v = w THEN new ELSE writes[v]
    BY <1>1 DEF IInv, Typed
  <2> QED
    BY <1>1, <2>1 DEF Settles
<1>2. ASSUME NEW new, new.phase # "free" => new.page = writes[w].page /\ writes[w].phase # "free",
             new.phase # "applied", writes[w].phase # "applied",
             writes' = [writes EXCEPT ![w] = new],
             UNCHANGED <<list, status, page, rows, total, error, reads>>, ~raced
      PROVE  Settles'
  <2>1. /\ \A v \in Writes : writes'[v] = IF v = w THEN new ELSE writes[v]
        /\ \A v \in Writes : writes'[v].phase # "free" => writes'[v].page = page'
    BY <1>1, <1>2
  <2>2. AppliedWrite' = AppliedWrite
    BY <1>2, <2>1 DEF AppliedWrite
  <2>3. Listing(page)' = Listing(page) /\ InFlight' = InFlight
    BY <1>2 DEF Listing, InFlight
  <2> QED
    BY <1>2, <2>1, <2>2, <2>3 DEF Settles, Current
<1>3. CASE SudoRuns(w)
  <2> DEFINE new == [writes[w] EXCEPT !.phase = "sent"]
  <2>1. writes[w].phase = "sudo" /\ new.phase = "sent" /\ new.page = writes[w].page
    BY <1>3, WriteFacts DEF SudoRuns
  <2>2. writes' = [writes EXCEPT ![w] = new]
    BY <1>3 DEF SudoRuns
  <2> HIDE DEF new
  <2> QED
    BY <1>2, <1>3, <2>1, <2>2 DEF SudoRuns
<1>4. CASE SudoDismissed(w)
  BY <1>2, <1>4 DEF SudoDismissed, NoWrite
<1>5. CASE ApplyWrite(w)
  <2> DEFINE new == [writes[w] EXCEPT !.phase = "applied"]
  <2>1. writes[w].phase = "sent" /\ new.phase = "applied" /\ new.page = writes[w].page
    BY <1>5, WriteFacts DEF ApplyWrite
  <2>2. writes' = [writes EXCEPT ![w] = new] /\ ~raced /\ UNCHANGED <<page, reads>>
    BY <1>5 DEF ApplyWrite
  <2> HIDE DEF new
  <2>3. /\ \A v \in Writes : writes'[v] = IF v = w THEN new ELSE writes[v]
        /\ \A v \in Writes : writes'[v].phase # "free" => writes'[v].page = page'
    BY <1>1, <2>1, <2>2
  <2>4. AppliedWrite' /\ InFlight' = InFlight
    BY <2>1, <2>2, <2>3 DEF AppliedWrite, InFlight
  <2> QED
    BY <2>2, <2>3, <2>4 DEF Settles
<1>6. CASE WriteSucceeds(w)
  <2>1. writes[w].phase = "applied" /\ writes[w].page \in Position /\ Writing
    BY <1>6, WriteFacts DEF WriteSucceeds, Writing
  <2>2. PICK r \in Reads : refresh(r, writes[w].page)
    BY <1>6 DEF WriteSucceeds
  <2>3. ~raced => writes[w].page = page
    BY <2>1 DEF Settles
  <2>4. /\ writes[w].page = page /\ ~raced
        /\ reads' = [reads EXCEPT ![r] = [phase |-> "sent", page |-> page]]
        /\ r \in InFlight' /\ \A q \in InFlight' : q = r
    BY <2>1, <2>2, <2>3, RefreshSettles
  <2>5. reads'[r].page = page /\ reads'[r].phase = "sent"
    BY <2>4 DEF IInv, Typed
  <2>6. writes' = [writes EXCEPT ![w] = NoWrite] /\ UNCHANGED page
    BY <1>6 DEF WriteSucceeds
  <2>7. \A v \in Writes : writes'[v].phase # "free" => writes'[v].page = page'
    BY <1>1, <2>4, <2>6 DEF NoWrite
  <2> QED
    BY <2>4, <2>5, <2>6, <2>7 DEF Settles
<1>7. CASE WriteFails(w)
  BY <1>2, <1>7 DEF WriteFails, NoWrite
<1> QED
  BY <1>3, <1>4, <1>5, <1>6, <1>7

\* Settles is inductive relative to IInv.
LEMMA SettlesStep == IInv /\ Settles /\ [Next]_vars => Settles'
<1>1. ASSUME ForeignChange PROVE Settles'
  BY <1>1 DEF ForeignChange, Settles
<1>2. ASSUME Settles, UNCHANGED vars PROVE Settles'
  BY <1>2, ElsewhereSettles DEF vars
<1> QED
  BY <1>1, <1>2, ReadsSettle, DialogsSettle, WritesSettle
     DEF Next, ReadAction, DialogAction, WriteAction

\* Whatever order the answers of fetchAccounts come in: unless raced, the table
\* shows the accounts as the server has them once nothing is under way.
THEOREM ShowsCurrentTable == Spec => []TableIsCurrent
<1>1. Init => Settles
  <2> SUFFICES ASSUME Init PROVE Settles
    OBVIOUS
  <2>1. PICK first \in Reads :
            reads = [r \in Reads |-> IF r = first THEN [phase |-> "sent", page |-> 1] ELSE NoRead]
    BY DEF Init
  <2>2. InFlight = {first} /\ reads[first].phase = "sent" /\ reads[first].page = 1
    BY <2>1 DEF InFlight, NoRead
  <2>3. \A w \in Writes : writes[w].phase = "free"
    BY DEF Init, NoWrite
  <2> QED
    BY <2>2, <2>3 DEF Init, Settles
<1>2. Settles => TableIsCurrent
  BY DEF Settles, TableIsCurrent, Reading, Writing, InFlight, AppliedWrite, Current
<1> QED
  BY Invariance, SettlesStep, <1>1, <1>2, PTL DEF Spec
=============================================================================
