-------------------------- MODULE ManagementProofs --------------------------
(***************************************************************************)
(* Proofs about ManagementPages for every set of clients, accounts,        *)
(* filters and fields, every page size, any number of requests in flight   *)
(* and any number of visits.  The sections share no variable, so each has  *)
(* an inductive invariant and a lemma of its own.                          *)
(***************************************************************************)
EXTENDS ManagementPages, TLAPS

-----------------------------------------------------------------------------
(* The audit logs *)

\* A request that was made with nothing in flight is the only one, and asks what
\* the inputs hold; its answer is what is shown.
AuditAsked ==
    auditDirect =>
        /\ \A s, t \in Audit!InFlight : s = t
        /\ \A s \in Audit!InFlight : auditCalls[s].query.filter = filter
        /\ Audit!InFlight = {} => auditShown.filter = filter

\* No filter matches more entries than there are.
AuditFiltered == \A f \in Filters : entries[f] <= entries[NoFilter]

\* An answer has as many entries as its page of its total.
AuditAnswered ==
    \A s \in Audit!InFlight :
        auditCalls[s].answered =>
            auditCalls[s].logs = Audit!OnPage(auditCalls[s].total, auditCalls[s].query.page)

AuditInv ==
    Audit!TypeOK /\ Audit!PageIsOfShown /\ AuditAsked /\ AuditFiltered /\ AuditAnswered

\* A page holds between none and PageSize of the entries.
LEMMA OnPageType ==
  ASSUME Audit!LogsAssumption, NEW n \in 0..MaxLogs, NEW p \in Audit!Pages
  PROVE  Audit!OnPage(n, p) \in 0..PageSize
<1>1. PageSize \in Nat /\ p \in Nat /\ p >= 1 /\ n \in Nat
  BY DEF Audit!LogsAssumption, Audit!Pages
<1> DEFINE before == (p - 1) * PageSize
<1>2. before \in Nat
  BY <1>1
<1>3. p * PageSize = before + PageSize
  BY <1>1
<1> HIDE DEF before
<1>4. Audit!OnPage(n, p) = IF n <= before THEN 0
                           ELSE IF n < before + PageSize THEN n - before ELSE PageSize
  BY <1>3 DEF Audit!OnPage, before
<1> QED
  BY <1>1, <1>2, <1>4

LEMMA AuditFirst ==
  ASSUME Audit!LogsAssumption
  PROVE  1 \in Audit!Pages /\ Audit!NotShown \in Audit!Query
<1>1. MaxLogs \div PageSize \in Nat
  BY DEF Audit!LogsAssumption
<1> QED
  BY <1>1 DEF Audit!LogsAssumption, Audit!Pages, Audit!NotShown, Audit!Query

LEMMA AskType ==
  ASSUME Audit!LogsAssumption, NEW p \in Audit!Pages, NEW f \in Filters
  PROVE  /\ Audit!Ask(p, f) \in Audit!Call
         /\ Audit!Ask(p, f) # Free
         /\ Audit!Ask(p, f).query.filter = f
<1>1. 0 \in 0..PageSize /\ 0 \in 0..MaxLogs
  BY DEF Audit!LogsAssumption
<1>2. [page |-> p, filter |-> f] \in Audit!Query
  BY DEF Audit!Query
<1>3. Audit!Ask(p, f) \in Audit!Call
  BY <1>1, <1>2 DEF Audit!Ask, Audit!Call
<1> QED
  BY <1>3 DEF Audit!Ask, Audit!LogsAssumption

\* What leaves the table alone keeps its page number and its total.
LEMMA PageKept ==
  ASSUME Audit!PageIsOfShown, UNCHANGED <<logs, total, page, auditShown>>
  PROVE  Audit!PageIsOfShown'
<1> QED
  BY DEF Audit!PageIsOfShown, Audit!OnPage

\* So do the answers on their way when requests begin or end.
LEMMA AnswersKept ==
  ASSUME AuditAnswered, \A s \in Slots : \/ auditCalls'[s] = auditCalls[s]
                                        \/ auditCalls'[s] = Free
                                        \/ ~auditCalls'[s].answered
  PROVE  AuditAnswered'
<1> QED
  BY DEF AuditAnswered, Audit!InFlight, Audit!OnPage

\* An empty table is its first page.
LEMMA NoneOnPage ==
  ASSUME Audit!LogsAssumption
  PROVE  Audit!OnPage(0, 1) = 0
<1> QED
  BY DEF Audit!OnPage, Audit!LogsAssumption

LEMMA AuditInit ==
  ASSUME Audit!LogsAssumption, Audit!Init
  PROVE  AuditInv
<1>1. NoFilter \in Filters
  BY DEF Audit!LogsAssumption
<1>2. PICK s0 \in Slots : auditCalls = [t \in Slots |-> IF t = s0 THEN Audit!Ask(1, NoFilter) ELSE Free]
  BY DEF Audit!Init
<1>3. Audit!Ask(1, NoFilter) \in Audit!Call /\ Audit!Ask(1, NoFilter) # Free
      /\ Audit!Ask(1, NoFilter).query.filter = NoFilter
  BY <1>1, AuditFirst, AskType
<1>4. 0 \in 0..PageSize /\ 0 \in 0..MaxLogs
  BY DEF Audit!LogsAssumption
<1>5. auditCalls \in [Slots -> Audit!Call \cup {Free}]
  BY <1>2, <1>3
<1>6. Audit!TypeOK
  BY <1>1, <1>4, <1>5, AuditFirst DEF Audit!Init, Audit!TypeOK
<1>7. AuditAsked
  BY <1>2, <1>3 DEF AuditAsked, Audit!InFlight, Audit!Init
<1>8. AuditAnswered
  BY <1>2 DEF AuditAnswered, Audit!InFlight, Audit!Ask
<1>9. Audit!PageIsOfShown
  BY NoneOnPage DEF Audit!PageIsOfShown, Audit!Init, Audit!NotShown
<1> QED
  BY <1>6, <1>7, <1>8, <1>9 DEF AuditInv, AuditFiltered, Audit!Init

\* What asks for a page: a new request and the flag of its overlap.
LEMMA FetchStep ==
  ASSUME Audit!LogsAssumption, AuditInv, NEW s \in Slots, NEW p \in Audit!Pages, NEW f \in Filters,
         Audit!fetchPage(s, p, f), filter' = f,
         UNCHANGED <<entries, logs, total, page, auditShown, resolved>>
  PROVE  AuditInv'
<1>1. Audit!Ask(p, f) \in Audit!Call /\ Audit!Ask(p, f) # Free /\ Audit!Ask(p, f).query.filter = f
  BY AskType
<1>2. Audit!TypeOK'
  BY <1>1 DEF AuditInv, Audit!TypeOK, Audit!fetchPage
<1>3. AuditAsked'
  BY <1>1 DEF AuditInv, AuditAsked, Audit!TypeOK, Audit!fetchPage, Audit!InFlight
<1>4. \A t \in Slots : auditCalls'[t] = auditCalls[t] \/ ~auditCalls'[t].answered
  BY DEF AuditInv, Audit!TypeOK, Audit!fetchPage, Audit!Ask
<1>5. Audit!PageIsOfShown' /\ AuditAnswered'
  BY <1>4, PageKept, AnswersKept DEF AuditInv
<1> QED
  BY <1>2, <1>3, <1>5 DEF AuditInv, AuditFiltered

LEMMA AuditStepInv ==
  ASSUME Audit!LogsAssumption, AuditInv, Audit!Next
  PROVE  AuditInv'
<1> USE DEF AuditInv, AuditFiltered
<1>1. ASSUME NEW f \in Filters, Audit!Type(f)
      PROVE  AuditInv'
  <2>1. Audit!PageIsOfShown' /\ AuditAnswered'
    BY <1>1, PageKept, AnswersKept DEF Audit!Type
  <2> QED
    BY <1>1, <2>1 DEF Audit!Type, Audit!TypeOK, AuditAsked
<1>2. ASSUME NEW f \in Filters, Audit!Record(f)
      PROVE  AuditInv'
  <2>1. AuditAsked' /\ Audit!PageIsOfShown' /\ AuditAnswered'
    BY <1>2, PageKept, AnswersKept DEF Audit!Record, AuditAsked, Audit!InFlight
  <2>2. entries' \in [Filters -> 0..MaxLogs] /\ AuditFiltered'
    <3>1. \A g \in Filters : entries[g] \in 0..MaxLogs /\ entries[g] < MaxLogs
      BY <1>2 DEF Audit!Record, Audit!TypeOK, Audit!LogsAssumption
    <3> QED
      BY <1>2, <3>1 DEF Audit!Record, Audit!LogsAssumption
  <2>3. Audit!TypeOK'
    BY <1>2, <2>2 DEF Audit!Record, Audit!TypeOK
  <2> QED
    BY <2>1, <2>2, <2>3
<1>3. ASSUME NEW s \in Slots, Audit!search(s)
      PROVE  AuditInv'
  <2>1. filter \in Filters /\ 1 \in Audit!Pages
    BY AuditFirst DEF Audit!TypeOK
  <2> QED
    BY <1>3, <2>1, FetchStep DEF Audit!search
<1>4. ASSUME NEW s \in Slots, Audit!clearFilters(s)
      PROVE  AuditInv'
  <2>1. NoFilter \in Filters /\ 1 \in Audit!Pages
    BY AuditFirst DEF Audit!LogsAssumption
  <2> QED
    BY <1>4, <2>1, FetchStep DEF Audit!clearFilters
<1>5. ASSUME NEW s \in Slots, NEW p \in Audit!Pages, Audit!goToPage(s, p)
      PROVE  AuditInv'
  <2>1. filter \in Filters
    BY DEF Audit!TypeOK
  <2> QED
    BY <1>5, <2>1, FetchStep DEF Audit!goToPage
<1>6. ASSUME NEW s \in Slots, Audit!LanguageChanges(s)
      PROVE  AuditInv'
  <2>1. Audit!Ask(1, NoFilter) \in Audit!Call
    BY AuditFirst, AskType DEF Audit!LogsAssumption
  <2>2. \A t \in Slots : auditCalls'[t] = auditCalls[t] \/ ~auditCalls'[t].answered
    BY <1>6 DEF Audit!LanguageChanges, Audit!TypeOK, Audit!Ask
  <2>3. Audit!PageIsOfShown' /\ AuditAnswered'
    BY <1>6, <2>2, PageKept, AnswersKept DEF Audit!LanguageChanges
  <2> QED
    BY <1>6, <2>1, <2>3 DEF Audit!LanguageChanges, Audit!TypeOK, AuditAsked
<1>7. ASSUME NEW s \in Slots, Audit!Answer(s)
      PROVE  AuditInv'
  <2>1. auditCalls[s] \in Audit!Call /\ auditCalls[s] # Free
    BY <1>7 DEF Audit!Answer, Audit!InFlight, Audit!TypeOK
  <2> DEFINE q == auditCalls[s].query
             n == entries[q.filter]
             new == [query |-> q, answered |-> TRUE, logs |-> Audit!OnPage(n, q.page), total |-> n]
  <2>2. q \in Audit!Query /\ q.page \in Audit!Pages /\ q.filter \in Filters
    BY <2>1 DEF Audit!Call, Audit!Query
  <2>3. n \in 0..MaxLogs
    BY <2>2 DEF Audit!TypeOK
  <2>4. Audit!OnPage(n, q.page) \in 0..PageSize
    BY <2>2, <2>3, OnPageType
  <2>5. new \in Audit!Call
    BY <2>2, <2>3, <2>4 DEF Audit!Call
  <2>6. new # Free /\ new.query = q
    BY <2>5 DEF Audit!LogsAssumption
  <2>7. auditCalls' = [auditCalls EXCEPT ![s] = new]
    BY <1>7 DEF Audit!Answer, Audit!Answered
  <2> HIDE DEF new
  <2>8. Audit!TypeOK'
    BY <1>7, <2>5, <2>7 DEF Audit!Answer, Audit!TypeOK
  <2>9. Audit!InFlight' = Audit!InFlight
    BY <2>1, <2>6, <2>7 DEF Audit!InFlight, Audit!TypeOK
  <2>10. \A t \in Audit!InFlight : auditCalls'[t].query = auditCalls[t].query
    BY <2>6, <2>7 DEF Audit!InFlight, Audit!TypeOK
  <2>11. Audit!PageIsOfShown'
    BY <1>7, PageKept DEF Audit!Answer
  <2>12. AuditAnswered'
    <3>1. new.logs = Audit!OnPage(new.total, new.query.page)
      BY DEF new
    <3>2. \A t \in Audit!InFlight : t # s => auditCalls'[t] = auditCalls[t]
      BY <2>7 DEF Audit!InFlight
    <3>3. auditCalls'[s] = new
      BY <2>1, <2>7 DEF Audit!TypeOK
    <3> QED
      BY <2>9, <3>1, <3>2, <3>3 DEF AuditAnswered, Audit!OnPage
  <2> QED
    BY <1>7, <2>8, <2>9, <2>10, <2>11, <2>12 DEF Audit!Answer, AuditAsked
<1>8. ASSUME NEW s \in Slots, Audit!FetchSucceeds(s)
      PROVE  AuditInv'
  <2>1. auditCalls[s] \in Audit!Call /\ s \in Audit!InFlight
    BY <1>8 DEF Audit!FetchSucceeds, Audit!InFlight, Audit!TypeOK
  <2>2. Audit!TypeOK'
    BY <1>8, <2>1 DEF Audit!FetchSucceeds, Audit!TypeOK, Audit!Call, Audit!Query
  <2>3. AuditAsked'
    BY <1>8, <2>1 DEF Audit!FetchSucceeds, AuditAsked, Audit!InFlight, Audit!TypeOK
  <2>4. AuditAnswered'
    <3>1. \A t \in Slots : auditCalls'[t] = auditCalls[t] \/ auditCalls'[t] = Free
      BY <1>8 DEF Audit!FetchSucceeds, Audit!TypeOK
    <3> QED
      BY <3>1, AnswersKept
  <2>5. Audit!PageIsOfShown'
    <3>1. auditCalls[s].logs = Audit!OnPage(auditCalls[s].total, auditCalls[s].query.page)
      BY <1>8, <2>1 DEF Audit!FetchSucceeds, AuditAnswered
    <3> QED
      BY <1>8, <3>1 DEF Audit!FetchSucceeds, Audit!PageIsOfShown, Audit!OnPage
  <2> QED
    BY <1>8, <2>2, <2>3, <2>4, <2>5 DEF Audit!FetchSucceeds
<1>9. ASSUME NEW s \in Slots, Audit!FetchFails(s)
      PROVE  AuditInv'
  <2>1. \A t \in Slots : auditCalls'[t] = auditCalls[t] \/ auditCalls'[t] = Free
    BY <1>9 DEF Audit!FetchFails, Audit!TypeOK
  <2>2. Audit!PageIsOfShown' /\ AuditAnswered'
    BY <1>9, <2>1, PageKept, AnswersKept DEF Audit!FetchFails
  <2> QED
    BY <1>9, <2>2 DEF Audit!FetchFails, Audit!TypeOK, AuditAsked
<1>10. ASSUME NEW s \in Slots, Audit!Remount(s)
       PROVE  AuditInv'
  <2>1. Audit!Ask(1, NoFilter) \in Audit!Call /\ Audit!Ask(1, NoFilter).query.filter = NoFilter
        /\ NoFilter \in Filters
    BY AuditFirst, AskType DEF Audit!LogsAssumption
  <2>2. /\ 0 \in 0..PageSize /\ 0 \in 0..MaxLogs
        /\ auditCalls' \in [Slots -> Audit!Call \cup {Free}]
    BY <1>10, <2>1 DEF Audit!Remount, Audit!LogsAssumption
  <2>4. Audit!TypeOK'
    BY <1>10, <2>1, <2>2, AuditFirst DEF Audit!Remount, Audit!TypeOK
  <2>3. AuditAsked'
    BY <1>10, <2>1 DEF Audit!Remount, AuditAsked, Audit!InFlight, Audit!LogsAssumption
  <2>5. \A t \in Slots : auditCalls'[t] = Free \/ ~auditCalls'[t].answered
    BY <1>10 DEF Audit!Remount, Audit!Ask
  <2>6. AuditAnswered'
    BY <2>5, AnswersKept
  <2>7. Audit!PageIsOfShown'
    BY <1>10, NoneOnPage DEF Audit!Remount, Audit!PageIsOfShown, Audit!NotShown, Audit!OnPage
  <2> QED
    BY <1>10, <2>3, <2>4, <2>6, <2>7 DEF Audit!Remount
<1> QED
  BY <1>1, <1>2, <1>3, <1>4, <1>5, <1>6, <1>7, <1>8, <1>9, <1>10 DEF Audit!Next

-----------------------------------------------------------------------------
(* The system status *)

\* A refresh that was made with nothing in flight is the only one, and has read
\* what the server has; once it settled, the page shows it.
StatusRead ==
    statusDirect =>
        /\ \A s, t \in Status!InFlight : s = t
        /\ \A s \in Status!InFlight, r \in Status!Reads :
               refreshes[s][r] \in {Pending, Failed, Status!ServerAnswer(r)}
        /\ Status!StatusIsCurrent

StatusInv == Status!TypeOK /\ Status!LoadingIsAwaited /\ StatusRead

LEMMA StartedType ==
  ASSUME Status!StatusAssumption
  PROVE  /\ Status!Started \in Status!Refresh
         /\ Status!Started # Free
         /\ \A r \in Status!Reads : Status!Started[r] = Pending
<1>1. Status!Started \in Status!Refresh
  BY DEF Status!Started, Status!Refresh
<1> QED
  BY <1>1 DEF Status!StatusAssumption, Status!Started

LEMMA StatusInit ==
  ASSUME Status!StatusAssumption, Status!Init
  PROVE  StatusInv
<1>1. PICK s0 \in Slots : refreshes = [t \in Slots |-> IF t = s0 THEN Status!Started ELSE Free]
  BY DEF Status!Init
<1>2. Status!InFlight = {s0}
  BY <1>1, StartedType DEF Status!InFlight
<1>3. Status!TypeOK
  BY <1>1, StartedType DEF Status!Init, Status!TypeOK
<1>4. refreshes[s0] = Status!Started
  BY <1>1
<1> QED
  BY <1>2, <1>3, <1>4, StartedType
     DEF StatusInv, StatusRead, Status!LoadingIsAwaited, Status!StatusIsCurrent

\* A refresh begins while others are, or are not, in flight.
LEMMA RefreshStep ==
  ASSUME Status!StatusAssumption, StatusInv, NEW s \in Slots, Status!refresh(s)
  PROVE  StatusInv'
<1>1. /\ Status!InFlight' = Status!InFlight \cup {s}
      /\ refreshes'[s] = Status!Started
  BY StartedType DEF StatusInv, Status!TypeOK, Status!refresh, Status!InFlight
<1>2. Status!TypeOK'
  BY StartedType DEF StatusInv, Status!TypeOK, Status!refresh
<1> QED
  BY <1>1, <1>2, StartedType
     DEF StatusInv, Status!refresh, StatusRead, Status!LoadingIsAwaited, Status!StatusIsCurrent

\* A read of a refresh ends with an outcome.
LEMMA OutcomeStep ==
  ASSUME Status!StatusAssumption, StatusInv,
         NEW s \in Slots, NEW r \in Status!Reads, NEW v \in {Failed, Status!ServerAnswer(r)},
         s \in Status!InFlight, refreshes' = [refreshes EXCEPT ![s][r] = v],
         UNCHANGED <<ready, statusShown, statusLoading, failed, statusDirect>>
  PROVE  StatusInv'
<1>1. Status!ServerAnswer(r) \in Status!Answers
  BY DEF Status!ServerAnswer, Status!Answers, StatusInv, Status!TypeOK
<1>2. refreshes[s] \in Status!Refresh
  BY DEF Status!InFlight, StatusInv, Status!TypeOK
<1>3. refreshes'[s] \in Status!Refresh /\ refreshes'[s] = [refreshes[s] EXCEPT ![r] = v]
  BY <1>1, <1>2 DEF StatusInv, Status!TypeOK, Status!Refresh
<1>4. \A t \in Slots \ {s} : refreshes'[t] = refreshes[t]
  BY DEF StatusInv, Status!TypeOK
<1>5. Status!InFlight' = Status!InFlight
  BY <1>3, <1>4 DEF Status!InFlight, Status!StatusAssumption
<1>6. refreshes' \in [Slots -> Status!Refresh \cup {Free}]
  <2>1. refreshes' = [refreshes EXCEPT ![s] = refreshes'[s]]
    BY <1>3
  <2> QED
    BY <2>1, <1>3 DEF StatusInv, Status!TypeOK
<1>7. Status!TypeOK'
  BY <1>6 DEF StatusInv, Status!TypeOK
<1>8. \A q \in Status!Reads : Status!ServerAnswer(q)' = Status!ServerAnswer(q)
  BY DEF Status!ServerAnswer
<1>9. StatusRead'
  <2>1. Status!StatusIsCurrent => Status!StatusIsCurrent'
    BY <1>5, <1>8 DEF Status!StatusIsCurrent, Status!hasHealthIssue
  <2>2. \A q \in Status!Reads : refreshes'[s][q] = IF q = r THEN v ELSE refreshes[s][q]
    BY <1>2, <1>3 DEF Status!Refresh
  <2> QED
    BY <1>4, <1>5, <1>8, <2>1, <2>2 DEF StatusInv, StatusRead, Status!InFlight
<1> QED
  BY <1>5, <1>7, <1>9 DEF StatusInv, Status!LoadingIsAwaited

LEMMA StatusStepInv ==
  ASSUME Status!StatusAssumption, StatusInv, Status!Next
  PROVE  StatusInv'
<1>1. ASSUME NEW s \in Slots, Status!PressRefresh(s) \/ Status!LanguageChanges(s)
      PROVE  StatusInv'
  BY <1>1, RefreshStep DEF Status!PressRefresh, Status!LanguageChanges
<1>2. ASSUME NEW s \in Slots, NEW r \in Status!Reads, Status!Answer(s, r)
      PROVE  StatusInv'
  BY <1>2, OutcomeStep DEF Status!Answer
<1>3. ASSUME NEW s \in Slots, NEW r \in Status!Reads, Status!Fail(s, r)
      PROVE  StatusInv'
  BY <1>3, OutcomeStep DEF Status!Fail
<1>4. ASSUME NEW v \in Readiness, Status!ServerChanges(v)
      PROVE  StatusInv'
  <2>1. Status!InFlight' = Status!InFlight
    BY <1>4 DEF Status!ServerChanges, Status!InFlight
  <2>2. Status!TypeOK' /\ Status!LoadingIsAwaited'
    BY <1>4, <2>1 DEF Status!ServerChanges, StatusInv, Status!TypeOK, Status!LoadingIsAwaited
  <2>3. ASSUME statusDirect'
        PROVE  StatusRead'
    <3>1. statusDirect /\ \E s \in Status!InFlight : refreshes[s]["readiness"] = Pending
      BY <1>4, <2>3 DEF Status!ServerChanges
    <3>2. PICK s \in Status!InFlight : refreshes[s]["readiness"] = Pending /\ Status!InFlight = {s}
      BY <3>1 DEF StatusInv, StatusRead
    <3>3. \A r \in Status!Reads : refreshes[s][r] \in {Pending, Failed, Status!ServerAnswer(r)'}
      BY <3>1, <3>2 DEF StatusInv, StatusRead, Status!ServerAnswer
    <3> QED
      BY <1>4, <2>1, <3>2, <3>3 DEF Status!ServerChanges, StatusRead, Status!StatusIsCurrent
  <2> QED
    BY <2>2, <2>3 DEF StatusInv, StatusRead
<1>5. ASSUME NEW s \in Slots, Status!Settle(s)
      PROVE  StatusInv'
  <2>1. s \in Status!InFlight /\ refreshes[s] \in Status!Refresh
        /\ \A r \in Status!Reads : refreshes[s][r] # Pending
    BY <1>5 DEF Status!Settle, Status!Ended, Status!InFlight, StatusInv, Status!TypeOK
  <2>2. Status!InFlight' = Status!InFlight \ {s}
    BY <1>5 DEF Status!Settle, Status!InFlight, StatusInv, Status!TypeOK
  <2>3. statusShown' \in [Status!Reads -> Status!Answers \cup {Null, Unavailable}]
    BY <1>5, <2>1 DEF Status!Settle, Status!Refresh, Status!Missing
  <2>4. Status!TypeOK' /\ Status!LoadingIsAwaited'
    BY <1>5, <2>3 DEF Status!Settle, StatusInv, Status!TypeOK, Status!LoadingIsAwaited
  <2>5. ASSUME statusDirect
        PROVE  StatusRead'
    <3>1. Status!InFlight' = {}
      BY <2>1, <2>2, <2>5 DEF StatusInv, StatusRead
    <3>2. \A r \in Status!Reads : refreshes[s][r] \in {Failed, Status!ServerAnswer(r)}
      BY <2>1, <2>5 DEF StatusInv, StatusRead
    <3>3. \A r \in Status!Reads : Status!ServerAnswer(r)' = Status!ServerAnswer(r)
                                  /\ Status!ServerAnswer(r) # Failed
      BY <1>5 DEF Status!Settle, Status!ServerAnswer, Status!StatusAssumption, StatusInv,
                  Status!TypeOK
    <3>4. \A r \in Status!Reads :
              statusShown'[r] = IF r \in failed' THEN Status!Missing(r) ELSE Status!ServerAnswer(r)'
      BY <1>5, <3>2, <3>3 DEF Status!Settle
    <3>5. Status!hasHealthIssue' <=> "readiness" \in failed' \/ ready' \notin Healthy
      BY <3>4 DEF Status!hasHealthIssue, Status!Missing, Status!ServerAnswer,
                  Status!StatusAssumption, Status!Reads
    <3> QED
      BY <3>1, <3>4, <3>5 DEF StatusRead, Status!StatusIsCurrent, Status!Missing
  <2> QED
    BY <1>5, <2>4, <2>5 DEF StatusInv, StatusRead, Status!Settle
<1>6. ASSUME NEW s \in Slots, Status!Remount(s)
      PROVE  StatusInv'
  <2>1. Status!InFlight' = {s} /\ refreshes'[s] = Status!Started
    BY <1>6, StartedType DEF Status!Remount, Status!InFlight
  <2>2. Status!TypeOK'
    BY <1>6, StartedType DEF Status!Remount, StatusInv, Status!TypeOK
  <2> QED
    BY <2>1, <2>2, StartedType
       DEF StatusInv, StatusRead, Status!LoadingIsAwaited, Status!StatusIsCurrent
<1> QED
  BY <1>1, <1>2, <1>3, <1>4, <1>5, <1>6 DEF Status!Next

-----------------------------------------------------------------------------
(* The consents dialog *)

\* While undisturbed, the only request in flight is for the selected account, and
\* a read carries what that account still has.
ConsentsRead ==
    undisturbed =>
        /\ \A s, t \in Consents!InFlight : s = t
        /\ \A s \in Consents!InFlight :
               /\ consentCalls[s].kind # "left"
               /\ consentCalls[s].account = selectedAccount
               /\ consentCalls[s].kind \in {"open", "reload"} /\ consentCalls[s].answered
                      => consentCalls[s].answer = granted[selectedAccount]
        /\ Consents!InFlight = {} => consentsList = granted[selectedAccount]

ConsentsNamed == showConsentModal => selectedAccount \in Accounts

ConsentsInv == Consents!TypeOK /\ ConsentsNamed /\ ConsentsRead

LEMMA ConsentsInit ==
  ASSUME Consents!ConsentsAssumption, Consents!Init
  PROVE  ConsentsInv
<1> QED
  BY DEF Consents!Init, ConsentsInv, Consents!TypeOK, ConsentsNamed, ConsentsRead

LEMMA LoadType ==
  ASSUME Consents!ConsentsAssumption, NEW k \in {"open", "reload", "revoke"}, NEW a \in Accounts
  PROVE  /\ Consents!Load(k, a) \in Consents!Call
         /\ Consents!Load(k, a).kind = k
         /\ Consents!Load(k, a).account = a
         /\ Consents!Load(k, a).answered = FALSE
<1> QED
  BY DEF Consents!Load, Consents!Call

\* A slot takes another request: which slots are in use follows.
LEMMA ConsentsSlot ==
  ASSUME Consents!ConsentsAssumption, Consents!TypeOK, NEW s \in Slots, NEW c \in Consents!Call,
         consentCalls' = [consentCalls EXCEPT ![s] = c]
  PROVE  /\ consentCalls' \in [Slots -> Consents!Call \cup {Free}]
         /\ Consents!InFlight' = Consents!InFlight \cup {s}
         /\ consentCalls'[s] = c
         /\ \A t \in Slots \ {s} : consentCalls'[t] = consentCalls[t]
<1> QED
  BY DEF Consents!ConsentsAssumption, Consents!TypeOK, Consents!InFlight

LEMMA ConsentsFreed ==
  ASSUME Consents!TypeOK, NEW s \in Slots, consentCalls' = [consentCalls EXCEPT ![s] = Free]
  PROVE  /\ consentCalls' \in [Slots -> Consents!Call \cup {Free}]
         /\ Consents!InFlight' = Consents!InFlight \ {s}
         /\ \A t \in Slots \ {s} : consentCalls'[t] = consentCalls[t]
<1> QED
  BY DEF Consents!TypeOK, Consents!InFlight

LEMMA ConsentsStepInv ==
  ASSUME Consents!ConsentsAssumption, ConsentsInv, Consents!Next
  PROVE  ConsentsInv'
<1> USE DEF ConsentsInv
<1>1. ASSUME Consents!CloseConsentModal
      PROVE  ConsentsInv'
  <2>1. Consents!InFlight' = Consents!InFlight
    BY <1>1 DEF Consents!CloseConsentModal, Consents!InFlight
  <2>2. ConsentsRead'
    BY <1>1, <2>1 DEF Consents!CloseConsentModal, ConsentsRead
  <2> QED
    BY <1>1, <2>2 DEF Consents!CloseConsentModal, Consents!TypeOK, ConsentsNamed
<1>2. ASSUME Consents!Remount
      PROVE  ConsentsInv'
  <2>1. \A s \in Slots : consentCalls[s] # Free => [consentCalls[s] EXCEPT !.kind = "left"] \in Consents!Call
    BY DEF Consents!TypeOK, Consents!Call
  <2>2. consentCalls' \in [Slots -> Consents!Call \cup {Free}]
    BY <1>2, <2>1 DEF Consents!Remount, Consents!TypeOK, Consents!Revokes, Consents!InFlight
  <2> QED
    BY <1>2, <2>2 DEF Consents!Remount, Consents!TypeOK, ConsentsNamed, ConsentsRead
<1>3. ASSUME NEW s \in Slots, NEW a \in Accounts, Consents!OpenConsentModal(s, a)
      PROVE  ConsentsInv'
  <2> DEFINE new == Consents!Load("open", a)
  <2>1. consentCalls' = [consentCalls EXCEPT ![s] = new]
    BY <1>3 DEF Consents!OpenConsentModal
  <2>2. new \in Consents!Call /\ new.kind = "open" /\ new.account = a /\ new.answered = FALSE
    BY LoadType
  <2> HIDE DEF new
  <2>3. /\ Consents!InFlight' = Consents!InFlight \cup {s}
        /\ consentCalls'[s] = new
        /\ consentCalls' \in [Slots -> Consents!Call \cup {Free}]
    BY <2>1, <2>2, ConsentsSlot
  <2>4. Consents!TypeOK'
    BY <1>3, <2>3 DEF Consents!OpenConsentModal, Consents!TypeOK
  <2>5. ConsentsRead'
    BY <1>3, <2>2, <2>3 DEF Consents!OpenConsentModal, ConsentsRead
  <2> QED
    BY <1>3, <2>4, <2>5 DEF Consents!OpenConsentModal, ConsentsNamed
<1>4. ASSUME NEW s \in Slots, NEW c \in Clients, Consents!RevokeConsent(s, c)
      PROVE  ConsentsInv'
  <2> DEFINE new == [Consents!Load("revoke", selectedAccount) EXCEPT !.client = c]
  <2>1. selectedAccount \in Accounts
    BY <1>4 DEF Consents!RevokeConsent, Consents!CanRevoke, ConsentsNamed
  <2>2. new \in Consents!Call /\ new.kind = "revoke" /\ new.account = selectedAccount
    BY <2>1 DEF Consents!Load, Consents!Call
  <2>3. consentCalls' = [consentCalls EXCEPT ![s] = new]
    BY <1>4 DEF Consents!RevokeConsent
  <2> HIDE DEF new
  <2>4. /\ Consents!InFlight' = Consents!InFlight \cup {s}
        /\ consentCalls'[s] = new
        /\ consentCalls' \in [Slots -> Consents!Call \cup {Free}]
    BY <2>2, <2>3, ConsentsSlot
  <2>5. Consents!TypeOK'
    BY <1>4, <2>4 DEF Consents!RevokeConsent, Consents!TypeOK
  <2>6. ConsentsRead'
    BY <1>4, <2>2, <2>4 DEF Consents!RevokeConsent, ConsentsRead
  <2> QED
    BY <1>4, <2>5, <2>6 DEF Consents!RevokeConsent, ConsentsNamed
<1>5. ASSUME NEW s \in Slots, Consents!AnswerLoad(s)
      PROVE  ConsentsInv'
  <2> DEFINE new == Consents!Answered(consentCalls[s])
  <2>1. s \in Consents!InFlight /\ consentCalls[s] \in Consents!Call
    BY <1>5 DEF Consents!AnswerLoad, Consents!Loads, Consents!InFlight, Consents!TypeOK
  <2>2. /\ new \in Consents!Call /\ new.kind = consentCalls[s].kind
        /\ new.account = consentCalls[s].account /\ new.answer = granted[consentCalls[s].account]
    BY <2>1 DEF Consents!Answered, Consents!Call, Consents!TypeOK
  <2>3. consentCalls' = [consentCalls EXCEPT ![s] = new]
    BY <1>5 DEF Consents!AnswerLoad
  <2> HIDE DEF new
  <2>4. /\ Consents!InFlight' = Consents!InFlight \cup {s}
        /\ consentCalls'[s] = new
        /\ consentCalls' \in [Slots -> Consents!Call \cup {Free}]
    BY <2>2, <2>3, ConsentsSlot
  <2>5. Consents!TypeOK'
    BY <1>5, <2>4 DEF Consents!AnswerLoad, Consents!TypeOK
  <2>6. ConsentsRead'
    BY <1>5, <2>1, <2>2, <2>4 DEF Consents!AnswerLoad, ConsentsRead
  <2> QED
    BY <1>5, <2>5, <2>6 DEF Consents!AnswerLoad, ConsentsNamed
<1>6. ASSUME NEW s \in Slots, Consents!LoadSucceeds(s)
      PROVE  ConsentsInv'
  <2>1. /\ s \in Consents!InFlight /\ consentCalls[s] \in Consents!Call
        /\ consentCalls[s].kind \in {"open", "reload"} /\ consentCalls[s].answered
    BY <1>6 DEF Consents!LoadSucceeds, Consents!Loads, Consents!InFlight, Consents!TypeOK
  <2>2. Consents!TypeOK'
    BY <1>6, <2>1, ConsentsFreed
       DEF Consents!LoadSucceeds, Consents!LoadingAfter, Consents!TypeOK, Consents!Call
  <2>3. ConsentsRead'
    <3>1. Consents!InFlight' = Consents!InFlight \ {s}
      BY <1>6, ConsentsFreed DEF Consents!LoadSucceeds
    <3>2. undisturbed => Consents!InFlight' = {} /\ consentsList' = granted'[selectedAccount']
      BY <1>6, <2>1, <3>1 DEF Consents!LoadSucceeds, ConsentsRead
    <3> QED
      BY <1>6, <3>2 DEF Consents!LoadSucceeds, ConsentsRead
  <2> QED
    BY <1>6, <2>2, <2>3 DEF Consents!LoadSucceeds, ConsentsNamed
<1>7. ASSUME NEW s \in Slots, Consents!LoadFails(s)
      PROVE  ConsentsInv'
  BY <1>7, ConsentsFreed DEF Consents!LoadFails, Consents!LoadingAfter, Consents!TypeOK, ConsentsNamed,
                             ConsentsRead
<1>8. ASSUME NEW s \in Slots, Consents!ApplyRevocation(s)
      PROVE  ConsentsInv'
  <2> DEFINE new == [consentCalls[s] EXCEPT !.answered = TRUE]
  <2>1. s \in Consents!InFlight /\ consentCalls[s] \in Consents!Call /\ consentCalls[s].kind = "revoke"
    BY <1>8 DEF Consents!ApplyRevocation, Consents!Revokes, Consents!InFlight, Consents!TypeOK
  <2>2. new \in Consents!Call /\ new.kind = "revoke" /\ new.account = consentCalls[s].account
    BY <2>1 DEF Consents!Call
  <2>3. consentCalls' = [consentCalls EXCEPT ![s] = new]
    BY <1>8 DEF Consents!ApplyRevocation
  <2>4. granted' \in [Accounts -> SUBSET Clients]
    BY <1>8, <2>1 DEF Consents!ApplyRevocation, Consents!TypeOK, Consents!Call
  <2> HIDE DEF new
  <2>5. /\ Consents!InFlight' = Consents!InFlight \cup {s}
        /\ consentCalls'[s] = new
        /\ consentCalls' \in [Slots -> Consents!Call \cup {Free}]
    BY <2>2, <2>3, ConsentsSlot
  <2>6. Consents!TypeOK'
    BY <1>8, <2>4, <2>5 DEF Consents!ApplyRevocation, Consents!TypeOK
  <2>7. ConsentsRead'
    BY <1>8, <2>1, <2>2, <2>5 DEF Consents!ApplyRevocation, ConsentsRead
  <2> QED
    BY <1>8, <2>6, <2>7 DEF Consents!ApplyRevocation, ConsentsNamed
<1>9. ASSUME NEW s \in Slots, Consents!RevocationSucceeds(s)
      PROVE  ConsentsInv'
  <2> DEFINE a == consentCalls[s].account
  <2>1. s \in Consents!InFlight /\ a \in Accounts
    BY <1>9 DEF Consents!RevocationSucceeds, Consents!Revokes, Consents!InFlight, Consents!TypeOK,
                Consents!Call
  <2> DEFINE new == Consents!Load("reload", a)
  <2>2. consentCalls' = [consentCalls EXCEPT ![s] = new]
    BY <1>9 DEF Consents!RevocationSucceeds
  <2>3. new \in Consents!Call /\ new.kind = "reload" /\ new.account = a /\ new.answered = FALSE
    BY <2>1, LoadType
  <2> HIDE DEF new
  <2>4. /\ Consents!InFlight' = Consents!InFlight \cup {s}
        /\ consentCalls'[s] = new
        /\ consentCalls' \in [Slots -> Consents!Call \cup {Free}]
    BY <2>2, <2>3, ConsentsSlot
  <2>5. Consents!TypeOK'
    BY <1>9, <2>4 DEF Consents!RevocationSucceeds, Consents!TypeOK
  <2>6. ConsentsRead'
    BY <1>9, <2>1, <2>3, <2>4 DEF Consents!RevocationSucceeds, ConsentsRead
  <2> QED
    BY <1>9, <2>5, <2>6 DEF Consents!RevocationSucceeds, ConsentsNamed
<1>10. ASSUME NEW s \in Slots, Consents!RevocationFails(s)
       PROVE  ConsentsInv'
  BY <1>10, ConsentsFreed DEF Consents!RevocationFails, Consents!TypeOK, ConsentsNamed, ConsentsRead
<1>11. ASSUME NEW s \in Slots, Consents!LeftRevocationEnds(s)
       PROVE  ConsentsInv'
  <2>1. s \in Consents!InFlight /\ consentCalls[s] \in Consents!Call /\ consentCalls[s].kind = "left"
    BY <1>11 DEF Consents!LeftRevocationEnds, Consents!Left, Consents!InFlight, Consents!TypeOK
  <2>2. ~undisturbed
    BY <2>1 DEF ConsentsRead
  <2>3. granted' \in [Accounts -> SUBSET Clients]
    BY <1>11, <2>1 DEF Consents!LeftRevocationEnds, Consents!TypeOK, Consents!Call
  <2> QED
    BY <1>11, <2>2, <2>3, ConsentsFreed
       DEF Consents!LeftRevocationEnds, Consents!TypeOK, ConsentsNamed, ConsentsRead
<1>12. ASSUME NEW a \in Accounts, NEW c \in Clients, Consents!ForeignChange(a, c)
       PROVE  ConsentsInv'
  BY <1>12 DEF Consents!ForeignChange, Consents!TypeOK, ConsentsNamed, ConsentsRead
<1> QED
  BY <1>1, <1>2, <1>3, <1>4, <1>5, <1>6, <1>7, <1>8, <1>9, <1>10, <1>11, <1>12 DEF Consents!Next

-----------------------------------------------------------------------------
(* The site settings *)

\* A form has a baseline exactly when its load succeeded, and no load runs after.
SiteLoaded ==
    /\ settingsLoading => ~settingsError
    /\ loaded <=> baseline # Null
    /\ loaded => ~settingsLoading /\ ~settingsError /\ read # Null

\* While smooth, at most one save of this form is on its way.
SiteSent == smooth => \A s, t \in Site!Sent : s = t

\* While smooth, what was read and then what was saved is what the server has.
SiteKept ==
    smooth =>
        /\ read # Null /\ ~loaded => read = stored
        /\ loaded /\ Site!Sent = {} => baseline = stored
        /\ loaded => \A s \in Site!Sent :
               /\ saves[s].stage = "sent" => baseline = stored
               /\ saves[s].stage = "stored" => saves[s].settings = stored

\* What the form takes from an answer is what the server held.
SiteHeld ==
    /\ read # Null => read \in held
    /\ loaded => baseline \in held
    /\ \A s \in Site!Mine : saves[s].stage = "stored" => saves[s].settings \in held

SiteInv ==
    Site!TypeOK /\ SiteLoaded /\ Site!OnlyReadIsSaved /\ SiteSent /\ SiteKept /\ SiteHeld

LEMMA SiteInit ==
  ASSUME Site!SettingsAssumption, Site!Init
  PROVE  SiteInv
<1>1. Site!Used = {}
  BY DEF Site!Init, Site!Used
<1>2. Site!TypeOK
  BY DEF Site!Init, Site!TypeOK, Site!Settings, Site!SettingsAssumption
<1> QED
  BY <1>1, <1>2 DEF Site!Init, SiteInv, SiteLoaded, Site!OnlyReadIsSaved, SiteSent, SiteKept, SiteHeld,
                    Site!Mine, Site!Sent

LEMMA SiteUsed ==
  ASSUME Site!TypeOK, NEW s \in Site!Used
  PROVE  saves[s] \in Site!Save
<1> QED
  BY DEF Site!TypeOK, Site!Used

\* A slot takes another save: which saves are the form's and which are sent follows.
LEMMA SiteSlot ==
  ASSUME Site!SettingsAssumption, Site!TypeOK, NEW s \in Slots, NEW c \in Site!Save,
         saves' = [saves EXCEPT ![s] = c]
  PROVE  /\ saves' \in [Slots -> Site!Save \cup {Free}]
         /\ saves'[s] = c
         /\ \A t \in Slots \ {s} : saves'[t] = saves[t]
         /\ Site!Mine' = (Site!Mine \ {s}) \cup (IF c.left THEN {} ELSE {s})
         /\ Site!Sent' = (Site!Sent \ {s}) \cup (IF c.left \/ c.stage = "asked" THEN {} ELSE {s})
<1>1. c # Free
  BY DEF Site!SettingsAssumption
<1>2. /\ saves' \in [Slots -> Site!Save \cup {Free}]
      /\ saves'[s] = c
      /\ \A t \in Slots \ {s} : saves'[t] = saves[t]
  BY DEF Site!TypeOK
<1> QED
  BY <1>1, <1>2 DEF Site!Used, Site!Mine, Site!Sent

LEMMA SiteFreed ==
  ASSUME Site!TypeOK, NEW s \in Slots, saves' = [saves EXCEPT ![s] = Free]
  PROVE  /\ saves' \in [Slots -> Site!Save \cup {Free}]
         /\ \A t \in Slots \ {s} : saves'[t] = saves[t]
         /\ Site!Mine' = Site!Mine \ {s}
         /\ Site!Sent' = Site!Sent \ {s}
<1>1. /\ saves' \in [Slots -> Site!Save \cup {Free}]
      /\ saves'[s] = Free
      /\ \A t \in Slots \ {s} : saves'[t] = saves[t]
  BY DEF Site!TypeOK
<1> QED
  BY <1>1 DEF Site!Used, Site!Mine, Site!Sent

LEMMA SiteSame ==
  ASSUME UNCHANGED saves
  PROVE  Site!Used' = Site!Used /\ Site!Mine' = Site!Mine /\ Site!Sent' = Site!Sent
<1> QED
  BY DEF Site!Used, Site!Mine, Site!Sent

\* Loading keeps the invariant: no save of the form is on its way meanwhile.
LEMMA SiteLoads ==
  ASSUME Site!SettingsAssumption, SiteInv,
         Site!Load \/ Site!AnswerLoad \/ Site!LoadSucceeds \/ Site!LoadFails
  PROVE  SiteInv'
<1> USE DEF SiteInv
<1>1. UNCHANGED saves /\ UNCHANGED stored
  BY DEF Site!Load, Site!AnswerLoad, Site!LoadSucceeds, Site!LoadFails
<1>2. Site!Mine' = Site!Mine /\ Site!Sent' = Site!Sent
  BY <1>1, SiteSame
<1>3. Site!TypeOK'
  BY DEF Site!TypeOK, Site!Load, Site!AnswerLoad, Site!LoadSucceeds, Site!LoadFails
<1>4. SiteLoaded'
  BY DEF Site!TypeOK, SiteLoaded, Site!Load, Site!AnswerLoad, Site!LoadSucceeds, Site!LoadFails,
         Site!SettingsAssumption
<1>5. Site!OnlyReadIsSaved'
  BY <1>2 DEF Site!OnlyReadIsSaved, Site!Load, Site!AnswerLoad, Site!LoadSucceeds, Site!LoadFails
<1>6. SiteSent'
  BY <1>2 DEF SiteSent, Site!Load, Site!AnswerLoad, Site!LoadSucceeds, Site!LoadFails,
              Site!Sent, Site!OnlyReadIsSaved, SiteLoaded
<1>7. SiteKept'
  <2>1. CASE Site!Load
    BY <2>1, <1>2 DEF Site!Load, SiteKept, SiteLoaded
  <2>2. CASE Site!AnswerLoad
    BY <2>2, <1>2 DEF Site!AnswerLoad, SiteKept, SiteLoaded
  <2>3. CASE Site!LoadSucceeds
    <3>1. ~loaded /\ read # Null
      BY <2>3 DEF Site!LoadSucceeds, SiteLoaded
    <3>2. smooth => Site!Sent = {}
      BY <3>1 DEF Site!Sent, Site!OnlyReadIsSaved
    <3> QED
      BY <2>3, <1>2, <3>1, <3>2 DEF Site!LoadSucceeds, SiteKept
  <2>4. CASE Site!LoadFails
    BY <2>4, <1>1, <1>2 DEF Site!LoadFails, SiteKept
  <2> QED
    BY <2>1, <2>2, <2>3, <2>4
<1>8. SiteHeld'
  <2>1. ~loaded /\ Site!Mine = {}
    BY DEF Site!Load, Site!AnswerLoad, Site!LoadSucceeds, Site!LoadFails, SiteLoaded,
           Site!OnlyReadIsSaved
  <2> QED
    BY <1>2, <2>1 DEF Site!Load, Site!AnswerLoad, Site!LoadSucceeds, Site!LoadFails, SiteHeld
<1> QED
  BY <1>3, <1>4, <1>5, <1>6, <1>7, <1>8

LEMMA SiteStepInv ==
  ASSUME Site!SettingsAssumption, SiteInv, Site!Next
  PROVE  SiteInv'
<1> USE DEF SiteInv
<1>1. ASSUME Site!Load \/ Site!AnswerLoad \/ Site!LoadSucceeds \/ Site!LoadFails
      PROVE  SiteInv'
  BY <1>1, SiteLoads
<1>2. ASSUME NEW f \in Fields, NEW v \in Values, Site!update(f, v)
      PROVE  SiteInv'
  <2>1. settings' \in Site!Settings
    BY <1>2 DEF Site!update, Site!TypeOK, Site!Settings
  <2>2. Site!TypeOK' /\ SiteLoaded'
    BY <1>2, <2>1 DEF Site!update, Site!TypeOK, SiteLoaded
  <2>3. Site!Mine' = Site!Mine /\ Site!Sent' = Site!Sent
    BY <1>2, SiteSame DEF Site!update
  <2> QED
    BY <1>2, <2>2, <2>3 DEF Site!update, Site!OnlyReadIsSaved, SiteSent, SiteKept, SiteHeld
<1>3. ASSUME NEW s \in Slots, Site!Submit(s)
      PROVE  SiteInv'
  <2>1. PICK stage \in {"asked", "sent"} :
            /\ saves' = [saves EXCEPT ![s] = [settings |-> settings, stage |-> stage, left |-> FALSE]]
            /\ saving' = (stage = "sent")
            /\ smooth' = (smooth /\ (stage = "sent" => Site!Sent = {}))
    BY <1>3 DEF Site!Submit
  <2> DEFINE new == [settings |-> settings, stage |-> stage, left |-> FALSE]
  <2>2. new \in Site!Save /\ new.stage = stage /\ ~new.left /\ saves' = [saves EXCEPT ![s] = new]
    BY <2>1 DEF Site!Save, Site!TypeOK
  <2> HIDE DEF new
  <2>3. /\ saves' \in [Slots -> Site!Save \cup {Free}]
        /\ saves'[s] = new
        /\ \A t \in Slots \ {s} : saves'[t] = saves[t]
        /\ Site!Mine' = Site!Mine \cup {s}
        /\ Site!Sent' = (Site!Sent \ {s}) \cup (IF stage = "asked" THEN {} ELSE {s})
    <3>1. /\ saves' \in [Slots -> Site!Save \cup {Free}]
          /\ saves'[s] = new
          /\ \A t \in Slots \ {s} : saves'[t] = saves[t]
          /\ Site!Mine' = (Site!Mine \ {s}) \cup (IF new.left THEN {} ELSE {s})
          /\ Site!Sent' = (Site!Sent \ {s}) \cup (IF new.left \/ new.stage = "asked" THEN {} ELSE {s})
      BY <2>2, SiteSlot
    <3> QED
      BY <2>2, <3>1
  <2>4. saves[s] = Free /\ s \notin Site!Sent
    BY <1>3 DEF Site!Submit, Site!Sent, Site!Mine, Site!Used
  <2>5. loaded
    BY <1>3 DEF Site!Submit, Site!dirty, Site!hasLoadedSettings, SiteLoaded
  <2>6. smooth' \in BOOLEAN
    BY <2>1 DEF Site!TypeOK
  <2>7. Site!TypeOK' /\ SiteLoaded'
    BY <1>3, <2>1, <2>3, <2>6 DEF Site!Submit, Site!TypeOK, SiteLoaded
  <2>8. SiteSent' /\ Site!OnlyReadIsSaved'
    BY <1>3, <2>1, <2>3, <2>4, <2>5 DEF Site!Submit, SiteSent, Site!OnlyReadIsSaved
  <2>9. SiteKept'
    <3>1. CASE stage = "asked"
      <4>1. Site!Sent' = Site!Sent /\ \A t \in Site!Sent : t # s /\ t \in Slots
        BY <2>3, <2>4, <3>1 DEF Site!Sent, Site!Mine, Site!Used
      <4> QED
        BY <1>3, <2>1, <2>3, <4>1 DEF Site!Submit, SiteKept
    <3>2. CASE stage = "sent"
      <4>1. Site!Sent' = Site!Sent \cup {s} /\ saves'[s].stage = "sent"
        BY <2>2, <2>3, <2>4, <3>2
      <4> QED
        BY <1>3, <2>1, <2>5, <3>2, <4>1 DEF Site!Submit, SiteKept
    <3> QED
      BY <3>1, <3>2
  <2>10. SiteHeld'
    <3>0. \A t \in Site!Mine : t \in Slots
      BY DEF Site!Mine, Site!Used
    <3>1. \A t \in Site!Mine' : t = s \/ (t \in Site!Mine /\ saves'[t] = saves[t])
      BY <2>3, <3>0
    <3>2. saves'[s].stage # "stored"
      BY <2>2, <2>3
    <3> QED
      BY <1>3, <3>1, <3>2 DEF Site!Submit, SiteHeld
  <2> QED
    BY <2>7, <2>8, <2>9, <2>10
<1>4. ASSUME NEW s \in Slots, Site!SudoRuns(s)
      PROVE  SiteInv'
  <2> DEFINE new == [saves[s] EXCEPT !.stage = "sent"]
  <2>1. s \in Site!Used /\ saves[s] \in Site!Save /\ s \notin Site!Sent
    BY <1>4, SiteUsed DEF Site!SudoRuns, Site!Sent
  <2>2. new \in Site!Save /\ new.stage = "sent" /\ new.left = saves[s].left
    BY <2>1 DEF Site!Save
  <2>3. saves' = [saves EXCEPT ![s] = new]
    BY <1>4 DEF Site!SudoRuns
  <2> HIDE DEF new
  <2>4. /\ saves' \in [Slots -> Site!Save \cup {Free}]
        /\ saves'[s] = new
        /\ \A t \in Slots \ {s} : saves'[t] = saves[t]
        /\ Site!Mine' = (Site!Mine \ {s}) \cup (IF new.left THEN {} ELSE {s})
        /\ Site!Sent' = (Site!Sent \ {s}) \cup (IF new.left THEN {} ELSE {s})
    BY <2>2, <2>3, SiteSlot
  <2>5. saves[s].left \in BOOLEAN
    BY <2>1 DEF Site!Save
  <2>6. /\ s \in Site!Mine <=> ~new.left
        /\ Site!Mine' = Site!Mine
        /\ Site!Sent' = Site!Sent \cup (IF new.left THEN {} ELSE {s})
    BY <2>1, <2>2, <2>4, <2>5 DEF Site!Mine
  <2>7. Site!TypeOK' /\ SiteLoaded'
    BY <1>4, <2>4, <2>5 DEF Site!SudoRuns, Site!TypeOK, SiteLoaded
  <2>8. SiteSent' /\ Site!OnlyReadIsSaved'
    BY <1>4, <2>6 DEF Site!SudoRuns, SiteSent, Site!OnlyReadIsSaved
  <2>9. \A t \in Site!Sent : t # s /\ saves'[t] = saves[t]
    BY <2>1, <2>4 DEF Site!Sent, Site!Mine, Site!Used
  <2>10. SiteKept'
    BY <1>4, <2>2, <2>4, <2>6, <2>9 DEF Site!SudoRuns, SiteKept
  <2>11. SiteHeld'
    <3>1. \A t \in Site!Mine : t # s => saves'[t] = saves[t]
      BY <2>4 DEF Site!Mine, Site!Used
    <3> QED
      BY <1>4, <2>2, <2>4, <2>6, <3>1 DEF Site!SudoRuns, SiteHeld
  <2> QED
    BY <2>7, <2>8, <2>10, <2>11
<1>5. ASSUME NEW s \in Slots, Site!SudoDismissed(s)
      PROVE  SiteInv'
  <2>1. /\ saves' \in [Slots -> Site!Save \cup {Free}]
        /\ \A t \in Slots \ {s} : saves'[t] = saves[t]
        /\ Site!Mine' = Site!Mine \ {s}
        /\ Site!Sent' = Site!Sent \ {s}
    BY <1>5, SiteFreed DEF Site!SudoDismissed
  <2>2. s \notin Site!Sent
    BY <1>5 DEF Site!SudoDismissed, Site!Sent
  <2>3. Site!TypeOK' /\ SiteLoaded'
    BY <1>5, <2>1 DEF Site!SudoDismissed, Site!TypeOK, SiteLoaded
  <2>4. SiteSent' /\ Site!OnlyReadIsSaved'
    BY <1>5, <2>1, <2>2 DEF Site!SudoDismissed, SiteSent, Site!OnlyReadIsSaved
  <2>5. SiteKept'
    BY <1>5, <2>1, <2>2 DEF Site!SudoDismissed, SiteKept, Site!Sent, Site!Mine, Site!Used
  <2>6. SiteHeld'
    BY <1>5, <2>1 DEF Site!SudoDismissed, SiteHeld, Site!Mine, Site!Used
  <2> QED
    BY <2>3, <2>4, <2>5, <2>6
<1>6. ASSUME NEW s \in Slots, Site!ApplySave(s)
      PROVE  SiteInv'
  <2> DEFINE new == [saves[s] EXCEPT !.stage = "stored"]
  <2>1. s \in Site!Used /\ saves[s] \in Site!Save /\ saves[s].stage = "sent"
        /\ saves[s].left \in BOOLEAN /\ saves[s].settings \in Site!Settings
    BY <1>6, SiteUsed DEF Site!ApplySave, Site!Save
  <2>2. /\ new \in Site!Save /\ new.stage = "stored" /\ new.left = saves[s].left
        /\ new.settings = saves[s].settings
    BY <2>1 DEF Site!Save
  <2>3. saves' = [saves EXCEPT ![s] = new]
    BY <1>6 DEF Site!ApplySave
  <2> HIDE DEF new
  <2>4. /\ saves' \in [Slots -> Site!Save \cup {Free}]
        /\ saves'[s] = new
        /\ \A t \in Slots \ {s} : saves'[t] = saves[t]
        /\ Site!Mine' = (Site!Mine \ {s}) \cup (IF new.left THEN {} ELSE {s})
        /\ Site!Sent' = (Site!Sent \ {s}) \cup (IF new.left THEN {} ELSE {s})
    BY <2>2, <2>3, SiteSlot
  <2>5. /\ s \in Site!Mine <=> ~new.left
        /\ s \in Site!Sent <=> ~new.left
    BY <2>1, <2>2 DEF Site!Mine, Site!Sent
  <2>6. Site!Mine' = Site!Mine /\ Site!Sent' = Site!Sent
    BY <2>4, <2>5
  <2>7. stored' = saves[s].settings /\ held' = IF read = Null THEN {} ELSE held \cup {saves[s].settings}
    BY <1>6 DEF Site!ApplySave, Site!Store
  <2>8. held' \subseteq Site!Settings
    BY <2>1, <2>7 DEF Site!TypeOK
  <2>9. Site!TypeOK' /\ SiteLoaded'
    BY <1>6, <2>1, <2>4, <2>7, <2>8 DEF Site!ApplySave, Site!TypeOK, SiteLoaded
  <2>10. SiteSent' /\ Site!OnlyReadIsSaved'
    BY <1>6, <2>6 DEF Site!ApplySave, SiteSent, Site!OnlyReadIsSaved
  <2>11. Site!Sent # {} => loaded /\ read # Null
    BY DEF Site!Sent, Site!OnlyReadIsSaved, SiteLoaded
  <2>12. SiteKept'
    <3>1. ASSUME smooth', read # Null
          PROVE  Site!Sent = {s} /\ loaded
      BY <1>6, <2>5, <2>2, <2>11, <3>1 DEF Site!ApplySave, SiteSent, Site!Mine
    <3>2. CASE read = Null
      BY <1>6, <2>6, <2>11, <3>2 DEF Site!ApplySave, SiteKept, SiteLoaded
    <3>3. CASE read # Null
      BY <1>6, <2>2, <2>4, <2>6, <2>7, <3>1, <3>3 DEF Site!ApplySave, SiteKept
    <3> QED
      BY <3>2, <3>3
  <2>13. SiteHeld'
    <3>1. \A t \in Site!Mine : t # s => saves'[t] = saves[t]
      BY <2>4 DEF Site!Mine, Site!Used
    <3>2. Site!Mine # {} => read # Null
      BY DEF Site!OnlyReadIsSaved, SiteLoaded
    <3> QED
      BY <1>6, <2>2, <2>4, <2>6, <2>7, <3>1, <3>2 DEF Site!ApplySave, SiteHeld, SiteLoaded
  <2> QED
    BY <2>9, <2>10, <2>12, <2>13
<1>7. ASSUME NEW new \in Site!Settings, Site!ForeignSave(new)
      PROVE  SiteInv'
  <2>1. Site!Mine' = Site!Mine /\ Site!Sent' = Site!Sent
    BY <1>7, SiteSame DEF Site!ForeignSave
  <2>2. stored' = new /\ held' = IF read = Null THEN {} ELSE held \cup {new}
    BY <1>7 DEF Site!ForeignSave, Site!Store
  <2>3. Site!TypeOK' /\ SiteLoaded'
    BY <1>7, <2>2 DEF Site!ForeignSave, Site!TypeOK, SiteLoaded
  <2>4. SiteKept' /\ SiteSent' /\ Site!OnlyReadIsSaved'
    BY <1>7, <2>1 DEF Site!ForeignSave, Site!OnlyReadIsSaved, SiteSent, SiteKept, SiteLoaded
  <2>5. SiteHeld'
    BY <1>7, <2>1, <2>2 DEF Site!ForeignSave, SiteHeld, SiteLoaded, Site!OnlyReadIsSaved
  <2> QED
    BY <2>3, <2>4, <2>5
<1>8. ASSUME NEW s \in Slots, Site!SaveSucceeds(s)
      PROVE  SiteInv'
  <2>1. /\ saves' \in [Slots -> Site!Save \cup {Free}]
        /\ \A t \in Slots \ {s} : saves'[t] = saves[t]
        /\ Site!Mine' = Site!Mine \ {s}
        /\ Site!Sent' = Site!Sent \ {s}
    BY <1>8, SiteFreed DEF Site!SaveSucceeds
  <2>2. s \in Site!Sent /\ s \in Site!Mine /\ saves[s] \in Site!Save
    BY <1>8, SiteUsed DEF Site!SaveSucceeds, Site!Sent, Site!Mine
  <2>3. saves[s].settings \in Site!Settings /\ saves[s].settings # Null
    BY <2>2 DEF Site!Save, Site!SettingsAssumption
  <2>4. loaded
    BY <2>2 DEF Site!OnlyReadIsSaved
  <2>5. Site!TypeOK' /\ SiteLoaded'
    BY <1>8, <2>1, <2>3, <2>4 DEF Site!SaveSucceeds, Site!TypeOK, SiteLoaded
  <2>6. SiteSent' /\ Site!OnlyReadIsSaved'
    BY <1>8, <2>1, <2>4 DEF Site!SaveSucceeds, SiteSent, Site!OnlyReadIsSaved
  <2>7. SiteKept'
    <3>1. smooth => Site!Sent' = {}
      BY <2>1, <2>2 DEF SiteSent
    <3>2. smooth => saves[s].settings = stored
      BY <1>8, <2>2, <2>4 DEF Site!SaveSucceeds, SiteKept
    <3> QED
      BY <1>8, <2>4, <3>1, <3>2 DEF Site!SaveSucceeds, SiteKept
  <2>8. SiteHeld'
    <3>1. saves[s].settings \in held
      BY <1>8, <2>2 DEF Site!SaveSucceeds, SiteHeld
    <3> QED
      BY <1>8, <2>1, <3>1 DEF Site!SaveSucceeds, SiteHeld, Site!Mine, Site!Used
  <2> QED
    BY <2>5, <2>6, <2>7, <2>8
<1>9. ASSUME NEW s \in Slots, Site!SaveFails(s) \/ Site!LeftSaveEnds(s)
      PROVE  SiteInv'
  <2>1. /\ saves' \in [Slots -> Site!Save \cup {Free}]
        /\ \A t \in Slots \ {s} : saves'[t] = saves[t]
        /\ Site!Mine' = Site!Mine \ {s}
        /\ Site!Sent' = Site!Sent \ {s}
    BY <1>9, SiteFreed DEF Site!SaveFails, Site!LeftSaveEnds
  <2>2. UNCHANGED <<stored, settings, baseline, settingsLoading, settingsError, read, loaded, held>>
        /\ saving' \in BOOLEAN /\ smooth' \in BOOLEAN
    BY <1>9 DEF Site!SaveFails, Site!LeftSaveEnds, Site!TypeOK
  <2>3. Site!TypeOK' /\ SiteLoaded'
    BY <2>1, <2>2 DEF Site!TypeOK, SiteLoaded
  <2>4. Site!OnlyReadIsSaved' /\ SiteHeld'
    BY <2>1, <2>2 DEF Site!OnlyReadIsSaved, SiteHeld, Site!Mine, Site!Used
  <2>5. SiteSent' /\ SiteKept'
    <3>1. CASE Site!SaveFails(s)
      BY <3>1 DEF Site!SaveFails, SiteSent, SiteKept
    <3>2. CASE Site!LeftSaveEnds(s)
      <4>1. Site!Sent' = Site!Sent /\ \A t \in Site!Sent : saves'[t] = saves[t]
        BY <2>1, <3>2 DEF Site!LeftSaveEnds, Site!Sent, Site!Mine, Site!Used
      <4> QED
        BY <2>2, <3>2, <4>1 DEF Site!LeftSaveEnds, SiteSent, SiteKept
    <3> QED
      BY <1>9, <3>1, <3>2
  <2> QED
    BY <2>3, <2>4, <2>5
<1>10. ASSUME Site!Remount
       PROVE  SiteInv'
  <2>1. \A s \in Site!Used :
            LET left == [saves[s] EXCEPT !.left = TRUE]
            IN  left \in Site!Save /\ left.left /\ left.stage = saves[s].stage
    BY SiteUsed DEF Site!Save
  <2>2. /\ saves' \in [Slots -> Site!Save \cup {Free}]
        /\ Site!Mine' = {}
        /\ Site!Sent' = {}
    <3>1. \A s \in Slots : IF s \in Site!Used
                           THEN saves'[s] \in Site!Save /\ saves'[s].left
                                /\ saves'[s].stage = saves[s].stage
                           ELSE saves'[s] = Free
      BY <1>10, <2>1 DEF Site!Remount
    <3>2. saves' \in [Slots -> Site!Save \cup {Free}]
      BY <1>10, <3>1 DEF Site!Remount
    <3>3. Site!Used' = Site!Used
      BY <3>1 DEF Site!Used, Site!SettingsAssumption
    <3> QED
      BY <3>1, <3>2, <3>3 DEF Site!Mine, Site!Sent, Site!Used
  <2>3. [f \in Fields |-> Default] \in Site!Settings
    BY DEF Site!Settings, Site!SettingsAssumption
  <2>4. Site!TypeOK' /\ SiteLoaded'
    BY <1>10, <2>2, <2>3 DEF Site!Remount, Site!TypeOK, SiteLoaded
  <2> QED
    BY <1>10, <2>2, <2>4 DEF Site!Remount, Site!OnlyReadIsSaved, SiteSent, SiteKept, SiteHeld
<1> QED
  BY <1>1, <1>2, <1>3, <1>4, <1>5, <1>6, <1>7, <1>8, <1>9, <1>10 DEF Site!Next

LEMMA SiteSaved ==
  ASSUME SiteInv
  PROVE  Site!SavedIsStored
<1> QED
  BY DEF SiteInv, SiteLoaded, SiteKept, SiteHeld, Site!SavedIsStored, Site!dirty, Site!hasLoadedSettings

-----------------------------------------------------------------------------
(* The clients *)

Absent(c) == kind[c] = "absent"
OpOf(call) == [type |-> call.type, client |-> call.client]
Runs(call) == call.type \in {"update", "delete", "rotate"}
Issues(call) == call.type \in {"create", "rotate"}

\* What the page names is a client that was registered, now or before.
ClientsKnown ==
    /\ \A c \in Clients : rows[c] \in ClientsPage!Registered => ~Absent(c)
    /\ editor # None /\ editor.client # None => ~Absent(editor.client)
    /\ pendingAction # None => ~Absent(pendingAction.client)
    /\ details # None => ~Absent(details.client)
    /\ \A op \in asked : ~Absent(op.client)
    /\ \A hold \in waiting : hold.op \in asked

\* What is in flight was asked for, and lists and creates clients that are known.
CallsKnown ==
    \A s \in Slots : clientCalls[s] # Free =>
        /\ Runs(clientCalls[s]) => OpOf(clientCalls[s]) \in asked
        /\ clientCalls[s].type = "create" =>
               IF clientCalls[s].answered
               THEN clientCalls[s].client \in Clients /\ ~Absent(clientCalls[s].client)
               ELSE clientCalls[s].client = None
        /\ \A c \in Clients : clientCalls[s].listing[c] \in ClientsPage!Registered => ~Absent(c)

\* Who issues a secret.
Issuer(s) == clientCalls[s] # Free /\ Issues(clientCalls[s])

\* An issued secret that awaits its dialog is the client's, or the client is blurred.
IssuedIsCurrent ==
    \A s \in Slots :
        Issuer(s) /\ clientCalls[s].answered /\ clientCalls[s].client \notin blurred
            => clientCalls[s].secret = secret[clientCalls[s].client]

\* A client whose registration awaits its dialog is shown only when it is blurred.
CreatedIsNotShown ==
    \A s \in Slots :
        (/\ Issuer(s) /\ clientCalls[s].type = "create" /\ clientCalls[s].answered
         /\ details # None /\ details.client = clientCalls[s].client)
            => clientCalls[s].client \in blurred

\* Two requests that issue a secret of one client blur it.
IssuersBlur ==
    \A s, t \in Slots :
        (/\ s # t /\ Issuer(s) /\ Issuer(t)
         /\ clientCalls[t].client = clientCalls[s].client /\ clientCalls[s].client # None)
            => clientCalls[s].client \in blurred

CallsIssue == IssuedIsCurrent /\ CreatedIsNotShown /\ IssuersBlur

ClientsInv ==
    /\ ClientsPage!TypeOK
    /\ ClientsKnown
    /\ CallsKnown
    /\ CallsIssue
    /\ ClientsPage!ShownSecretWorks

LEMMA IssuingIs ==
  ClientsPage!Issuing = {s \in Slots : Issuer(s)}
<1> QED
  BY DEF ClientsPage!Issuing, ClientsPage!InFlight, Issuer, Issues

LEMMA LoadRequest ==
  ASSUME ClientsPage!ClientsAssumption
  PROVE  /\ ClientsPage!Send("load", None, FALSE) \in ClientsPage!Call
         /\ ClientsPage!Send("load", None, FALSE) # Free
         /\ ClientsPage!Send("load", None, FALSE).type = "load"
         /\ \A x \in Clients : ClientsPage!Send("load", None, FALSE).listing[x] = "absent"
<1>1. ClientsPage!NoListing \in [Clients -> ClientsPage!Kinds]
  BY DEF ClientsPage!NoListing, ClientsPage!Kinds
<1>2. ClientsPage!Send("load", None, FALSE) \in ClientsPage!Call
  BY <1>1 DEF ClientsPage!Send, ClientsPage!Request, ClientsPage!Call
<1> QED
  BY <1>2 DEF ClientsPage!Send, ClientsPage!Request, ClientsPage!NoListing,
              ClientsPage!ClientsAssumption

LEMMA ClientsInit ==
  ASSUME ClientsPage!ClientsAssumption, ClientsPage!Init
  PROVE  ClientsInv
<1> DEFINE load == ClientsPage!Send("load", None, FALSE)
<1>1. /\ load \in ClientsPage!Call /\ load # Free /\ load.type = "load"
      /\ \A x \in Clients : load.listing[x] = "absent"
  BY LoadRequest
<1>2. PICK s0 \in Slots : clientCalls = [t \in Slots |-> IF t = s0 THEN load ELSE Free]
  BY DEF ClientsPage!Init
<1> HIDE DEF load
<1>3. ClientsPage!TypeOK
  <2>1. clientCalls \in [Slots -> ClientsPage!Call \cup {Free}]
    BY <1>1, <1>2
  <2>2. /\ kind \in [Clients -> ClientsPage!Kinds]
        /\ secret \in [Clients -> Nat] /\ rows \in [Clients -> ClientsPage!Kinds]
        /\ ops \in 0..MaxOps
    BY DEF ClientsPage!Init, ClientsPage!Kinds, ClientsPage!ClientsAssumption
  <2> QED
    BY <2>1, <2>2 DEF ClientsPage!Init, ClientsPage!TypeOK
<1>4. ClientsKnown
  BY DEF ClientsPage!Init, ClientsKnown, ClientsPage!Registered
<1>5. CallsKnown
  BY <1>1, <1>2 DEF CallsKnown, Runs, ClientsPage!Registered
<1>6. \A s \in Slots : ~Issuer(s)
  BY <1>1, <1>2 DEF Issuer, Issues
<1> QED
  BY <1>3, <1>4, <1>5, <1>6 DEF ClientsInv, CallsIssue, IssuedIsCurrent, CreatedIsNotShown,
                                IssuersBlur, ClientsPage!ShownSecretWorks, ClientsPage!Init

\* A step that leaves the requests and the server alone, and closes the dialog of
\* the secret at most.
LEMMA ClientsDialogs ==
  ASSUME ClientsInv, UNCHANGED <<kind, secret, clientCalls, asked, blurred>>, details' \in {details, None}
  PROVE  CallsKnown' /\ CallsIssue' /\ ClientsPage!ShownSecretWorks'
<1>1. CallsKnown'
  BY DEF ClientsInv, CallsKnown, Absent, Runs, OpOf
<1>2. CallsIssue'
  BY DEF ClientsInv, CallsIssue, IssuedIsCurrent, CreatedIsNotShown, IssuersBlur, Issuer, Issues
<1>3. ClientsPage!Issuing' = ClientsPage!Issuing
  BY DEF ClientsPage!Issuing, ClientsPage!InFlight
<1>4. ClientsPage!ShownSecretWorks'
  BY <1>3 DEF ClientsInv, ClientsPage!ShownSecretWorks
<1> QED
  BY <1>1, <1>2, <1>4

LEMMA ClientsSlot ==
  ASSUME ClientsPage!TypeOK, NEW s \in Slots, NEW c \in ClientsPage!Call \cup {Free},
         clientCalls' = [clientCalls EXCEPT ![s] = c]
  PROVE  /\ clientCalls' \in [Slots -> ClientsPage!Call \cup {Free}]
         /\ clientCalls'[s] = c
         /\ \A t \in Slots \ {s} : clientCalls'[t] = clientCalls[t]
<1> QED
  BY DEF ClientsPage!TypeOK

LEMMA DetailsType ==
  ASSUME ClientsPage!TypeOK, details # None
  PROVE  details.client \in Clients /\ details.secret \in Nat
<1> QED
  BY DEF ClientsPage!TypeOK

\* A request ends, or makes place for a load: its secret is shown, or the dialog
\* stays what it was and a rotation leaves its client blurred.
LEMMA ClientsEnds ==
  ASSUME ClientsPage!ClientsAssumption, ClientsInv,
         NEW s \in Slots, NEW c \in ClientsPage!Call \cup {Free},
         c # Free => c.type = "load" /\ \A x \in Clients : c.listing[x] = "absent",
         clientCalls' = [clientCalls EXCEPT ![s] = c],
         UNCHANGED <<kind, secret, asked>>, blurred \subseteq blurred',
         \/ /\ details' = details
            /\ clientCalls[s] # Free /\ clientCalls[s].type = "rotate"
                   => clientCalls[s].client \in blurred'
         \/ /\ clientCalls[s] # Free /\ Issues(clientCalls[s]) /\ clientCalls[s].answered
            /\ clientCalls[s].client \in Clients
            /\ details' = [client |-> clientCalls[s].client, secret |-> clientCalls[s].secret]
  PROVE  CallsKnown' /\ CallsIssue' /\ ClientsPage!ShownSecretWorks'
<1> USE DEF ClientsInv
<1>1. clientCalls'[s] = c /\ \A t \in Slots \ {s} : clientCalls'[t] = clientCalls[t]
  BY ClientsSlot
<1>2. c # Free => ~Runs(c) /\ ~Issues(c) /\ c.type # "create"
                  /\ \A x \in Clients : c.listing[x] \notin ClientsPage!Registered
  BY DEF Runs, Issues, ClientsPage!Registered
<1>3. CallsKnown'
  BY <1>1, <1>2 DEF CallsKnown, Absent, Runs, OpOf
<1>4. \A t \in Slots : Issuer(t)' <=> t # s /\ Issuer(t)
  BY <1>1, <1>2 DEF Issuer, Issues
<1>5. CallsIssue'
  <2>1. IssuedIsCurrent'
    BY <1>1, <1>4 DEF CallsIssue, IssuedIsCurrent
  <2>2. IssuersBlur'
    BY <1>1, <1>4 DEF CallsIssue, IssuersBlur
  <2>3. CreatedIsNotShown'
    <3>1. SUFFICES ASSUME NEW t \in Slots, t # s, Issuer(t),
                          clientCalls[t].type = "create", clientCalls[t].answered,
                          details' # None, details'.client = clientCalls[t].client
                   PROVE  clientCalls[t].client \in blurred'
      BY <1>1, <1>4 DEF CreatedIsNotShown
    <3>2. CASE details' = details
      BY <3>1, <3>2 DEF CallsIssue, CreatedIsNotShown
    <3>3. CASE /\ clientCalls[s] # Free /\ Issues(clientCalls[s])
               /\ clientCalls[s].client \in Clients
               /\ details' = [client |-> clientCalls[s].client, secret |-> clientCalls[s].secret]
      <4>1. Issuer(s) /\ clientCalls[t].client = clientCalls[s].client /\ clientCalls[t].client # None
        BY <3>1, <3>3 DEF Issuer, ClientsPage!ClientsAssumption
      <4> QED
        BY <3>1, <4>1 DEF CallsIssue, IssuersBlur
    <3> QED
      BY <3>2, <3>3
  <2> QED
    BY <2>1, <2>2, <2>3 DEF CallsIssue
<1>6. ClientsPage!Issuing' = ClientsPage!Issuing \ {s}
  BY <1>1, <1>2, IssuingIs DEF ClientsPage!Issuing, ClientsPage!InFlight, Issuer, Issues
<1>7. ClientsPage!ShownSecretWorks'
  <2>1. CASE /\ details' = details /\ details # None
             /\ clientCalls[s] # Free /\ clientCalls[s].type = "rotate" => clientCalls[s].client \in blurred'
    <3>1. details.client \in Clients /\ None \notin Clients
      BY <2>1, DetailsType DEF ClientsPage!ClientsAssumption
    <3>2. s \in ClientsPage!Issuing /\ clientCalls[s].client = details.client
              => details.client \in blurred'
      <4>1. SUFFICES ASSUME s \in ClientsPage!Issuing, clientCalls[s].client = details.client
                     PROVE  details.client \in blurred'
        OBVIOUS
      <4>2. Issuer(s)
        BY <4>1, IssuingIs
      <4>3. CASE clientCalls[s].type = "rotate"
        BY <2>1, <4>1, <4>2, <4>3 DEF Issuer
      <4>4. CASE clientCalls[s].type = "create"
        <5>1. clientCalls[s].answered
          BY <3>1, <4>1, <4>2, <4>4 DEF CallsKnown, Issuer
        <5> QED
          BY <2>1, <4>1, <4>2, <4>4, <5>1 DEF CallsIssue, CreatedIsNotShown
      <4> QED
        BY <4>2, <4>3, <4>4 DEF Issuer, Issues
    <3>3. \A t \in Slots \ {s} : clientCalls'[t].client = clientCalls[t].client
      BY <1>1
    <3> QED
      BY <1>6, <2>1, <3>2, <3>3, IssuingIs DEF ClientsPage!ShownSecretWorks
  <2>2. CASE /\ clientCalls[s] # Free /\ Issues(clientCalls[s]) /\ clientCalls[s].answered
             /\ details' = [client |-> clientCalls[s].client, secret |-> clientCalls[s].secret]
    BY <2>2 DEF CallsIssue, IssuedIsCurrent, Issuer, ClientsPage!ShownSecretWorks
  <2>3. CASE details' = None
    BY <2>3 DEF ClientsPage!ShownSecretWorks
  <2> QED
    BY <2>1, <2>2, <2>3
<1> QED
  BY <1>3, <1>5, <1>7

\* An operation begins in a free slot.
LEMMA ClientsBegins ==
  ASSUME ClientsPage!ClientsAssumption, ClientsInv, NEW s \in Slots, NEW c \in ClientsPage!Call,
         clientCalls[s] = Free, clientCalls' = [clientCalls EXCEPT ![s] = c],
         ~c.answered, \A x \in Clients : c.listing[x] = "absent",
         Runs(c) => OpOf(c) \in asked', c.type = "create" => c.client = None,
         UNCHANGED <<kind, secret, details>>, asked \subseteq asked', blurred \subseteq blurred',
         c.type = "rotate" /\ (\E t \in ClientsPage!Issuing : clientCalls[t].client = c.client)
             => c.client \in blurred'
  PROVE  CallsKnown' /\ CallsIssue' /\ ClientsPage!ShownSecretWorks'
<1> USE DEF ClientsInv
<1>1. clientCalls'[s] = c /\ \A t \in Slots \ {s} : clientCalls'[t] = clientCalls[t]
  BY ClientsSlot
<1>2. c # Free /\ \A x \in Clients : c.listing[x] \notin ClientsPage!Registered
  BY DEF ClientsPage!Registered, ClientsPage!ClientsAssumption
<1>3. CallsKnown'
  BY <1>1, <1>2 DEF CallsKnown, Absent, Runs, OpOf
<1>4. \A t \in Slots : Issuer(t)' <=> IF t = s THEN Issues(c) ELSE Issuer(t)
  BY <1>1, <1>2 DEF Issuer, Issues
<1>5. CallsIssue'
  <2>1. ~Issuer(s)
    BY DEF Issuer
  <2>2. IssuedIsCurrent'
    BY <1>1, <1>4 DEF CallsIssue, IssuedIsCurrent
  <2>3. CreatedIsNotShown'
    BY <1>1, <1>4 DEF CallsIssue, CreatedIsNotShown
  <2>4. \A t \in Slots : Issuer(t) /\ Issues(c) /\ clientCalls[t].client = c.client /\ c.client # None
            => c.client \in blurred'
    BY IssuingIs DEF Issues
  <2>5. IssuersBlur'
    <3>1. SUFFICES ASSUME NEW t \in Slots, NEW u \in Slots, t # u, Issuer(t)', Issuer(u)',
                          clientCalls'[u].client = clientCalls'[t].client, clientCalls'[t].client # None
                   PROVE  clientCalls'[t].client \in blurred'
      BY DEF IssuersBlur
    <3>2. CASE t = s
      BY <1>1, <1>4, <2>4, <3>1, <3>2
    <3>3. CASE u = s
      BY <1>1, <1>4, <2>4, <3>1, <3>3
    <3>4. CASE t # s /\ u # s
      BY <1>1, <1>4, <3>1, <3>4 DEF CallsIssue, IssuersBlur
    <3> QED
      BY <3>2, <3>3, <3>4
  <2> QED
    BY <2>2, <2>3, <2>5 DEF CallsIssue
<1>6. ClientsPage!Issuing \subseteq ClientsPage!Issuing'
      /\ \A t \in ClientsPage!Issuing : clientCalls'[t] = clientCalls[t]
  <2>1. \A t \in Slots : Issuer(t) => t # s
    BY DEF Issuer
  <2> QED
    BY <1>1, <2>1, IssuingIs DEF ClientsPage!Issuing, ClientsPage!InFlight, Issuer, Issues
<1>7. ClientsPage!ShownSecretWorks'
  BY <1>6 DEF ClientsPage!ShownSecretWorks
<1> QED
  BY <1>3, <1>5, <1>7

\* The dialogs open and close; Sudo Mode drops what it held.
LEMMA ClientsAsks ==
  ASSUME ClientsPage!ClientsAssumption, ClientsInv,
         \/ \E c \in Clients \cup {None} : ClientsPage!OpenEditor(c)
         \/ \E c \in Clients, type \in {"delete", "rotate"} : ClientsPage!Ask(type, c)
         \/ ClientsPage!ToggleConfidential
         \/ ClientsPage!CloseEditor
         \/ ClientsPage!CancelAction
         \/ ClientsPage!CloseSecret
         \/ \E hold \in waiting : ClientsPage!SudoDismissed(hold)
  PROVE  ClientsInv'
<1> USE DEF ClientsPage!server, ClientsPage!table, ClientsPage!history
<1>1. ASSUME NEW c \in Clients \cup {None}, ClientsPage!OpenEditor(c)
      PROVE  ClientsInv'
  <2>1. editor' \in ClientsPage!Editing /\ editor'.client = c
    BY <1>1 DEF ClientsPage!OpenEditor, ClientsPage!Editing
  <2>2. c \in Clients => ~Absent(c)
    BY <1>1 DEF ClientsPage!OpenEditor, ClientsPage!Listed, ClientsInv, ClientsKnown,
                ClientsPage!ClientsAssumption
  <2>3. ClientsPage!TypeOK'
    BY <1>1, <2>1 DEF ClientsPage!OpenEditor, ClientsInv, ClientsPage!TypeOK
  <2>4. ClientsKnown'
    BY <1>1, <2>1, <2>2 DEF ClientsPage!OpenEditor, ClientsInv, ClientsKnown, Absent
  <2> QED
    BY <1>1, <2>3, <2>4, ClientsDialogs DEF ClientsPage!OpenEditor, ClientsInv
<1>2. ASSUME NEW c \in Clients, NEW type \in {"delete", "rotate"}, ClientsPage!Ask(type, c)
      PROVE  ClientsInv'
  <2>1. pendingAction' \in ClientsPage!Op /\ pendingAction'.client = c
    BY <1>2 DEF ClientsPage!Ask, ClientsPage!Op
  <2>2. ~Absent(c)
    BY <1>2 DEF ClientsPage!Ask, ClientsPage!Listed, ClientsInv, ClientsKnown
  <2>3. ClientsPage!TypeOK'
    BY <1>2, <2>1 DEF ClientsPage!Ask, ClientsInv, ClientsPage!TypeOK
  <2>4. ClientsKnown'
    BY <1>2, <2>1, <2>2 DEF ClientsPage!Ask, ClientsInv, ClientsKnown, Absent
  <2> QED
    BY <1>2, <2>3, <2>4, ClientsDialogs DEF ClientsPage!Ask, ClientsInv
<1>3. ASSUME ClientsPage!ToggleConfidential
      PROVE  ClientsInv'
  <2>1. editor \in ClientsPage!Editing
    BY <1>3 DEF ClientsPage!ToggleConfidential, ClientsInv, ClientsPage!TypeOK
  <2>2. editor' \in ClientsPage!Editing /\ editor'.client = editor.client
    BY <1>3, <2>1 DEF ClientsPage!ToggleConfidential, ClientsPage!Editing
  <2>3. ClientsPage!TypeOK'
    BY <1>3, <2>2 DEF ClientsPage!ToggleConfidential, ClientsInv, ClientsPage!TypeOK
  <2>4. ClientsKnown'
    BY <1>3, <2>2 DEF ClientsPage!ToggleConfidential, ClientsInv, ClientsKnown, Absent
  <2> QED
    BY <1>3, <2>3, <2>4, ClientsDialogs DEF ClientsPage!ToggleConfidential, ClientsInv
<1>4. ASSUME ClientsPage!CloseEditor \/ ClientsPage!CancelAction \/ ClientsPage!CloseSecret
      PROVE  ClientsInv'
  <2>1. /\ UNCHANGED <<kind, secret, issued, rows, clientsLoading, clientsError, clientsResolved,
                       waiting, clientCalls, asked, ops, blurred>>
        /\ editor' \in {editor, None} /\ pendingAction' \in {pendingAction, None}
        /\ details' \in {details, None}
    BY <1>4 DEF ClientsPage!CloseEditor, ClientsPage!CancelAction, ClientsPage!CloseSecret
  <2>2. ClientsPage!TypeOK'
    BY <2>1 DEF ClientsInv, ClientsPage!TypeOK
  <2>3. ClientsKnown'
    BY <2>1 DEF ClientsInv, ClientsKnown, Absent
  <2> QED
    BY <2>1, <2>2, <2>3, ClientsDialogs DEF ClientsInv
<1>5. ASSUME NEW hold \in waiting, ClientsPage!SudoDismissed(hold)
      PROVE  ClientsInv'
  <2>1. ClientsPage!TypeOK'
    BY <1>5 DEF ClientsPage!SudoDismissed, ClientsPage!dialogs, ClientsInv, ClientsPage!TypeOK
  <2>2. ClientsKnown'
    BY <1>5 DEF ClientsPage!SudoDismissed, ClientsPage!dialogs, ClientsInv, ClientsKnown, Absent
  <2> QED
    BY <1>5, <2>1, <2>2, ClientsDialogs DEF ClientsPage!SudoDismissed, ClientsPage!dialogs, ClientsInv
<1> QED
  BY <1>1, <1>2, <1>3, <1>4, <1>5

\* A request is answered to the page, fails, or ends after its page was left.
LEMMA ClientsAnswered ==
  ASSUME ClientsPage!ClientsAssumption, ClientsInv, NEW s \in Slots,
         \/ ClientsPage!Reload(s) \/ ClientsPage!LoadSucceeds(s) \/ ClientsPage!LoadFails(s)
         \/ ClientsPage!EditorSucceeds(s) \/ ClientsPage!DeleteSucceeds(s)
         \/ ClientsPage!RotateSucceeds(s) \/ ClientsPage!OperationFails(s)
         \/ ClientsPage!LeftSucceeds(s)
  PROVE  ClientsInv'
<1> USE DEF ClientsPage!server, ClientsPage!table, ClientsPage!history, ClientsPage!dialogs
<1> DEFINE load == ClientsPage!Send("load", None, FALSE)
<1>1. /\ load \in ClientsPage!Call /\ load # Free /\ load.type = "load"
      /\ \A x \in Clients : load.listing[x] = "absent"
  BY LoadRequest
<1> HIDE DEF load
<1>2. Free \in ClientsPage!Call \cup {Free} /\ load \in ClientsPage!Call \cup {Free}
  BY <1>1
<1>3. ASSUME clientCalls[s] # Free
      PROVE  clientCalls[s] \in ClientsPage!Call
  BY <1>3 DEF ClientsInv, ClientsPage!TypeOK
<1>4. ASSUME ClientsPage!Reload(s)
      PROVE  ClientsInv'
  <2>1. /\ clientCalls' = [clientCalls EXCEPT ![s] = load] /\ clientCalls[s] = Free
        /\ clientsLoading' = TRUE /\ clientsError' = FALSE
        /\ UNCHANGED <<kind, secret, issued, rows, clientsResolved, editor, pendingAction, waiting,
                       details, asked, ops, blurred>>
    BY <1>4 DEF ClientsPage!Reload, ClientsPage!refresh, load
  <2>2. ClientsPage!TypeOK'
    BY <1>2, <2>1, ClientsSlot DEF ClientsInv, ClientsPage!TypeOK
  <2>3. ClientsKnown'
    BY <2>1 DEF ClientsInv, ClientsKnown, Absent
  <2>4. CallsKnown' /\ CallsIssue' /\ ClientsPage!ShownSecretWorks'
    BY <1>1, <1>2, <2>1, ClientsEnds
  <2> QED
    BY <2>2, <2>3, <2>4 DEF ClientsInv
<1>5. ASSUME ClientsPage!LoadSucceeds(s) \/ ClientsPage!LoadFails(s)
      PROVE  ClientsInv'
  <2>1. /\ clientCalls' = [clientCalls EXCEPT ![s] = Free]
        /\ clientCalls[s] # Free /\ clientCalls[s].type = "load"
        /\ UNCHANGED <<kind, secret, issued, editor, pendingAction, waiting, details, asked, ops, blurred>>
    BY <1>5 DEF ClientsPage!LoadSucceeds, ClientsPage!LoadFails, ClientsPage!InFlight
  <2>2. rows' \in {rows, clientCalls[s].listing}
        /\ {clientsLoading', clientsError', clientsResolved'} \subseteq BOOLEAN
    BY <1>5 DEF ClientsPage!LoadSucceeds, ClientsPage!LoadFails, ClientsInv, ClientsPage!TypeOK
  <2>3. clientCalls[s].listing \in [Clients -> ClientsPage!Kinds]
        /\ \A c \in Clients : clientCalls[s].listing[c] \in ClientsPage!Registered => ~Absent(c)
    BY <1>3, <2>1 DEF ClientsPage!Call, ClientsInv, CallsKnown
  <2>4. ClientsPage!TypeOK'
    BY <1>2, <2>1, <2>2, <2>3, ClientsSlot DEF ClientsInv, ClientsPage!TypeOK
  <2>5. ClientsKnown'
    BY <2>1, <2>2, <2>3 DEF ClientsInv, ClientsKnown, Absent
  <2>6. CallsKnown' /\ CallsIssue' /\ ClientsPage!ShownSecretWorks'
    BY <1>1, <1>2, <2>1, ClientsEnds
  <2> QED
    BY <2>4, <2>5, <2>6 DEF ClientsInv
<1>6. ASSUME ClientsPage!EditorSucceeds(s) \/ ClientsPage!DeleteSucceeds(s) \/ ClientsPage!RotateSucceeds(s)
      PROVE  ClientsInv'
  <2>1. /\ clientCalls' = [clientCalls EXCEPT ![s] = load]
        /\ clientsLoading' = TRUE /\ clientsError' = FALSE /\ editor' \in {editor, None}
        /\ UNCHANGED <<kind, secret, issued, rows, clientsResolved, pendingAction, waiting, asked, ops,
                       blurred>>
    BY <1>6 DEF ClientsPage!EditorSucceeds, ClientsPage!DeleteSucceeds, ClientsPage!RotateSucceeds,
                ClientsPage!refresh, load
  <2>2. clientCalls[s] # Free /\ clientCalls[s].answered
    BY <1>6 DEF ClientsPage!EditorSucceeds, ClientsPage!DeleteSucceeds, ClientsPage!RotateSucceeds,
                ClientsPage!Mine, ClientsPage!Busy
  <2>3. \/ details' = details /\ clientCalls[s].type # "rotate"
        \/ /\ Issues(clientCalls[s])
           /\ details' = [client |-> clientCalls[s].client, secret |-> clientCalls[s].secret]
    BY <1>6, <2>2 DEF ClientsPage!EditorSucceeds, ClientsPage!DeleteSucceeds, ClientsPage!RotateSucceeds,
                      ClientsPage!ShowSecret, ClientsPage!Editors, ClientsPage!InFlight, Issues
  <2>4. Issues(clientCalls[s]) =>
            clientCalls[s].client \in Clients /\ ~Absent(clientCalls[s].client)
    <3>1. CASE clientCalls[s].type = "create"
      BY <2>2, <3>1 DEF ClientsInv, CallsKnown
    <3>2. CASE clientCalls[s].type = "rotate"
      <4>1. OpOf(clientCalls[s]) \in asked
        BY <2>2, <3>2 DEF ClientsInv, CallsKnown, Runs
      <4> QED
        BY <4>1 DEF ClientsInv, ClientsKnown, ClientsPage!TypeOK, ClientsPage!Op, OpOf
    <3> QED
      BY <3>1, <3>2 DEF Issues
  <2>5. Issues(clientCalls[s]) => clientCalls[s].secret \in Nat
    BY <1>3, <2>2 DEF ClientsPage!Call
  <2>6. details' \in [client : Clients, secret : Nat] \cup {None}
    BY <2>3, <2>4, <2>5 DEF ClientsInv, ClientsPage!TypeOK
  <2>7. ClientsPage!TypeOK'
    BY <1>2, <2>1, <2>6, ClientsSlot DEF ClientsInv, ClientsPage!TypeOK
  <2>8. ClientsKnown'
    BY <2>1, <2>3, <2>4 DEF ClientsInv, ClientsKnown, Absent
  <2>9. CallsKnown' /\ CallsIssue' /\ ClientsPage!ShownSecretWorks'
    BY <1>1, <1>2, <2>1, <2>2, <2>3, <2>4, ClientsEnds
  <2> QED
    BY <2>7, <2>8, <2>9 DEF ClientsInv
<1>7. ASSUME ClientsPage!OperationFails(s) \/ ClientsPage!LeftSucceeds(s)
      PROVE  ClientsInv'
  <2>1. /\ clientCalls' = [clientCalls EXCEPT ![s] = Free] /\ clientCalls[s] # Free
        /\ blurred' = IF clientCalls[s].type = "rotate" THEN blurred \cup {clientCalls[s].client} ELSE blurred
        /\ UNCHANGED <<kind, secret, issued, rows, clientsLoading, clientsError, clientsResolved, editor,
                       pendingAction, waiting, details, asked, ops>>
    BY <1>7 DEF ClientsPage!OperationFails, ClientsPage!LeftSucceeds, ClientsPage!Busy
  <2>2. clientCalls[s].type = "rotate" => clientCalls[s].client \in Clients
    <3>1. clientCalls[s].type = "rotate" => OpOf(clientCalls[s]) \in asked
      BY <2>1 DEF ClientsInv, CallsKnown, Runs
    <3> QED
      BY <3>1 DEF ClientsInv, ClientsPage!TypeOK, ClientsPage!Op, OpOf
  <2>3. ClientsPage!TypeOK'
    BY <1>2, <2>1, <2>2, ClientsSlot DEF ClientsInv, ClientsPage!TypeOK
  <2>4. ClientsKnown'
    BY <2>1 DEF ClientsInv, ClientsKnown, Absent
  <2>5. CallsKnown' /\ CallsIssue' /\ ClientsPage!ShownSecretWorks'
    BY <1>1, <1>2, <2>1, ClientsEnds
  <2> QED
    BY <2>3, <2>4, <2>5 DEF ClientsInv
<1> QED
  BY <1>4, <1>5, <1>6, <1>7

\* onSuccess begins, when it is confirmed or when Sudo Mode lets it.
LEMMA ClientsRuns ==
  ASSUME ClientsPage!ClientsAssumption, ClientsInv, NEW s \in Slots,
         NEW op \in ClientsPage!Op, NEW left \in BOOLEAN, ClientsPage!Begin(op, left, s),
         op \in asked', asked \subseteq asked', UNCHANGED <<kind, secret, details>>
  PROVE  /\ clientCalls' \in [Slots -> ClientsPage!Call \cup {Free}] /\ blurred' \subseteq Clients
         /\ CallsKnown' /\ CallsIssue' /\ ClientsPage!ShownSecretWorks'
<1> DEFINE c == ClientsPage!Request(op.type, op.client, FALSE, left)
<1>1. op.type \in {"update", "delete", "rotate"} /\ op.client \in Clients
      /\ op = [type |-> op.type, client |-> op.client]
  BY DEF ClientsPage!Op
<1>2. /\ c \in ClientsPage!Call /\ c.type = op.type /\ c.client = op.client /\ ~c.answered
      /\ \A x \in Clients : c.listing[x] = "absent"
  <2>1. ClientsPage!NoListing \in [Clients -> ClientsPage!Kinds]
    BY DEF ClientsPage!NoListing, ClientsPage!Kinds
  <2>2. c \in ClientsPage!Call
    BY <1>1, <2>1 DEF ClientsPage!Request, ClientsPage!Call
  <2> QED
    BY <2>2 DEF ClientsPage!Request, ClientsPage!NoListing
<1> HIDE DEF c
<1>3. clientCalls[s] = Free /\ clientCalls' = [clientCalls EXCEPT ![s] = c]
  BY DEF ClientsPage!Begin, c
<1>4. /\ blurred \subseteq blurred' /\ blurred' \subseteq Clients
      /\ c.type = "rotate" /\ (\E t \in ClientsPage!Issuing : clientCalls[t].client = c.client)
             => c.client \in blurred'
  <2>1. blurred' = IF op.type = "rotate"
                      /\ \E t \in ClientsPage!Issuing : clientCalls[t].client = op.client
                   THEN blurred \cup {op.client} ELSE blurred
    BY DEF ClientsPage!Begin
  <2>2. blurred \subseteq Clients
    BY DEF ClientsInv, ClientsPage!TypeOK
  <2> QED
    BY <1>1, <1>2, <2>1, <2>2
<1>5. OpOf(c) \in asked' /\ c.type # "create"
  BY <1>1, <1>2 DEF OpOf
<1>6. CallsKnown' /\ CallsIssue' /\ ClientsPage!ShownSecretWorks'
  BY <1>2, <1>3, <1>4, <1>5, ClientsBegins
<1> QED
  BY <1>2, <1>3, <1>4, <1>6, ClientsSlot DEF ClientsInv

LEMMA ClientsSubmits ==
  ASSUME ClientsPage!ClientsAssumption, ClientsInv, NEW s \in Slots, ClientsPage!SubmitEditor(s)
  PROVE  ClientsInv'
<1> USE DEF ClientsPage!server, ClientsPage!table, ClientsPage!history, ClientsPage!dialogs
<1>1. /\ editor # None /\ editor \in ClientsPage!Editing /\ clientCalls[s] = Free
      /\ UNCHANGED <<kind, secret, issued, rows, clientsLoading, clientsError, clientsResolved, editor,
                     pendingAction, details, waiting, blurred>>
  BY DEF ClientsPage!SubmitEditor, ClientsInv, ClientsPage!TypeOK
<1>2. ops' \in 0..MaxOps
  BY DEF ClientsPage!SubmitEditor, ClientsInv, ClientsPage!TypeOK, ClientsPage!ClientsAssumption
<1> DEFINE type == IF editor.client = None THEN "create" ELSE "update"
           c == ClientsPage!Request(type, editor.client, editor.confidential, FALSE)
           op == [type |-> "update", client |-> editor.client]
<1>3. editor.client \in Clients \cup {None} /\ editor.confidential \in BOOLEAN
  BY <1>1 DEF ClientsPage!Editing
<1>4. ClientsPage!NoListing \in [Clients -> ClientsPage!Kinds]
  BY DEF ClientsPage!NoListing, ClientsPage!Kinds
<1>5. /\ c \in ClientsPage!Call /\ c.type = type /\ c.client = editor.client /\ ~c.answered
      /\ \A x \in Clients : c.listing[x] = "absent"
  <2>1. c \in ClientsPage!Call
    BY <1>3, <1>4 DEF ClientsPage!Request, ClientsPage!Call
  <2> QED
    BY <2>1 DEF ClientsPage!Request, ClientsPage!NoListing
<1>6. clientCalls' = [clientCalls EXCEPT ![s] = c]
      /\ asked' = IF editor.client = None THEN asked ELSE asked \cup {op}
  BY DEF ClientsPage!SubmitEditor, ClientsPage!Send
<1>7. editor.client # None => op \in ClientsPage!Op /\ ~Absent(op.client)
  BY <1>1, <1>3 DEF ClientsPage!Op, ClientsInv, ClientsKnown
<1>8. Runs(c) => OpOf(c) \in asked'
  BY <1>5, <1>6 DEF Runs, OpOf
<1> HIDE DEF c, op
<1>9. c.type # "rotate" /\ (c.type = "create" => c.client = None)
  BY <1>5
<1>10. CallsKnown' /\ CallsIssue' /\ ClientsPage!ShownSecretWorks'
  <2>1. asked \subseteq asked' /\ blurred \subseteq blurred'
    BY <1>1, <1>6
  <2> QED
    BY <1>1, <1>5, <1>6, <1>8, <1>9, <2>1, ClientsBegins
<1>11. ClientsPage!TypeOK'
  <2>1. clientCalls' \in [Slots -> ClientsPage!Call \cup {Free}]
    BY <1>5, <1>6, ClientsSlot DEF ClientsInv
  <2>2. asked' \subseteq ClientsPage!Op
    BY <1>6, <1>7 DEF ClientsInv, ClientsPage!TypeOK
  <2> QED
    BY <1>1, <1>2, <2>1, <2>2 DEF ClientsInv, ClientsPage!TypeOK
<1>12. ClientsKnown'
  BY <1>1, <1>6, <1>7 DEF ClientsInv, ClientsKnown, Absent
<1> QED
  BY <1>10, <1>11, <1>12 DEF ClientsInv

LEMMA ClientsConfirms ==
  ASSUME ClientsPage!ClientsAssumption, ClientsInv, NEW s \in Slots,
         \/ ClientsPage!Confirm(s)
         \/ \E hold \in waiting : ClientsPage!SudoRuns(hold, s)
  PROVE  ClientsInv'
<1> USE DEF ClientsPage!server, ClientsPage!table, ClientsPage!history, ClientsPage!dialogs
<1>1. ASSUME ClientsPage!Confirm(s)
      PROVE  ClientsInv'
  <2>1. /\ pendingAction # None /\ pendingAction \in ClientsPage!Op /\ ~Absent(pendingAction.client)
        /\ pendingAction' = None /\ asked' = asked \cup {pendingAction}
        /\ UNCHANGED <<kind, secret, issued, rows, clientsLoading, clientsError, clientsResolved,
                       editor, details>>
    BY <1>1 DEF ClientsPage!Confirm, ClientsInv, ClientsPage!TypeOK, ClientsKnown
  <2>2. ops' \in 0..MaxOps
    BY <1>1 DEF ClientsPage!Confirm, ClientsInv, ClientsPage!TypeOK, ClientsPage!ClientsAssumption
  <2>3. asked' \subseteq ClientsPage!Op /\ asked \subseteq asked' /\ pendingAction \in asked'
    BY <2>1 DEF ClientsInv, ClientsPage!TypeOK
  <2>4. CASE ClientsPage!Begin(pendingAction, FALSE, s) /\ UNCHANGED waiting
    <3>1. /\ clientCalls' \in [Slots -> ClientsPage!Call \cup {Free}] /\ blurred' \subseteq Clients
          /\ CallsKnown' /\ CallsIssue' /\ ClientsPage!ShownSecretWorks'
      BY <2>1, <2>3, <2>4, ClientsRuns
    <3>2. ClientsPage!TypeOK'
      BY <2>1, <2>2, <2>3, <2>4, <3>1 DEF ClientsInv, ClientsPage!TypeOK
    <3>3. ClientsKnown'
      BY <2>1, <2>4 DEF ClientsInv, ClientsKnown, Absent
    <3> QED
      BY <3>1, <3>2, <3>3 DEF ClientsInv
  <2>5. CASE waiting' = waiting \cup {[op |-> pendingAction, left |-> FALSE]}
             /\ UNCHANGED <<clientCalls, blurred>>
    <3>1. [op |-> pendingAction, left |-> FALSE] \in ClientsPage!Held
      BY <2>1 DEF ClientsPage!Held
    <3>2. ClientsPage!TypeOK'
      BY <2>1, <2>2, <2>3, <2>5, <3>1 DEF ClientsInv, ClientsPage!TypeOK
    <3>3. ClientsKnown'
      BY <2>1, <2>5 DEF ClientsInv, ClientsKnown, Absent
    <3>4. CallsKnown'
      BY <2>1, <2>3, <2>5 DEF ClientsInv, CallsKnown, Absent, Runs, OpOf
    <3>5. CallsIssue'
      BY <2>1, <2>5 DEF ClientsInv, CallsIssue, IssuedIsCurrent, CreatedIsNotShown, IssuersBlur, Issuer,
                        Issues
    <3>6. ClientsPage!ShownSecretWorks'
      <4>1. ClientsPage!Issuing' = ClientsPage!Issuing
        BY <2>5 DEF ClientsPage!Issuing, ClientsPage!InFlight
      <4> QED
        BY <2>1, <2>5, <4>1 DEF ClientsInv, ClientsPage!ShownSecretWorks
    <3> QED
      BY <3>2, <3>3, <3>4, <3>5, <3>6 DEF ClientsInv
  <2> QED
    BY <1>1, <2>4, <2>5 DEF ClientsPage!Confirm
<1>2. ASSUME NEW hold \in waiting, ClientsPage!SudoRuns(hold, s)
      PROVE  ClientsInv'
  <2>1. hold.op \in ClientsPage!Op /\ hold.left \in BOOLEAN /\ hold.op \in asked
    BY DEF ClientsInv, ClientsPage!TypeOK, ClientsPage!Held, ClientsKnown
  <2>2. /\ ClientsPage!Begin(hold.op, hold.left, s) /\ waiting' = waiting \ {hold}
        /\ UNCHANGED <<kind, secret, issued, rows, clientsLoading, clientsError, clientsResolved, editor,
                       pendingAction, details, asked, ops>>
    BY <1>2 DEF ClientsPage!SudoRuns
  <2>3. /\ clientCalls' \in [Slots -> ClientsPage!Call \cup {Free}] /\ blurred' \subseteq Clients
        /\ CallsKnown' /\ CallsIssue' /\ ClientsPage!ShownSecretWorks'
    BY <2>1, <2>2, ClientsRuns
  <2>4. ClientsPage!TypeOK'
    BY <2>2, <2>3 DEF ClientsInv, ClientsPage!TypeOK
  <2>5. ClientsKnown'
    BY <2>2 DEF ClientsInv, ClientsKnown, Absent
  <2> QED
    BY <2>3, <2>4, <2>5 DEF ClientsInv
<1> QED
  BY <1>1, <1>2

\* The page is left: what is in flight stays what it was, but for its page.
LEMMA ClientsLeaves ==
  ASSUME ClientsPage!ClientsAssumption, ClientsInv, NEW s \in Slots, ClientsPage!Remount(s)
  PROVE  ClientsInv'
<1> USE DEF ClientsPage!server, ClientsPage!history
<1>1. /\ clientCalls[s] = Free /\ rows' = [c \in Clients |-> "absent"]
      /\ clientsLoading' = TRUE /\ clientsError' = FALSE /\ clientsResolved' = FALSE
      /\ editor' = None /\ pendingAction' = None /\ details' = None
      /\ waiting' = {[hold EXCEPT !.left = TRUE] : hold \in waiting}
      /\ UNCHANGED <<kind, secret, issued, asked, ops, blurred>>
  BY DEF ClientsPage!Remount
<1>2. \A t \in Slots :
          \/ clientCalls'[t] = Free
          \/ clientCalls'[t] = ClientsPage!Send("load", None, FALSE)
          \/ clientCalls[t] # Free /\ clientCalls'[t] = [clientCalls[t] EXCEPT !.left = TRUE]
  BY DEF ClientsPage!Remount, ClientsPage!Busy
<1>3. \A t \in Slots : clientCalls[t] # Free =>
          LET left == [clientCalls[t] EXCEPT !.left = TRUE]
          IN  /\ left \in ClientsPage!Call
              /\ left.type = clientCalls[t].type /\ left.client = clientCalls[t].client
              /\ left.answered = clientCalls[t].answered /\ left.secret = clientCalls[t].secret
              /\ left.listing = clientCalls[t].listing
  BY DEF ClientsInv, ClientsPage!TypeOK, ClientsPage!Call
<1>4. \A t \in Slots :
          \/ clientCalls'[t] = Free
          \/ /\ clientCalls'[t] \in ClientsPage!Call /\ clientCalls'[t].type = "load"
             /\ \A x \in Clients : clientCalls'[t].listing[x] = "absent"
          \/ /\ clientCalls[t] # Free /\ clientCalls'[t] \in ClientsPage!Call
             /\ clientCalls'[t].type = clientCalls[t].type
             /\ clientCalls'[t].client = clientCalls[t].client
             /\ clientCalls'[t].answered = clientCalls[t].answered
             /\ clientCalls'[t].secret = clientCalls[t].secret
             /\ clientCalls'[t].listing = clientCalls[t].listing
  BY <1>2, <1>3, LoadRequest
<1>5. clientCalls' \in [Slots -> ClientsPage!Call \cup {Free}]
  <2>1. \A t \in Slots : clientCalls'[t] \in ClientsPage!Call \cup {Free}
    BY <1>4
  <2>2. \E f : clientCalls' = [t \in Slots |-> f[t]]
    <3>1. clientCalls' = [t \in Slots |-> clientCalls'[t]]
      BY DEF ClientsPage!Remount
    <3> QED
      BY <3>1
  <2> QED
    BY <2>1, <2>2
<1>6. waiting' \subseteq ClientsPage!Held /\ \A hold \in waiting' : hold.op \in asked
  BY <1>1 DEF ClientsInv, ClientsPage!TypeOK, ClientsKnown, ClientsPage!Held
<1>7. ClientsPage!TypeOK'
  <2>1. rows' \in [Clients -> ClientsPage!Kinds]
    BY <1>1 DEF ClientsPage!Kinds
  <2> QED
    BY <1>1, <1>5, <1>6, <2>1 DEF ClientsInv, ClientsPage!TypeOK
<1>8. ClientsKnown'
  BY <1>1, <1>6 DEF ClientsInv, ClientsKnown, Absent, ClientsPage!Registered
<1>9. CallsKnown'
  BY <1>1, <1>4 DEF ClientsInv, CallsKnown, Absent, Runs, OpOf, ClientsPage!Registered
<1>10. \A t \in Slots : Issuer(t)' =>
           /\ Issuer(t) /\ clientCalls'[t].type = clientCalls[t].type
           /\ clientCalls'[t].client = clientCalls[t].client
           /\ clientCalls'[t].answered = clientCalls[t].answered
           /\ clientCalls'[t].secret = clientCalls[t].secret
  BY <1>4 DEF Issuer, Issues
<1>11. CallsIssue'
  BY <1>1, <1>10 DEF ClientsInv, CallsIssue, IssuedIsCurrent, CreatedIsNotShown, IssuersBlur
<1>12. ClientsPage!ShownSecretWorks'
  BY <1>1 DEF ClientsPage!ShownSecretWorks
<1> QED
  BY <1>7, <1>8, <1>9, <1>11, <1>12 DEF ClientsInv

\* What the server does for a request: the kinds and secrets that change are those
\* of its client, and a client that was known stays known.
ServerStep(s, c, call) ==
    /\ s \in Slots /\ c \in Clients \cup {None}
    /\ clientCalls[s] # Free /\ ~clientCalls[s].answered
    /\ call \in ClientsPage!Call /\ call.type = clientCalls[s].type /\ call.client = c /\ call.answered
    /\ clientCalls' = [clientCalls EXCEPT ![s] = call]
    /\ \A x \in Clients : call.listing[x] \in ClientsPage!Registered => ~Absent(x)
    /\ \A x \in Clients : ~Absent(x) => kind'[x] # "absent"
    /\ \A x \in Clients \ {c} : secret'[x] = secret[x]
    /\ IF Issues(call) THEN c \in Clients /\ call.secret = secret'[c] /\ kind'[c] # "absent"
                       ELSE secret' = secret
    /\ IF call.type = "create" THEN Absent(c) ELSE c = clientCalls[s].client

LEMMA ClientsServed ==
  ASSUME ClientsPage!ClientsAssumption, ClientsInv,
         NEW s, NEW c, NEW call, ServerStep(s, c, call),
         kind' \in [Clients -> ClientsPage!Kinds], secret' \in [Clients -> Nat], issued' \in Nat,
         UNCHANGED <<rows, clientsLoading, clientsError, clientsResolved, editor, pendingAction, details,
                     waiting, asked, ops, blurred>>
  PROVE  ClientsInv'
<1> USE DEF ServerStep
<1>1. clientCalls'[s] = call /\ \A t \in Slots \ {s} : clientCalls'[t] = clientCalls[t]
  BY ClientsSlot DEF ClientsInv
<1>2. ClientsPage!TypeOK'
  <2>1. clientCalls' \in [Slots -> ClientsPage!Call \cup {Free}]
    BY ClientsSlot DEF ClientsInv
  <2> QED
    BY <2>1 DEF ClientsInv, ClientsPage!TypeOK
<1>3. \A x \in Clients : ~Absent(x) => ~Absent(x)'
  BY DEF Absent
<1>4. ClientsKnown'
  <2>1. /\ editor # None => editor.client \in Clients \cup {None}
        /\ pendingAction # None => pendingAction.client \in Clients
        /\ details # None => details.client \in Clients
        /\ \A op \in asked : op.client \in Clients
    BY DEF ClientsInv, ClientsPage!TypeOK, ClientsPage!Editing, ClientsPage!Op
  <2>2. /\ editor' # None /\ editor'.client # None => kind'[editor'.client] # "absent"
        /\ pendingAction' # None => kind'[pendingAction'.client] # "absent"
        /\ details' # None => kind'[details'.client] # "absent"
        /\ \A op \in asked' : kind'[op.client] # "absent"
    BY <2>1 DEF ClientsInv, ClientsKnown
  <2>3. \A x \in Clients : rows'[x] \in ClientsPage!Registered => kind'[x] # "absent"
    BY DEF ClientsInv, ClientsKnown
  <2> QED
    BY <2>2, <2>3 DEF ClientsInv, ClientsKnown, Absent
<1>5. \A x \in Clients : call.listing[x] \in ClientsPage!Registered => kind'[x] # "absent"
  OBVIOUS
<1>6. CallsKnown'
  <2>1. ASSUME NEW t \in Slots, t # s, clientCalls[t] # Free
        PROVE  /\ Runs(clientCalls[t]) => OpOf(clientCalls[t]) \in asked'
               /\ clientCalls[t].type = "create" =>
                      IF clientCalls[t].answered
                      THEN clientCalls[t].client \in Clients /\ kind'[clientCalls[t].client] # "absent"
                      ELSE clientCalls[t].client = None
               /\ \A x \in Clients : clientCalls[t].listing[x] \in ClientsPage!Registered
                                         => kind'[x] # "absent"
    BY <2>1 DEF ClientsInv, CallsKnown
  <2>2. Runs(call) => OpOf(call) \in asked'
    <3>1. Runs(call) => Runs(clientCalls[s]) /\ OpOf(call) = OpOf(clientCalls[s])
      BY DEF Runs, OpOf
    <3> QED
      BY <3>1 DEF ClientsInv, CallsKnown
  <2>3. call.type = "create" => c \in Clients /\ kind'[c] # "absent"
    BY DEF Issues
  <2> QED
    BY <1>1, <1>5, <2>1, <2>2, <2>3 DEF CallsKnown, Absent, Runs, OpOf
<1>7. \A t \in Slots \ {s} : Issuer(t) /\ clientCalls[t].client # None =>
          clientCalls[t].client \in Clients /\ ~Absent(clientCalls[t].client)
  <2>1. SUFFICES ASSUME NEW t \in Slots \ {s}, Issuer(t), clientCalls[t].client # None
                 PROVE  clientCalls[t].client \in Clients /\ ~Absent(clientCalls[t].client)
    OBVIOUS
  <2>2. CASE clientCalls[t].type = "create"
    BY <2>1, <2>2 DEF Issuer, ClientsInv, CallsKnown
  <2>3. CASE clientCalls[t].type = "rotate"
    <3>1. OpOf(clientCalls[t]) \in asked
      BY <2>1, <2>3 DEF Issuer, Runs, ClientsInv, CallsKnown
    <3> QED
      BY <3>1 DEF OpOf, ClientsInv, ClientsKnown, ClientsPage!TypeOK, ClientsPage!Op
  <2> QED
    BY <2>1, <2>2, <2>3 DEF Issuer, Issues
<1>8. \A t \in Slots : Issuer(t)' <=> Issuer(t)
  BY <1>1 DEF Issuer, Issues, ClientsPage!ClientsAssumption
<1>9. \A t \in Slots \ {s} : Issuer(t) /\ Issuer(s) /\ clientCalls[t].client = c /\ c # None => c \in blurred
  <2>1. SUFFICES ASSUME NEW t \in Slots \ {s}, Issuer(t), Issuer(s), clientCalls[t].client = c, c # None
                 PROVE  c \in blurred
    OBVIOUS
  <2>2. c = clientCalls[s].client
    BY <1>7, <2>1
  <2> QED
    BY <2>1, <2>2 DEF ClientsInv, CallsIssue, IssuersBlur
<1>10. IssuersBlur'
  BY <1>1, <1>8, <1>9 DEF ClientsInv, CallsIssue, IssuersBlur
<1>11. IssuedIsCurrent'
  <2>1. SUFFICES ASSUME NEW t \in Slots, Issuer(t), clientCalls'[t].answered,
                        clientCalls'[t].client \notin blurred
                 PROVE  clientCalls'[t].secret = secret'[clientCalls'[t].client]
    BY <1>8 DEF IssuedIsCurrent
  <2>2. CASE t = s
    BY <1>1, <2>1, <2>2 DEF Issuer, Issues
  <2>3. CASE t # s
    <3>1. clientCalls'[t] = clientCalls[t] /\ clientCalls[t].secret = secret[clientCalls[t].client]
      BY <1>1, <2>1, <2>3 DEF ClientsInv, CallsIssue, IssuedIsCurrent
    <3>2. secret'[clientCalls[t].client] = secret[clientCalls[t].client]
      <4>1. clientCalls[t].client \in Clients
        <5>1. CASE clientCalls[t].type = "create"
          BY <2>1, <3>1, <5>1 DEF Issuer, ClientsInv, CallsKnown
        <5>2. CASE clientCalls[t].type = "rotate"
          <6>1. OpOf(clientCalls[t]) \in asked
            BY <2>1, <5>2 DEF Issuer, Runs, ClientsInv, CallsKnown
          <6> QED
            BY <6>1 DEF OpOf, ClientsInv, ClientsPage!TypeOK, ClientsPage!Op
        <5> QED
          BY <2>1, <5>1, <5>2 DEF Issuer, Issues
      <4>2. CASE Issuer(s)
        BY <1>9, <2>1, <2>3, <3>1, <4>1, <4>2 DEF ClientsPage!ClientsAssumption
      <4>3. CASE ~Issuer(s)
        BY <4>3 DEF Issuer, Issues
      <4> QED
        BY <4>2, <4>3
    <3> QED
      BY <3>1, <3>2
  <2> QED
    BY <2>2, <2>3
<1>12. CreatedIsNotShown'
  <2>1. SUFFICES ASSUME NEW t \in Slots, Issuer(t), clientCalls'[t].type = "create",
                        clientCalls'[t].answered, details # None,
                        details.client = clientCalls'[t].client
                 PROVE  clientCalls'[t].client \in blurred
    BY <1>8 DEF CreatedIsNotShown
  <2>2. t # s
    <3>1. ~Absent(details.client)
      BY <2>1 DEF ClientsInv, ClientsKnown
    <3> QED
      BY <1>1, <2>1, <3>1
  <2> QED
    BY <1>1, <2>1, <2>2 DEF ClientsInv, CallsIssue, CreatedIsNotShown
<1>13. ClientsPage!ShownSecretWorks'
  <2>1. SUFFICES ASSUME details # None, details.client \notin blurred,
                        ~\E t \in ClientsPage!Issuing' : clientCalls'[t].client = details.client
                 PROVE  details.secret = secret'[details.client]
    BY DEF ClientsPage!ShownSecretWorks
  <2>2. details.client \in Clients /\ ~Absent(details.client) /\ details.client # None
    BY <2>1, DetailsType DEF ClientsInv, ClientsKnown, ClientsPage!ClientsAssumption
  <2>3. ClientsPage!Issuing' = ClientsPage!Issuing
    BY <1>1 DEF ClientsPage!Issuing, ClientsPage!InFlight, ClientsPage!ClientsAssumption
  <2>4. ~\E t \in ClientsPage!Issuing : clientCalls[t].client = details.client
    <3>1. SUFFICES ASSUME NEW t \in ClientsPage!Issuing, clientCalls[t].client = details.client
                   PROVE  FALSE
      OBVIOUS
    <3>2. t = s
      BY <1>1, <2>1, <2>3, <3>1, IssuingIs
    <3>3. Issuer(s)
      BY <3>1, <3>2, IssuingIs
    <3>4. call.type # "create"
      BY <2>2, <3>1, <3>2, <3>3 DEF ClientsInv, CallsKnown, Issuer
    <3> QED
      BY <1>1, <2>1, <2>3, <3>1, <3>2, <3>4
  <2>5. details.secret = secret[details.client]
    BY <2>1, <2>4 DEF ClientsInv, ClientsPage!ShownSecretWorks
  <2>6. secret'[details.client] = secret[details.client]
    <3>1. CASE Issues(call)
      <4>1. s \in ClientsPage!Issuing
        BY <3>1, IssuingIs DEF Issuer, Issues
      <4>2. c # details.client
        BY <1>1, <2>1, <2>3, <4>1
      <4> QED
        BY <2>2, <4>2
    <3>2. CASE ~Issues(call)
      BY <3>2
    <3> QED
      BY <3>1, <3>2
  <2> QED
    BY <2>5, <2>6
<1> QED
  BY <1>2, <1>4, <1>6, <1>10, <1>11, <1>12, <1>13 DEF ClientsInv, CallsIssue

LEMMA ClientsServer ==
  ASSUME ClientsPage!ClientsAssumption, ClientsInv, NEW s \in Slots, ClientsPage!Answer(s)
  PROVE  ClientsInv'
<1> USE DEF ClientsPage!server, ClientsPage!table, ClientsPage!history, ClientsPage!dialogs
<1> DEFINE old == clientCalls[s]
           c == old.client
<1>1. /\ s \in Slots /\ old # Free /\ ~old.answered /\ old \in ClientsPage!Call
      /\ UNCHANGED <<rows, clientsLoading, clientsError, clientsResolved, editor, pendingAction, details,
                     waiting, asked, ops, blurred>>
  BY DEF ClientsPage!Answer, ClientsPage!Busy, ClientsInv, ClientsPage!TypeOK
<1>2. /\ kind \in [Clients -> ClientsPage!Kinds] /\ secret \in [Clients -> Nat] /\ issued \in Nat
      /\ c \in Clients \cup {None} /\ None \notin Clients
      /\ ClientsPage!NoListing \in [Clients -> ClientsPage!Kinds]
      /\ \A x \in Clients : ClientsPage!NoListing[x] \notin ClientsPage!Registered
  BY <1>1 DEF ClientsInv, ClientsPage!TypeOK, ClientsPage!Call, ClientsPage!ClientsAssumption,
              ClientsPage!NoListing, ClientsPage!Kinds, ClientsPage!Registered
<1>3. Runs(old) => c \in Clients
  <2>1. Runs(old) => OpOf(old) \in asked
    BY <1>1 DEF ClientsInv, CallsKnown
  <2> QED
    BY <2>1 DEF OpOf, ClientsInv, ClientsPage!TypeOK, ClientsPage!Op
<1>4. ASSUME NEW x \in Clients \cup {None}, NEW l \in [Clients -> ClientsPage!Kinds], NEW n \in Nat
      PROVE  LET a == ClientsPage!Answered(old, x, l, n)
             IN  /\ a \in ClientsPage!Call /\ a.type = old.type /\ a.client = x /\ a.answered
                 /\ a.listing = l /\ a.secret = n
  BY <1>1 DEF ClientsPage!Answered, ClientsPage!Call
<1> HIDE DEF c
<1>5. CASE /\ old.type = "load" /\ UNCHANGED <<kind, secret, issued>>
           /\ clientCalls' = [clientCalls EXCEPT ![s] = ClientsPage!Answered(old, c, kind, 0)]
  <2> DEFINE a == ClientsPage!Answered(old, c, kind, 0)
  <2>1. a \in ClientsPage!Call /\ a.type = "load" /\ a.client = c /\ a.answered /\ a.listing = kind
    BY <1>2, <1>4, <1>5
  <2> HIDE DEF a
  <2>2. ServerStep(s, c, a)
    BY <1>1, <1>2, <1>5, <2>1 DEF ServerStep, Issues, Absent, ClientsPage!Registered, a, c
  <2> QED
    BY <1>1, <1>2, <1>5, <2>2, ClientsServed
<1>6. CASE /\ old.type = "create"
           /\ \E new \in {x \in Clients : kind[x] = "absent"} :
                  LET issue == old.confidential
                  IN  /\ kind' = [kind EXCEPT ![new] = IF issue THEN "confidential" ELSE "public"]
                      /\ issued' = IF issue THEN issued + 1 ELSE issued
                      /\ secret' = [secret EXCEPT ![new] = IF issue THEN issued' ELSE @]
                      /\ clientCalls' = [clientCalls EXCEPT ![s] =
                             ClientsPage!Answered(old, new, ClientsPage!NoListing, secret'[new])]
  <2>1. PICK new \in Clients :
            /\ kind[new] = "absent"
            /\ kind' = [kind EXCEPT ![new] = IF old.confidential THEN "confidential" ELSE "public"]
            /\ issued' = IF old.confidential THEN issued + 1 ELSE issued
            /\ secret' = [secret EXCEPT ![new] = IF old.confidential THEN issued' ELSE @]
            /\ clientCalls' = [clientCalls EXCEPT ![s] =
                   ClientsPage!Answered(old, new, ClientsPage!NoListing, secret'[new])]
    BY <1>6
  <2>2. issued' \in Nat /\ secret' \in [Clients -> Nat] /\ secret'[new] \in Nat
    BY <1>2, <2>1
  <2>3. kind' \in [Clients -> ClientsPage!Kinds] /\ kind'[new] # "absent"
        /\ \A x \in Clients \ {new} : kind'[x] = kind[x]
    BY <1>2, <2>1 DEF ClientsPage!Kinds
  <2> DEFINE a == ClientsPage!Answered(old, new, ClientsPage!NoListing, secret'[new])
  <2>4. /\ a \in ClientsPage!Call /\ a.type = "create" /\ a.client = new /\ a.answered
        /\ a.listing = ClientsPage!NoListing /\ a.secret = secret'[new]
    BY <1>2, <1>4, <1>6, <2>2
  <2>5. clientCalls' = [clientCalls EXCEPT ![s] = a]
    BY <2>1
  <2> HIDE DEF a
  <2>6. \A x \in Clients \ {new} : secret'[x] = secret[x]
    BY <1>2, <2>1
  <2>7. ServerStep(s, new, a)
    BY <1>1, <1>2, <1>6, <2>1, <2>3, <2>4, <2>5, <2>6 DEF ServerStep, Issues, Absent
  <2> QED
    BY <1>1, <2>2, <2>3, <2>7, ClientsServed
<1>7. CASE /\ old.type \in {"update", "delete"} /\ kind[c] \in ClientsPage!Registered
           /\ \E k \in {"confidential", "public", "deleted"} : kind' = [kind EXCEPT ![c] = k]
           /\ clientCalls' = [clientCalls EXCEPT ![s].answered = TRUE]
           /\ UNCHANGED <<secret, issued>>
  <2> DEFINE a == [old EXCEPT !.answered = TRUE]
  <2>1. /\ a \in ClientsPage!Call /\ a.type = old.type /\ a.client = c /\ a.answered
        /\ a.listing = old.listing
    BY <1>1 DEF ClientsPage!Call, c
  <2>2. clientCalls' = [clientCalls EXCEPT ![s] = a]
    BY <1>7
  <2> HIDE DEF a
  <2>3. \A x \in Clients : a.listing[x] \in ClientsPage!Registered => ~Absent(x)
    BY <1>1, <2>1 DEF ClientsInv, CallsKnown
  <2>4. c \in Clients
    BY <1>3, <1>7 DEF Runs
  <2>5. kind' \in [Clients -> ClientsPage!Kinds] /\ \A x \in Clients : ~Absent(x) => kind'[x] # "absent"
    BY <1>2, <1>7, <2>4 DEF ClientsPage!Kinds, Absent
  <2>6. ServerStep(s, c, a)
    BY <1>1, <1>2, <1>7, <2>1, <2>2, <2>3, <2>5 DEF ServerStep, Issues, c
  <2> QED
    BY <1>1, <1>2, <1>7, <2>5, <2>6, ClientsServed
<1>8. CASE /\ old.type = "rotate" /\ kind[c] = "confidential" /\ issued' = issued + 1
           /\ secret' = [secret EXCEPT ![c] = issued']
           /\ clientCalls' = [clientCalls EXCEPT ![s] =
                  ClientsPage!Answered(old, c, ClientsPage!NoListing, issued')]
           /\ UNCHANGED kind
  <2>1. c \in Clients
    BY <1>3, <1>8 DEF Runs
  <2>2. issued' \in Nat /\ secret' \in [Clients -> Nat] /\ secret'[c] = issued'
        /\ \A x \in Clients \ {c} : secret'[x] = secret[x]
    BY <1>2, <1>8, <2>1
  <2> DEFINE a == ClientsPage!Answered(old, c, ClientsPage!NoListing, issued')
  <2>3. /\ a \in ClientsPage!Call /\ a.type = "rotate" /\ a.client = c /\ a.answered
        /\ a.listing = ClientsPage!NoListing /\ a.secret = issued'
    BY <1>2, <1>4, <1>8, <2>2
  <2>4. clientCalls' = [clientCalls EXCEPT ![s] = a]
    BY <1>8
  <2> HIDE DEF a
  <2>5. ServerStep(s, c, a)
    BY <1>1, <1>2, <1>8, <2>1, <2>2, <2>3, <2>4 DEF ServerStep, Issues, Absent, c
  <2> QED
    BY <1>1, <1>2, <1>8, <2>2, <2>5, ClientsServed
<1> QED
  BY <1>5, <1>6, <1>7, <1>8 DEF ClientsPage!Answer, c

LEMMA ClientsStepInv ==
  ASSUME ClientsPage!ClientsAssumption, ClientsInv, ClientsPage!Next
  PROVE  ClientsInv'
<1> QED
  BY ClientsAsks, ClientsAnswered, ClientsSubmits, ClientsConfirms, ClientsLeaves, ClientsServer
     DEF ClientsPage!Next

-----------------------------------------------------------------------------
(* The pages together *)

\* The inductive invariant.
IInv ==
    /\ section \in Sections
    /\ ClientsInv
    /\ ConsentsInv
    /\ AuditInv
    /\ SiteInv
    /\ StatusInv

\* What a section keeps while another is shown.
LEMMA ClientsKept ==
  ASSUME ClientsInv, UNCHANGED clientVars
  PROVE  ClientsInv'
<1> USE DEF clientVars
<1>1. ClientsPage!TypeOK'
  BY DEF ClientsInv, ClientsPage!TypeOK
<1>2. ClientsKnown'
  BY DEF ClientsInv, ClientsKnown, Absent
<1> QED
  BY <1>1, <1>2, ClientsDialogs DEF ClientsInv

LEMMA ConsentsKept ==
  ASSUME ConsentsInv, UNCHANGED consentVars
  PROVE  ConsentsInv'
<1>1. Consents!InFlight' = Consents!InFlight
  BY DEF consentVars, Consents!InFlight
<1>2. ConsentsRead'
  BY <1>1 DEF consentVars, ConsentsInv, ConsentsRead
<1> QED
  BY <1>2 DEF consentVars, ConsentsInv, Consents!TypeOK, ConsentsNamed

LEMMA AuditKept ==
  ASSUME AuditInv, UNCHANGED auditVars
  PROVE  AuditInv'
<1>1. Audit!InFlight' = Audit!InFlight
  BY DEF auditVars, Audit!InFlight
<1>2. AuditAsked'
  BY <1>1 DEF auditVars, AuditInv, AuditAsked
<1>3. Audit!PageIsOfShown' /\ AuditAnswered'
  BY PageKept, AnswersKept DEF auditVars, AuditInv
<1> QED
  BY <1>2, <1>3 DEF auditVars, AuditInv, Audit!TypeOK, AuditFiltered

LEMMA SiteUnchanged ==
  ASSUME SiteInv, UNCHANGED siteVars
  PROVE  SiteInv'
<1>1. Site!Mine' = Site!Mine /\ Site!Sent' = Site!Sent
  BY SiteSame DEF siteVars
<1>2. SiteSent' /\ SiteKept' /\ SiteHeld' /\ Site!OnlyReadIsSaved'
  BY <1>1 DEF siteVars, SiteInv, SiteSent, SiteKept, SiteHeld, Site!OnlyReadIsSaved
<1> QED
  BY <1>2 DEF siteVars, SiteInv, Site!TypeOK, SiteLoaded

LEMMA StatusKept ==
  ASSUME StatusInv, UNCHANGED statusVars
  PROVE  StatusInv'
<1> USE DEF statusVars
<1>1. Status!InFlight' = Status!InFlight
  BY DEF Status!InFlight
<1>2. \A r \in Status!Reads : Status!ServerAnswer(r)' = Status!ServerAnswer(r)
  BY DEF Status!ServerAnswer
<1>3. Status!StatusIsCurrent => Status!StatusIsCurrent'
  BY <1>1, <1>2 DEF Status!StatusIsCurrent, Status!hasHealthIssue
<1>4. StatusRead'
  BY <1>1, <1>2, <1>3 DEF StatusInv, StatusRead
<1> QED
  BY <1>1, <1>4 DEF StatusInv, Status!TypeOK, Status!LoadingIsAwaited

LEMMA InitInv == Init => IInv
<1> QED
  BY ManagementAssumption, ClientsInit, ConsentsInit, AuditInit, SiteInit, StatusInit DEF Init, IInv

LEMMA StepInv == IInv /\ [Next]_vars => IInv'
<1> SUFFICES ASSUME IInv, [Next]_vars PROVE IInv'
  OBVIOUS
<1> USE ManagementAssumption DEF IInv
<1>1. CASE ClientsStep
  BY <1>1, ClientsStepInv, ConsentsKept, AuditKept, SiteUnchanged, StatusKept DEF ClientsStep
<1>2. CASE UsersStep
  BY <1>2, ConsentsStepInv, ClientsKept, AuditKept, SiteUnchanged, StatusKept DEF UsersStep
<1>3. CASE AuditStep
  BY <1>3, AuditStepInv, ClientsKept, ConsentsKept, SiteUnchanged, StatusKept DEF AuditStep
<1>4. CASE SiteStep
  BY <1>4, SiteStepInv, ClientsKept, ConsentsKept, AuditKept, StatusKept DEF SiteStep
<1>5. CASE StatusStep
  BY <1>5, StatusStepInv, ClientsKept, ConsentsKept, AuditKept, SiteUnchanged DEF StatusStep
<1>6. CASE UNCHANGED vars
  BY <1>6, ClientsKept, ConsentsKept, AuditKept, SiteUnchanged, StatusKept DEF vars
<1> QED
  BY <1>1, <1>2, <1>3, <1>4, <1>5, <1>6 DEF Next

\* The inductive invariant holds, whatever the sections do and however they are left.
THEOREM Invariance == Spec => []IInv
<1> QED
  BY InitInv, StepInv, PTL DEF Spec

\* Every variable of every section has its type.
THEOREM TypeCorrect == Spec => []TypeOK
<1>1. IInv => TypeOK
  BY DEF IInv, TypeOK, ClientsInv, ConsentsInv, AuditInv, SiteInv, StatusInv
<1> QED
  BY Invariance, <1>1, PTL

\* ClientSecretModal shows the secret that works, for the client it names.
THEOREM ShowsWorkingSecret == Spec => []ShownSecretWorks
<1>1. IInv => ShownSecretWorks
  BY DEF IInv, ShownSecretWorks, ClientsInv
<1> QED
  BY Invariance, <1>1, PTL

\* UserConsentsModal lists the consents of the account it names.
THEOREM ListsOwnConsents == Spec => []ListIsCurrent
<1>1. IInv => ListIsCurrent
  BY DEF IInv, ListIsCurrent, Consents!ListIsCurrent, ConsentsInv, ConsentsRead
<1> QED
  BY Invariance, <1>1, PTL

\* useAuditLogs sets the page number and the total with the entries they belong to.
THEOREM NumbersItsPage == Spec => []PageIsOfShown
<1>1. IInv => PageIsOfShown
  BY DEF IInv, PageIsOfShown, AuditInv
<1> QED
  BY Invariance, <1>1, PTL

\* useAuditLogs shows what the filters ask for.
THEOREM ShowsWhatIsFiltered == Spec => []ShownMatchesFilter
<1>1. IInv => ShownMatchesFilter
  BY DEF IInv, ShownMatchesFilter, Audit!ShownMatchesFilter, AuditInv, AuditAsked
<1> QED
  BY Invariance, <1>1, PTL

\* SiteSettingsTab says "All changes saved" in every visit only of settings that the
\* server held since the form read them, and of those that it holds when nothing was
\* stored meanwhile but saves of the form that neither failed nor overlapped.
THEOREM SaysSavedWhenStored == Spec => []SavedIsStored
<1>1. IInv => SavedIsStored
  BY SiteSaved DEF IInv, SavedIsStored
<1> QED
  BY Invariance, <1>1, PTL

\* SiteSettingsTab sends no settings that it did not read.
THEOREM SavesWhatWasRead == Spec => []OnlyReadIsSaved
<1>1. IInv => OnlyReadIsSaved
  BY DEF IInv, OnlyReadIsSaved, SiteInv
<1> QED
  BY Invariance, <1>1, PTL

\* useSystemStatus shows each read's own outcome.
THEOREM ShowsCurrentStatus == Spec => []StatusIsCurrent
<1>1. IInv => StatusIsCurrent
  BY DEF IInv, StatusIsCurrent, Status!StatusIsCurrent, StatusInv, StatusRead
<1> QED
  BY Invariance, <1>1, PTL

\* useSystemStatus loads only as long as something is awaited.
THEOREM LoadsWhileAwaiting == Spec => []LoadingIsAwaited
<1>1. IInv => LoadingIsAwaited
  BY DEF IInv, LoadingIsAwaited, StatusInv
<1> QED
  BY Invariance, <1>1, PTL

\* A step of the clients page changes the server's clients by an answer only.
LEMMA ServerChangesByAnswer ==
  ASSUME [Next]_vars
  PROVE  UNCHANGED <<kind, secret>> \/ \E s \in Slots : ClientsPage!Answer(s)
<1> USE DEF ClientsPage!server
<1>1. CASE ~ClientsStep
  BY <1>1 DEF Next, UsersStep, AuditStep, SiteStep, StatusStep, vars, clientVars
<1>2. CASE ClientsStep
  <2>1. ClientsPage!Next
    BY <1>2 DEF ClientsStep
  <2>2. ASSUME NEW s \in Slots,
               \/ ClientsPage!Reload(s) \/ ClientsPage!LoadSucceeds(s) \/ ClientsPage!LoadFails(s)
               \/ ClientsPage!SubmitEditor(s) \/ ClientsPage!Confirm(s) \/ ClientsPage!EditorSucceeds(s)
               \/ ClientsPage!DeleteSucceeds(s) \/ ClientsPage!RotateSucceeds(s)
               \/ ClientsPage!OperationFails(s) \/ ClientsPage!LeftSucceeds(s) \/ ClientsPage!Remount(s)
        PROVE  UNCHANGED <<kind, secret>>
    BY <2>2 DEF ClientsPage!Reload, ClientsPage!LoadSucceeds, ClientsPage!LoadFails,
                ClientsPage!SubmitEditor, ClientsPage!Confirm, ClientsPage!EditorSucceeds,
                ClientsPage!DeleteSucceeds, ClientsPage!RotateSucceeds,
                ClientsPage!OperationFails, ClientsPage!LeftSucceeds, ClientsPage!Remount
  <2>3. ASSUME \/ \E c \in Clients \cup {None} : ClientsPage!OpenEditor(c)
               \/ \E c \in Clients, type \in {"delete", "rotate"} : ClientsPage!Ask(type, c)
               \/ ClientsPage!ToggleConfidential \/ ClientsPage!CloseEditor
               \/ ClientsPage!CancelAction \/ ClientsPage!CloseSecret
               \/ \E hold \in waiting : \/ ClientsPage!SudoDismissed(hold)
                                        \/ \E s \in Slots : ClientsPage!SudoRuns(hold, s)
        PROVE  UNCHANGED <<kind, secret>>
    BY <2>3 DEF ClientsPage!OpenEditor, ClientsPage!Ask, ClientsPage!ToggleConfidential,
                ClientsPage!CloseEditor, ClientsPage!CancelAction, ClientsPage!CloseSecret,
                ClientsPage!SudoDismissed, ClientsPage!SudoRuns
  <2> QED
    BY <2>1, <2>2, <2>3 DEF ClientsPage!Next
<1> QED
  BY <1>1, <1>2

\* handleClientFormSubmit and confirmPendingAction change a client as it was asked
\* for, also after its page was left and while Sudo Mode held them.
THEOREM ChangesOnlyWhatWasAsked == Spec => OnlyAskedChanges
<1> DEFINE A == \A c \in Clients :
           kind[c] # "absent" =>
               /\ kind'[c] # kind[c] => [type |-> IF kind'[c] = "deleted" THEN "delete" ELSE "update",
                                        client |-> c] \in asked
               /\ secret'[c] # secret[c] => [type |-> "rotate", client |-> c] \in asked
<1>1. IInv /\ [Next]_vars => A
  <2> SUFFICES ASSUME IInv, [Next]_vars PROVE A
    OBVIOUS
  <2>1. CASE UNCHANGED <<kind, secret>>
    BY <2>1
  <2>2. ASSUME NEW s \in Slots, ClientsPage!Answer(s) PROVE A
    <3> DEFINE old == clientCalls[s]
    <3>1. (Runs(old) => OpOf(old) \in asked)
          /\ kind \in [Clients -> ClientsPage!Kinds] /\ secret \in [Clients -> Nat]
      BY <2>2 DEF ClientsPage!Answer, ClientsPage!Busy, IInv, ClientsInv, CallsKnown, ClientsPage!TypeOK
    <3>2. CASE old.type = "load"
      BY <2>2, <3>2 DEF ClientsPage!Answer, ClientsPage!server
    <3>3. CASE old.type = "create"
      BY <2>2, <3>1, <3>3 DEF ClientsPage!Answer
    <3>4. CASE old.type = "update"
      <4>1. kind' = [kind EXCEPT ![old.client] = IF old.confidential THEN "confidential" ELSE "public"]
            /\ UNCHANGED secret
        BY <2>2, <3>4 DEF ClientsPage!Answer
      <4>2. [type |-> "update", client |-> old.client] \in asked
        <5>1. OpOf(old) = [type |-> "update", client |-> old.client]
          BY <3>4 DEF OpOf
        <5>2. Runs(old)
          BY <3>4 DEF Runs
        <5> HIDE DEF old
        <5> QED
          BY <3>1, <5>1, <5>2
      <4>3. ASSUME NEW c \in Clients, kind'[c] # kind[c]
            PROVE  c = old.client /\ kind'[c] # "deleted"
        <5> HIDE DEF old
        <5> QED
          BY <3>1, <4>1, <4>3
      <4>4. ASSUME NEW c \in Clients, kind'[c] # kind[c]
            PROVE  [type |-> IF kind'[c] = "deleted" THEN "delete" ELSE "update", client |-> c] \in asked
        <5> HIDE DEF old
        <5> QED
          BY <4>2, <4>3, <4>4
      <4> QED
        BY <4>1, <4>4
    <3>5. CASE old.type = "delete"
      <4>1. kind' = [kind EXCEPT ![old.client] = "deleted"] /\ UNCHANGED secret
        BY <2>2, <3>5 DEF ClientsPage!Answer
      <4>2. [type |-> "delete", client |-> old.client] \in asked
        <5>1. OpOf(old) = [type |-> "delete", client |-> old.client]
          BY <3>5 DEF OpOf
        <5>2. Runs(old)
          BY <3>5 DEF Runs
        <5> HIDE DEF old
        <5> QED
          BY <3>1, <5>1, <5>2
      <4>3. ASSUME NEW c \in Clients, kind'[c] # kind[c]
            PROVE  c = old.client /\ kind'[c] = "deleted"
        <5> HIDE DEF old
        <5> QED
          BY <3>1, <4>1, <4>3
      <4>4. ASSUME NEW c \in Clients, kind'[c] # kind[c]
            PROVE  [type |-> IF kind'[c] = "deleted" THEN "delete" ELSE "update", client |-> c] \in asked
        <5> HIDE DEF old
        <5> QED
          BY <4>2, <4>3, <4>4
      <4> QED
        BY <4>1, <4>4
    <3>6. CASE old.type = "rotate"
      <4>1. secret' = [secret EXCEPT ![old.client] = issued'] /\ UNCHANGED kind
        BY <2>2, <3>6 DEF ClientsPage!Answer
      <4>2. [type |-> "rotate", client |-> old.client] \in asked
        <5>1. OpOf(old) = [type |-> "rotate", client |-> old.client]
          BY <3>6 DEF OpOf
        <5>2. Runs(old)
          BY <3>6 DEF Runs
        <5> HIDE DEF old
        <5> QED
          BY <3>1, <5>1, <5>2
      <4>3. ASSUME NEW c \in Clients, secret'[c] # secret[c]
            PROVE  [type |-> "rotate", client |-> c] \in asked
        <5> HIDE DEF old
        <5> QED
          BY <3>1, <4>1, <4>2, <4>3
      <4> QED
        BY <4>1, <4>3
    <3> QED
      BY <2>2, <3>2, <3>3, <3>4, <3>5, <3>6 DEF ClientsPage!Answer
  <2> QED
    BY <2>1, <2>2, ServerChangesByAnswer
<1>2. IInv /\ [Next]_vars => [A]_ClientsPage!vars
  BY <1>1
<1> QED
  BY Invariance, <1>2, PTL DEF Spec, OnlyAskedChanges, ClientsPage!OnlyAskedChanges

=============================================================================
