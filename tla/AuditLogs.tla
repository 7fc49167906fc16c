----------------------------- MODULE AuditLogs -----------------------------
(***************************************************************************)
(* The audit log page: useAuditLogs, which loads one page of the entries   *)
(* that match the filters, and AuditLogsTab.                               *)
(*                                                                         *)
(* Both filters are one value here.  What is typed is used by the next     *)
(* search or page turn.  Requests carry the filter of the render they were *)
(* made in, and are not cancelled or numbered.                             *)
(***************************************************************************)
EXTENDS Naturals, FiniteSets

CONSTANTS
    Filters,    \* what may be typed
    NoFilter,   \* emptyFilters
    PageSize,   \* PAGE_SIZE
    MaxLogs,    \* bound: entries of a filter
    Slots,      \* bound: requests in flight
    Free        \* a slot without a request

Pages == 1..(MaxLogs \div PageSize + 1)
Query == [page : Pages, filter : Filters]
Call == [query : Query, answered : BOOLEAN, logs : 0..PageSize, total : 0..MaxLogs]

LogsAssumption ==
    /\ NoFilter \in Filters
    /\ PageSize \in Nat \ {0}
    /\ MaxLogs \in Nat
    /\ Free \notin Call

VARIABLES
    entries,    \* the server: how many entries match each filter
    filter,     \* eventType, accountId
    logs,       \* how many entries are shown
    total,
    page,
    loading,
    error,
    resolved,   \* hasResolvedInitialLoad
    calls,      \* the request of each slot
    \* history
    shown,      \* the page and filter the entries were asked with
    direct      \* the latest request was made with nothing in flight, and
                \* nothing was typed, translated or failed since

vars == <<entries, filter, logs, total, page, loading, error, resolved, calls, shown, direct>>

NotShown == [page |-> 1, filter |-> NoFilter]
Ask(p, f) == [query |-> [page |-> p, filter |-> f], answered |-> FALSE, logs |-> 0, total |-> 0]
InFlight == {s \in Slots : calls[s] # Free}

TypeOK ==
    /\ entries \in [Filters -> 0..MaxLogs]
    /\ filter \in Filters
    /\ logs \in 0..PageSize
    /\ total \in 0..MaxLogs
    /\ page \in Pages
    /\ {loading, error, resolved, direct} \subseteq BOOLEAN
    /\ calls \in [Slots -> Call \cup {Free}]
    /\ shown \in Query

\* The effect has made the first request.
Init ==
    /\ entries \in {e \in [Filters -> 0..MaxLogs] : \A f \in Filters : e[f] <= e[NoFilter]}
    /\ filter = NoFilter
    /\ logs = 0 /\ total = 0 /\ page = 1
    /\ loading = TRUE
    /\ error = FALSE
    /\ resolved = FALSE
    /\ calls \in {[t \in Slots |-> IF t = s THEN Ask(1, NoFilter) ELSE Free] : s \in Slots}
    /\ shown = NotShown
    /\ direct = TRUE

-----------------------------------------------------------------------------

\* How many of n entries are on page p.
OnPage(n, p) ==
    IF n <= (p - 1) * PageSize THEN 0
    ELSE IF n < p * PageSize THEN n - (p - 1) * PageSize ELSE PageSize

fatalLoadError == error /\ ~resolved
ListShown == (~loading \/ resolved) /\ ~fatalLoadError
EmptyShown == ListShown /\ logs = 0

\* fetchPage, up to its await.
fetchPage(s, p, f) ==
    /\ calls[s] = Free
    /\ calls' = [calls EXCEPT ![s] = Ask(p, f)]
    /\ loading' = TRUE
    /\ error' = FALSE
    /\ direct' = (InFlight = {})

\* The inputs are never disabled.
Type(f) ==
    /\ filter' = f
    /\ direct' = FALSE
    /\ UNCHANGED <<entries, logs, total, page, loading, error, resolved, calls, shown>>

\* The form and the Alert's action.
search(s) ==
    /\ fetchPage(s, 1, filter)
    /\ UNCHANGED <<entries, filter, logs, total, page, resolved, shown>>

\* Faulty variant: the request is made with the filters of the render.
ClearSearchesStale(s) ==
    /\ ~loading \/ EmptyShown
    /\ filter' = NoFilter
    /\ fetchPage(s, 1, filter)
    /\ UNCHANGED <<entries, logs, total, page, resolved, shown>>

\* The Clear button above the table is disabled while loading, the one of the
\* Empty state is not.
clearFilters(s) ==
    /\ ~loading \/ EmptyShown
    /\ filter' = NoFilter
    /\ fetchPage(s, 1, NoFilter)
    /\ UNCHANGED <<entries, logs, total, page, resolved, shown>>

\* Faulty variant: the page is shown before it is answered.
TurnsBeforeAnswer(s, p) ==
    /\ ListShown /\ logs # 0 /\ ~loading
    /\ (p - 1) * PageSize < total
    /\ fetchPage(s, p, filter)
    /\ page' = p
    /\ UNCHANGED <<entries, filter, logs, total, resolved, shown>>

\* Pagination.
goToPage(s, p) ==
    /\ ListShown /\ logs # 0 /\ ~loading
    /\ (p - 1) * PageSize < total
    /\ fetchPage(s, p, filter)
    /\ UNCHANGED <<entries, filter, logs, total, page, resolved, shown>>

\* t changes, so fetchPage does, so its effect runs again.
LanguageChanges(s) ==
    /\ calls[s] = Free
    /\ calls' = [calls EXCEPT ![s] = Ask(1, NoFilter)]
    /\ loading' = TRUE
    /\ error' = FALSE
    /\ direct' = FALSE
    /\ UNCHANGED <<entries, filter, logs, total, page, resolved, shown>>

\* External: the server answers, and records events.
Answered(q) == [query |-> q, answered |-> TRUE, logs |-> OnPage(entries[q.filter], q.page),
                total |-> entries[q.filter]]

Answer(s) ==
    /\ s \in InFlight /\ ~calls[s].answered
    /\ calls' = [calls EXCEPT ![s] = Answered(calls[s].query)]
    /\ UNCHANGED <<entries, filter, logs, total, page, loading, error, resolved, shown, direct>>

Record(f) ==
    /\ entries[NoFilter] < MaxLogs
    /\ entries' = [g \in Filters |-> IF g \in {f, NoFilter} THEN entries[g] + 1 ELSE entries[g]]
    /\ UNCHANGED <<filter, logs, total, page, loading, error, resolved, calls, shown, direct>>

\* The entries, their number and the page are set together.
FetchSucceeds(s) ==
    /\ s \in InFlight /\ calls[s].answered
    /\ logs' = calls[s].logs
    /\ total' = calls[s].total
    /\ page' = calls[s].query.page
    /\ shown' = calls[s].query
    /\ loading' = FALSE
    /\ resolved' = (resolved \/ ~error)
    /\ calls' = [calls EXCEPT ![s] = Free]
    /\ UNCHANGED <<entries, filter, error, direct>>

FetchFails(s) ==
    /\ s \in InFlight
    /\ loading' = FALSE
    /\ error' = TRUE
    /\ direct' = FALSE
    /\ calls' = [calls EXCEPT ![s] = Free]
    /\ UNCHANGED <<entries, filter, logs, total, page, resolved, shown>>

\* The section is left, and makes its first request when it is entered again.
Remount(s) ==
    /\ filter' = NoFilter
    /\ logs' = 0 /\ total' = 0 /\ page' = 1
    /\ loading' = TRUE
    /\ error' = FALSE
    /\ resolved' = FALSE
    /\ calls' = [t \in Slots |-> IF t = s THEN Ask(1, NoFilter) ELSE Free]
    /\ shown' = NotShown
    /\ direct' = TRUE
    /\ UNCHANGED entries

Next ==
    \/ \E f \in Filters : Type(f) \/ Record(f)
    \/ \E s \in Slots :
           \/ search(s) \/ clearFilters(s) \/ LanguageChanges(s)
           \/ \E p \in Pages : goToPage(s, p)
           \/ Answer(s) \/ FetchSucceeds(s) \/ FetchFails(s) \/ Remount(s)

Spec == Init /\ [][Next]_vars

-----------------------------------------------------------------------------

\* The page number and the total under the table are those of the entries in it:
\* as many as a page of that number has of that total, however searches, page
\* turns, new entries and late answers overlap.
PageIsOfShown ==
    /\ page = shown.page
    /\ logs = OnPage(total, page)

\* Entries are those the inputs ask for, unless requests overlapped or failed,
\* the language changed, or something was typed that was not searched for.
ShownMatchesFilter == direct /\ InFlight = {} => shown.filter = filter

=============================================================================
