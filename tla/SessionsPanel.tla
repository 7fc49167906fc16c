--------------------------- MODULE SessionsPanel ---------------------------
(***************************************************************************)
(* Listing the account's sessions and ending one of the others:            *)
(* SessionsPanel over the external hook useSessions.                       *)
(***************************************************************************)
EXTENDS FiniteSets

CONSTANTS
    Sessions,
    Current,     \* the session of this browser
    NoSession,
    Slots,       \* bound: operations in flight
    Free         \* a slot without an operation

\* An operation is left when its panel was unmounted.
Task == [kind : {"load", "revoke"}, id : Sessions \cup {NoSession}, done : BOOLEAN, left : BOOLEAN]

SessionsAssumption ==
    /\ Current \in Sessions
    /\ NoSession \notin Sessions
    /\ Free \notin Task

VARIABLES
    active,          \* the server's sessions of the account
    sessions, loading, error,   \* of the hook
    resolved,        \* hasResolvedInitialLoad
    pendingSessionId,
    signedOut,       \* logout has left the application
    tasks,           \* the operation of each slot
    \* history
    known            \* the sessions were read since the panel was mounted

vars == <<active, sessions, loading, error, resolved, pendingSessionId, signedOut, tasks,
          known>>

New(kind, id) == [kind |-> kind, id |-> id, done |-> FALSE, left |-> FALSE]
Used == {s \in Slots : tasks[s] # Free}
Mine == {s \in Used : ~tasks[s].left}

TypeOK ==
    /\ {active, sessions} \subseteq SUBSET Sessions
    /\ {loading, error, resolved, signedOut, known} \subseteq BOOLEAN
    /\ pendingSessionId \in Sessions \cup {NoSession}
    /\ tasks \in [Slots -> Task \cup {Free}]

\* The hook has started to read the sessions.
Init ==
    /\ active \in {A \in SUBSET Sessions : Current \in A}
    /\ sessions = {} /\ loading = TRUE /\ error = FALSE
    /\ resolved = FALSE
    /\ pendingSessionId = NoSession
    /\ signedOut = FALSE
    /\ tasks \in {[t \in Slots |-> IF t = s THEN New("load", NoSession) ELSE Free] : s \in Slots}
    /\ known = FALSE

-----------------------------------------------------------------------------

fatalLoadError == error /\ ~resolved
ContentShown == ~(loading /\ ~resolved) /\ ~fatalLoadError

\* External: an operation of the hook begins or ends, and the effect on loading and error.
Begin == loading' = TRUE /\ error' = FALSE /\ UNCHANGED resolved
End(failed) == loading' = FALSE /\ error' = failed /\ resolved' = (resolved \/ ~failed)

reload(s) ==
    /\ fatalLoadError /\ ~loading /\ ~signedOut
    /\ tasks[s] = Free
    /\ tasks' = [tasks EXCEPT ![s] = New("load", NoSession)]
    /\ Begin
    /\ UNCHANGED <<active, sessions, pendingSessionId, signedOut, known>>

\* The row of the current session signs out; the others ask first.
SignOut ==
    /\ ContentShown /\ ~loading /\ ~signedOut /\ pendingSessionId = NoSession
    /\ Current \in sessions
    /\ signedOut' = TRUE
    /\ active' = active \ {Current}
    /\ UNCHANGED <<sessions, loading, error, resolved, pendingSessionId, tasks, known>>

AskRevocation(i) ==
    /\ ContentShown /\ ~loading /\ ~signedOut /\ pendingSessionId = NoSession
    /\ i \in sessions \ {Current}
    /\ pendingSessionId' = i
    /\ UNCHANGED <<active, sessions, loading, error, resolved, signedOut, tasks, known>>

CancelRevocation ==
    /\ pendingSessionId # NoSession
    /\ pendingSessionId' = NoSession
    /\ UNCHANGED <<active, sessions, loading, error, resolved, signedOut, tasks, known>>

handleRevokeSession(s) ==
    /\ pendingSessionId # NoSession
    /\ tasks[s] = Free
    /\ pendingSessionId' = NoSession
    /\ tasks' = [tasks EXCEPT ![s] = New("revoke", pendingSessionId)]
    /\ Begin
    /\ UNCHANGED <<active, sessions, signedOut, known>>

\* External: the server carries an operation out; another browser signs in.
Serve(s) ==
    /\ s \in Used /\ ~tasks[s].done
    /\ active' = active \ {tasks[s].id}
    /\ tasks' = [tasks EXCEPT ![s].done = TRUE]
    /\ UNCHANGED <<sessions, loading, error, resolved, pendingSessionId, signedOut, known>>

SignInElsewhere(i) ==
    /\ i \notin active \cup {Current}
    /\ active' = active \cup {i}
    /\ UNCHANGED <<sessions, loading, error, resolved, pendingSessionId, signedOut, tasks, known>>

\* The awaits return; an operation that was left finds nothing to update.
Succeed(s) ==
    /\ s \in Used /\ tasks[s].done
    /\ tasks' = [tasks EXCEPT ![s] = Free]
    /\ IF s \in Mine
       THEN sessions' = active /\ known' = TRUE /\ End(FALSE)
       ELSE UNCHANGED <<sessions, known, loading, error, resolved>>
    /\ UNCHANGED <<active, pendingSessionId, signedOut>>

Fail(s) ==
    /\ s \in Used
    /\ tasks' = [tasks EXCEPT ![s] = Free]
    /\ IF s \in Mine THEN End(TRUE) ELSE UNCHANGED <<loading, error, resolved>>
    /\ UNCHANGED <<active, sessions, pendingSessionId, signedOut, known>>

\* The tab is left, and reads the sessions again when it is entered.
Remount(s) ==
    /\ tasks[s] = Free /\ ~signedOut
    /\ sessions' = {} /\ loading' = TRUE /\ error' = FALSE
    /\ resolved' = FALSE /\ known' = FALSE
    /\ pendingSessionId' = NoSession
    /\ tasks' = [t \in Slots |->
                    IF t = s THEN New("load", NoSession)
                    ELSE IF t \in Used THEN [tasks[t] EXCEPT !.left = TRUE] ELSE Free]
    /\ UNCHANGED <<active, signedOut>>

Next ==
    \/ \E s \in Slots : reload(s) \/ handleRevokeSession(s) \/ Serve(s) \/ Succeed(s) \/ Fail(s) \/ Remount(s)
    \/ \E i \in Sessions : AskRevocation(i) \/ SignInElsewhere(i)
    \/ SignOut \/ CancelRevocation

Spec == Init /\ [][Next]_vars

-----------------------------------------------------------------------------

\* The sessions, or that there are none, are shown only when they were read.
SessionsAreKnown == ContentShown => known

=============================================================================
