---------------------------- MODULE SystemStatus ----------------------------
(***************************************************************************)
(* The system status page: useSystemStatus, which reads the readiness, the *)
(* OIDC metadata and the security policy at once, and SystemStatusTab.     *)
(*                                                                         *)
(* A refresh waits until each of its reads was answered or failed, and     *)
(* then sets everything.  The effect refreshes when the language changes,  *)
(* so refreshes may overlap although the buttons do not allow it.          *)
(***************************************************************************)
EXTENDS FiniteSets

CONSTANTS
    Readiness,   \* what the readiness probe may answer
    Healthy,     \* the answers with no issue in them
    Deployed,    \* what the other reads answer, which a deployment fixes
    Null,        \* nothing was read
    Unavailable, \* unavailableHealth
    Pending, Failed,
    Slots,       \* bound: refreshes in flight
    Free         \* a slot without a refresh

Reads == {"readiness", "oidc", "policy"}
Answers == Readiness \cup {Deployed}
Refresh == [Reads -> Answers \cup {Pending, Failed}]

StatusAssumption ==
    /\ Healthy \subseteq Readiness
    /\ {Null, Unavailable, Pending, Failed} \cap (Readiness \cup {Deployed}) = {}
    /\ Pending # Failed
    /\ Free \notin Refresh

VARIABLES
    ready,       \* what the server would answer to the readiness probe
    shown,       \* systemHealth, oidcConfig, securityPolicy
    loading,
    refreshes,   \* the outcome of each read of each refresh
    \* history
    failed,      \* reads that failed in the refresh that is shown
    direct       \* refreshes did not overlap, and nothing changed since it was read

vars == <<ready, shown, loading, refreshes, failed, direct>>

Started == [r \in Reads |-> Pending]
InFlight == {s \in Slots : refreshes[s] # Free}

TypeOK ==
    /\ ready \in Readiness
    /\ shown \in [Reads -> Answers \cup {Null, Unavailable}]
    /\ loading \in BOOLEAN
    /\ refreshes \in [Slots -> Refresh \cup {Free}]
    /\ failed \subseteq Reads
    /\ direct \in BOOLEAN

\* The effect has started the first refresh.
Init ==
    /\ ready \in Readiness
    /\ shown = [r \in Reads |-> Null]
    /\ loading = TRUE
    /\ refreshes \in {[t \in Slots |-> IF t = s THEN Started ELSE Free] : s \in Slots}
    /\ failed = {}
    /\ direct = TRUE

-----------------------------------------------------------------------------

ServerAnswer(r) == IF r = "readiness" THEN ready ELSE Deployed

hasHealthIssue == shown["readiness"] \notin Healthy

\* refresh, up to its await.
refresh(s) ==
    /\ refreshes[s] = Free
    /\ refreshes' = [refreshes EXCEPT ![s] = Started]
    /\ loading' = TRUE
    /\ direct' = (InFlight = {})
    /\ UNCHANGED <<ready, shown, failed>>

\* Refresh and Retry.
PressRefresh(s) == ~loading /\ refresh(s)

\* t changes, so refresh does, so its effect runs again.
LanguageChanges(s) == refresh(s)

\* External: a read is answered or fails; the server changes.
Answer(s, r) ==
    /\ s \in InFlight /\ refreshes[s][r] = Pending
    /\ refreshes' = [refreshes EXCEPT ![s][r] = ServerAnswer(r)]
    /\ UNCHANGED <<ready, shown, loading, failed, direct>>

Fail(s, r) ==
    /\ s \in InFlight /\ refreshes[s][r] = Pending
    /\ refreshes' = [refreshes EXCEPT ![s][r] = Failed]
    /\ UNCHANGED <<ready, shown, loading, failed, direct>>

ServerChanges(v) ==
    /\ ready' = v
    /\ direct' = (direct /\ \E s \in InFlight : refreshes[s]["readiness"] = Pending)
    /\ UNCHANGED <<shown, loading, refreshes, failed>>

\* Every read of the refresh ended.
Ended(s) == s \in InFlight /\ \A r \in Reads : refreshes[s][r] # Pending

\* What is shown of a read that failed.
Missing(r) == IF r = "readiness" THEN Unavailable ELSE Null

\* Faulty variant: a read that fails leaves what was shown.
SettleKeepsOld(s) ==
    /\ Ended(s)
    /\ shown' = [r \in Reads |-> IF refreshes[s][r] = Failed THEN shown[r] ELSE refreshes[s][r]]
    /\ failed' = {r \in Reads : refreshes[s][r] = Failed}
    /\ loading' = FALSE
    /\ refreshes' = [refreshes EXCEPT ![s] = Free]
    /\ UNCHANGED <<ready, direct>>

\* Faulty variant: Promise.all, so that nothing is set when a read fails.
SettleAllOrNothing(s) ==
    /\ Ended(s)
    /\ failed' = {r \in Reads : refreshes[s][r] = Failed}
    /\ IF failed' = {}
       THEN shown' = refreshes[s] /\ loading' = FALSE
       ELSE UNCHANGED <<shown, loading>>
    /\ refreshes' = [refreshes EXCEPT ![s] = Free]
    /\ UNCHANGED <<ready, direct>>

\* refresh, after its await.
Settle(s) ==
    /\ Ended(s)
    /\ shown' = [r \in Reads |-> IF refreshes[s][r] = Failed THEN Missing(r) ELSE refreshes[s][r]]
    /\ failed' = {r \in Reads : refreshes[s][r] = Failed}
    /\ loading' = FALSE
    /\ refreshes' = [refreshes EXCEPT ![s] = Free]
    /\ UNCHANGED <<ready, direct>>

\* The section is left, and refreshes when it is entered again.
Remount(s) ==
    /\ shown' = [r \in Reads |-> Null]
    /\ loading' = TRUE
    /\ refreshes' = [t \in Slots |-> IF t = s THEN Started ELSE Free]
    /\ failed' = {}
    /\ direct' = TRUE
    /\ UNCHANGED ready

Next ==
    \/ \E s \in Slots :
           \/ PressRefresh(s) \/ LanguageChanges(s) \/ Settle(s) \/ Remount(s)
           \/ \E r \in Reads : Answer(s, r) \/ Fail(s, r)
    \/ \E v \in Readiness : ServerChanges(v)

Spec == Init /\ [][Next]_vars

-----------------------------------------------------------------------------

\* What a refresh that did not overlap another leaves on the page is the server's
\* state: each read's own answer, or its failure, whatever became of the others,
\* and the troubleshooting hint exactly when the readiness is bad or unknown.
StatusIsCurrent ==
    direct /\ InFlight = {} =>
        /\ \A r \in Reads : shown[r] = IF r \in failed THEN Missing(r) ELSE ServerAnswer(r)
        /\ hasHealthIssue <=> "readiness" \in failed \/ ready \notin Healthy

\* The page never shows that it is loading with nothing left to load, however
\* the reads of a refresh end.
LoadingIsAwaited == loading => InFlight # {}

=============================================================================
