------------------------------ MODULE SudoSpec ------------------------------
(***************************************************************************)
(* What Sudo Mode promises the pages that use it, without the dialog, the  *)
(* verification requests or the session storage that implement it: a       *)
(* protected operation runs only when it was asked for, once for each time *)
(* it was asked for, and only while a strong authentication is no older    *)
(* than the grace period.                                                  *)
(***************************************************************************)
EXTENDS Naturals

CONSTANTS
    Requests,   \* the protected operations that pages ask for
    Grace       \* length of the grace period, in clock ticks

VARIABLES
    clock,        \* the browser's clock
    verifiedAt,   \* when the user last passed a strong authentication
    owed,         \* how often each operation was asked for
    started       \* how often each operation was started

vars == <<clock, verifiedAt, owed, started>>

\* A strong authentication is recent enough to act on.
Fresh == clock < verifiedAt + Grace

Init ==
    /\ clock \in Nat
    /\ clock >= Grace
    /\ verifiedAt = 0
    /\ owed = [r \in Requests |-> 0]
    /\ started = [r \in Requests |-> 0]

Tick ==
    /\ clock' = clock + 1
    /\ UNCHANGED <<verifiedAt, owed, started>>

\* Asked for, and left to wait for a verification that may never come.
Ask(r) ==
    /\ owed' = [owed EXCEPT ![r] = @ + 1]
    /\ UNCHANGED <<clock, verifiedAt, started>>

\* Asked for inside the grace period: runs at once.
AskAndRun(r) ==
    /\ Fresh
    /\ owed' = [owed EXCEPT ![r] = @ + 1]
    /\ started' = [started EXCEPT ![r] = @ + 1]
    /\ UNCHANGED <<clock, verifiedAt>>

\* The user authenticates, and an operation that was asked for runs.
VerifyAndRun(r) ==
    /\ started[r] < owed[r]
    /\ verifiedAt' = clock
    /\ started' = [started EXCEPT ![r] = @ + 1]
    /\ UNCHANGED <<clock, owed>>

Next == Tick \/ \E r \in Requests : Ask(r) \/ AskAndRun(r) \/ VerifyAndRun(r)

Spec == Init /\ [][Next]_vars

=============================================================================
