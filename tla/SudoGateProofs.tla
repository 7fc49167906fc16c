--------------------------- MODULE SudoGateProofs ---------------------------
(***************************************************************************)
(* Proofs about SudoGate for every set of operations, every grace period   *)
(* and every bound: the inductive invariant IInv, the safety properties    *)
(* that follow from it, and that the dialog implements SudoSpec.           *)
(***************************************************************************)
EXTENDS SudoGate, TLAPS

USE DEF Methods

-----------------------------------------------------------------------------

\* Before the first click nothing is asked for, held or running.
LEMMA InitIInv == Init => IInv
<1> USE RequestsAssumption, TimeAssumption DEF Init, Idle
<1>1. Init => TypeOK
  BY DEF TypeOK, Phases
<1>2. Init => FlightHasAction /\ VerifiedInThePast /\ GraceBounded /\ OneVerification /\ RunsAtMostAsked
  BY DEF FlightHasAction, VerifiedInThePast, GraceBounded, OneVerification, RunsAtMostAsked
<1>3. Init => OwedIsUnstarted /\ CancelledIsNotOwed
  BY DEF OwedIsUnstarted, CancelledIsNotOwed, Owed, Holds
<1> QED
  BY <1>1, <1>2, <1>3 DEF IInv

\* Every action assigns each variable a value of its type.
LEMMA TypeStep == IInv /\ [Next]_vars => TypeOK'
<1> SUFFICES ASSUME IInv, [Next]_vars
             PROVE  TypeOK'
  OBVIOUS
<1> USE RequestsAssumption, TimeAssumption DEF IInv, TypeOK, FlightHasAction, Phases, Idle
<1>1. ASSUME NEW r \in Requests, RequireSudo(r) PROVE TypeOK'
  BY <1>1 DEF RequireSudo, Perform
<1>2. ASSUME NEW r \in Requests, ActionSettles(r) PROVE TypeOK'
  BY <1>2 DEF ActionSettles, Release
<1>3. ASSUME NEW r \in Requests, ActionRefused(r) PROVE TypeOK'
  BY <1>3 DEF ActionRefused, Release
<1>4. ASSUME NEW m \in Methods, Submit(m) PROVE TypeOK'
  BY <1>4 DEF Submit
<1>5. ASSUME NEW m \in Methods, ServerAccepts(m) PROVE TypeOK'
  BY <1>5 DEF ServerAccepts
<1>6. ASSUME NEW m \in Methods, VerificationSucceeds(m) PROVE TypeOK'
  BY <1>6 DEF VerificationSucceeds, Perform
<1>7. ASSUME NEW m \in Methods, VerificationFails(m) PROVE TypeOK'
  BY <1>7 DEF VerificationFails
<1>8. CASE HandleClose
  BY <1>8 DEF HandleClose, Holds
<1>9. CASE Reload
  BY <1>9 DEF Reload
<1>10. CASE Tick
  BY <1>10 DEF Tick
<1>11. CASE UNCHANGED vars
  BY <1>11 DEF vars
<1> QED
  BY <1>1, <1>2, <1>3, <1>4, <1>5, <1>6, <1>7, <1>8, <1>9, <1>10, <1>11 DEF Next

\* Only Submit starts a verification, and it captures the open dialog's operation.
LEMMA FlightStep == IInv /\ [Next]_vars => FlightHasAction'
<1> SUFFICES ASSUME IInv, [Next]_vars
             PROVE  FlightHasAction'
  OBVIOUS
<1> USE RequestsAssumption, TimeAssumption DEF IInv, TypeOK, FlightHasAction, Phases, Idle
<1>1. ASSUME NEW r \in Requests, RequireSudo(r) PROVE FlightHasAction'
  BY <1>1 DEF RequireSudo, Perform
<1>2. ASSUME NEW r \in Requests, ActionSettles(r) PROVE FlightHasAction'
  BY <1>2 DEF ActionSettles, Release
<1>3. ASSUME NEW r \in Requests, ActionRefused(r) PROVE FlightHasAction'
  BY <1>3 DEF ActionRefused, Release
<1>4. ASSUME NEW m \in Methods, Submit(m) PROVE FlightHasAction'
  BY <1>4 DEF Submit, Busy
<1>5. ASSUME NEW m \in Methods, ServerAccepts(m) PROVE FlightHasAction'
  BY <1>5 DEF ServerAccepts
<1>6. ASSUME NEW m \in Methods, VerificationSucceeds(m) PROVE FlightHasAction'
  BY <1>6 DEF VerificationSucceeds, Perform
<1>7. ASSUME NEW m \in Methods, VerificationFails(m) PROVE FlightHasAction'
  BY <1>7 DEF VerificationFails
<1>8. CASE HandleClose
  BY <1>8 DEF HandleClose
<1>9. CASE Reload
  BY <1>9 DEF Reload
<1>10. CASE Tick
  BY <1>10 DEF Tick
<1>11. CASE UNCHANGED vars
  BY <1>11 DEF vars
<1> QED
  BY <1>1, <1>2, <1>3, <1>4, <1>5, <1>6, <1>7, <1>8, <1>9, <1>10, <1>11 DEF Next

\* The window is only ever set together with lastVerified, or cleared.
LEMMA GraceStep == IInv /\ [Next]_vars => VerifiedInThePast' /\ GraceBounded'
<1> SUFFICES ASSUME IInv, [Next]_vars
             PROVE  VerifiedInThePast' /\ GraceBounded'
  OBVIOUS
<1> USE RequestsAssumption, TimeAssumption DEF IInv, TypeOK, FlightHasAction, Phases, Idle, VerifiedInThePast, GraceBounded
<1>1. ASSUME NEW r \in Requests, RequireSudo(r) PROVE VerifiedInThePast' /\ GraceBounded'
  BY <1>1 DEF RequireSudo, Perform
<1>2. ASSUME NEW r \in Requests, ActionSettles(r) PROVE VerifiedInThePast' /\ GraceBounded'
  BY <1>2 DEF ActionSettles, Release
<1>3. ASSUME NEW r \in Requests, ActionRefused(r) PROVE VerifiedInThePast' /\ GraceBounded'
  BY <1>3 DEF ActionRefused, Release
<1>4. ASSUME NEW m \in Methods, Submit(m) PROVE VerifiedInThePast' /\ GraceBounded'
  BY <1>4 DEF Submit, Busy
<1>5. ASSUME NEW m \in Methods, ServerAccepts(m) PROVE VerifiedInThePast' /\ GraceBounded'
  BY <1>5 DEF ServerAccepts
<1>6. ASSUME NEW m \in Methods, VerificationSucceeds(m) PROVE VerifiedInThePast' /\ GraceBounded'
  BY <1>6 DEF VerificationSucceeds, Perform
<1>7. ASSUME NEW m \in Methods, VerificationFails(m) PROVE VerifiedInThePast' /\ GraceBounded'
  BY <1>7 DEF VerificationFails
<1>8. CASE HandleClose
  BY <1>8 DEF HandleClose
<1>9. CASE Reload
  BY <1>9 DEF Reload
<1>10. CASE Tick
  BY <1>10 DEF Tick
<1>11. CASE UNCHANGED vars
  BY <1>11 DEF vars
<1> QED
  BY <1>1, <1>2, <1>3, <1>4, <1>5, <1>6, <1>7, <1>8, <1>9, <1>10, <1>11 DEF Next

\* Submit needs both buttons free; every other step keeps or frees a button.
LEMMA OneVerificationStep == IInv /\ [Next]_vars => OneVerification'
<1> SUFFICES ASSUME IInv, [Next]_vars
             PROVE  OneVerification'
  OBVIOUS
<1> USE RequestsAssumption, TimeAssumption DEF IInv, TypeOK, FlightHasAction, Phases, Idle, OneVerification
<1>1. ASSUME NEW r \in Requests, RequireSudo(r) PROVE OneVerification'
  BY <1>1 DEF RequireSudo, Perform
<1>2. ASSUME NEW r \in Requests, ActionSettles(r) PROVE OneVerification'
  BY <1>2 DEF ActionSettles, Release
<1>3. ASSUME NEW r \in Requests, ActionRefused(r) PROVE OneVerification'
  BY <1>3 DEF ActionRefused, Release
<1>4. ASSUME NEW m \in Methods, Submit(m) PROVE OneVerification'
  BY <1>4 DEF Submit, Busy
<1>5. ASSUME NEW m \in Methods, ServerAccepts(m) PROVE OneVerification'
  BY <1>5 DEF ServerAccepts
<1>6. ASSUME NEW m \in Methods, VerificationSucceeds(m) PROVE OneVerification'
  BY <1>6 DEF VerificationSucceeds, Perform
<1>7. ASSUME NEW m \in Methods, VerificationFails(m) PROVE OneVerification'
  BY <1>7 DEF VerificationFails
<1>8. CASE HandleClose
  BY <1>8 DEF HandleClose
<1>9. CASE Reload
  BY <1>9 DEF Reload
<1>10. CASE Tick
  BY <1>10 DEF Tick
<1>11. CASE UNCHANGED vars
  BY <1>11 DEF vars
<1> QED
  BY <1>1, <1>2, <1>3, <1>4, <1>5, <1>6, <1>7, <1>8, <1>9, <1>10, <1>11 DEF Next

\* A start is owed, so the counter it raises was below the number of calls.
LEMMA RunsStep == IInv /\ [Next]_vars => RunsAtMostAsked'
<1> SUFFICES ASSUME IInv, [Next]_vars
             PROVE  RunsAtMostAsked'
  OBVIOUS
<1> USE RequestsAssumption, TimeAssumption DEF IInv, TypeOK, FlightHasAction, Phases, Idle, RunsAtMostAsked, OwedIsUnstarted, Owed, Holds
<1>1. ASSUME NEW r \in Requests, RequireSudo(r) PROVE RunsAtMostAsked'
  BY <1>1 DEF RequireSudo, Perform
<1>2. ASSUME NEW r \in Requests, ActionSettles(r) PROVE RunsAtMostAsked'
  BY <1>2 DEF ActionSettles, Release
<1>3. ASSUME NEW r \in Requests, ActionRefused(r) PROVE RunsAtMostAsked'
  BY <1>3 DEF ActionRefused, Release
<1>4. ASSUME NEW m \in Methods, Submit(m) PROVE RunsAtMostAsked'
  BY <1>4 DEF Submit, Busy
<1>5. ASSUME NEW m \in Methods, ServerAccepts(m) PROVE RunsAtMostAsked'
  BY <1>5 DEF ServerAccepts
<1>6. ASSUME NEW m \in Methods, VerificationSucceeds(m) PROVE RunsAtMostAsked'
  BY <1>6 DEF VerificationSucceeds, Perform
<1>7. ASSUME NEW m \in Methods, VerificationFails(m) PROVE RunsAtMostAsked'
  BY <1>7 DEF VerificationFails
<1>8. CASE HandleClose
  BY <1>8 DEF HandleClose
<1>9. CASE Reload
  BY <1>9 DEF Reload
<1>10. CASE Tick
  BY <1>10 DEF Tick
<1>11. CASE UNCHANGED vars
  BY <1>11 DEF vars
<1> QED
  BY <1>1, <1>2, <1>3, <1>4, <1>5, <1>6, <1>7, <1>8, <1>9, <1>10, <1>11 DEF Next

\* With one verification at a time, starting an operation leaves nothing owing it.
LEMMA OwedStep == IInv /\ [Next]_vars => OwedIsUnstarted'
<1> SUFFICES ASSUME IInv, [Next]_vars
             PROVE  OwedIsUnstarted'
  OBVIOUS
<1> USE RequestsAssumption, TimeAssumption DEF IInv, TypeOK, FlightHasAction, Phases, Idle, RunsAtMostAsked, OwedIsUnstarted, OneVerification, Owed, Holds
<1>1. ASSUME NEW r \in Requests, RequireSudo(r) PROVE OwedIsUnstarted'
  BY <1>1 DEF RequireSudo, Perform
<1>2. ASSUME NEW r \in Requests, ActionSettles(r) PROVE OwedIsUnstarted'
  BY <1>2 DEF ActionSettles, Release
<1>3. ASSUME NEW r \in Requests, ActionRefused(r) PROVE OwedIsUnstarted'
  BY <1>3 DEF ActionRefused, Release
<1>4. ASSUME NEW m \in Methods, Submit(m) PROVE OwedIsUnstarted'
  BY <1>4 DEF Submit, Busy
<1>5. ASSUME NEW m \in Methods, ServerAccepts(m) PROVE OwedIsUnstarted'
  BY <1>5 DEF ServerAccepts
<1>6. ASSUME NEW m \in Methods, VerificationSucceeds(m) PROVE OwedIsUnstarted'
  BY <1>6 DEF VerificationSucceeds, Perform
<1>7. ASSUME NEW m \in Methods, VerificationFails(m) PROVE OwedIsUnstarted'
  BY <1>7 DEF VerificationFails
<1>8. CASE HandleClose
  BY <1>8 DEF HandleClose
<1>9. CASE Reload
  BY <1>9 DEF Reload
<1>10. CASE Tick
  BY <1>10 DEF Tick
<1>11. CASE UNCHANGED vars
  BY <1>11 DEF vars
<1> QED
  BY <1>1, <1>2, <1>3, <1>4, <1>5, <1>6, <1>7, <1>8, <1>9, <1>10, <1>11 DEF Next

\* An operation becomes owed by a new call, or by Submit when the dialog already owed it.
LEMMA CancelledStep == IInv /\ [Next]_vars => CancelledIsNotOwed'
<1> SUFFICES ASSUME IInv, [Next]_vars
             PROVE  CancelledIsNotOwed'
  OBVIOUS
<1> USE RequestsAssumption, TimeAssumption DEF IInv, TypeOK, FlightHasAction, Phases, Idle, CancelledIsNotOwed, Owed, Holds
<1>1. ASSUME NEW r \in Requests, RequireSudo(r) PROVE CancelledIsNotOwed'
  BY <1>1 DEF RequireSudo, Perform
<1>2. ASSUME NEW r \in Requests, ActionSettles(r) PROVE CancelledIsNotOwed'
  BY <1>2 DEF ActionSettles, Release
<1>3. ASSUME NEW r \in Requests, ActionRefused(r) PROVE CancelledIsNotOwed'
  BY <1>3 DEF ActionRefused, Release
<1>4. ASSUME NEW m \in Methods, Submit(m) PROVE CancelledIsNotOwed'
  BY <1>4 DEF Submit, Busy
<1>5. ASSUME NEW m \in Methods, ServerAccepts(m) PROVE CancelledIsNotOwed'
  BY <1>5 DEF ServerAccepts
<1>6. ASSUME NEW m \in Methods, VerificationSucceeds(m) PROVE CancelledIsNotOwed'
  BY <1>6 DEF VerificationSucceeds, Perform
<1>7. ASSUME NEW m \in Methods, VerificationFails(m) PROVE CancelledIsNotOwed'
  BY <1>7 DEF VerificationFails
<1>8. CASE HandleClose
  BY <1>8 DEF HandleClose
<1>9. CASE Reload
  BY <1>9 DEF Reload
<1>10. CASE Tick
  BY <1>10 DEF Tick
<1>11. CASE UNCHANGED vars
  BY <1>11 DEF vars
<1> QED
  BY <1>1, <1>2, <1>3, <1>4, <1>5, <1>6, <1>7, <1>8, <1>9, <1>10, <1>11 DEF Next

-----------------------------------------------------------------------------

\* The inductive invariant holds in every reachable state.
THEOREM Invariance == Spec => []IInv
<1>1. IInv /\ [Next]_vars => IInv'
  BY TypeStep, FlightStep, GraceStep, OneVerificationStep, RunsStep, OwedStep,
     CancelledStep DEF IInv
<1> QED
  BY InitIInv, <1>1, PTL DEF Spec

\* Every state of the dialog, its buttons, the stored window and the running
\* operations is well formed.
THEOREM TypeCorrect == Spec => []TypeOK
BY Invariance, PTL DEF IInv

\* One requireSudo call starts its operation at most once.
THEOREM RunsAreAskedFor == Spec => []RunsAtMostAsked
BY Invariance, PTL DEF IInv

\* The TOTP form and the passkey button never verify at the same time.
THEOREM SingleVerification == Spec => []OneVerification
BY Invariance, PTL DEF IInv

\* What is still to be started was asked for once more than it was started.
THEOREM StartsAreOwed == Spec => []OwedIsUnstarted
BY Invariance, PTL DEF IInv

\* The stored window ends within one grace period of the last verification.
THEOREM GraceIsBounded == Spec => []GraceBounded
BY Invariance, PTL DEF IInv

-----------------------------------------------------------------------------

\* Only two steps start an operation: a requireSudo inside the window, and the
\* verification that captured it.
LEMMA OnlyStarts ==
    ASSUME IInv, [Next]_vars, NEW r \in Requests, runs'[r] > runs[r]
    PROVE  \/ RequireSudo(r) /\ isSudoActive
           \/ \E m \in Methods : VerificationSucceeds(m) /\ flight[m].action = r
<1> USE RequestsAssumption, TimeAssumption DEF IInv, TypeOK, FlightHasAction
<1>1. ASSUME NEW q \in Requests, RequireSudo(q) PROVE q = r /\ isSudoActive
  BY <1>1 DEF RequireSudo, Perform
<1>2. ASSUME NEW m \in Methods, VerificationSucceeds(m) PROVE flight[m].action = r
  BY <1>2 DEF VerificationSucceeds, Perform
<1>3. ASSUME NEW m \in Methods, Submit(m) \/ ServerAccepts(m) \/ VerificationFails(m)
      PROVE FALSE
  BY <1>3 DEF Submit, ServerAccepts, VerificationFails
<1>4. ASSUME NEW q \in Requests, ActionSettles(q) \/ ActionRefused(q) PROVE FALSE
  BY <1>4 DEF ActionSettles, ActionRefused
<1>5. CASE HandleClose \/ Reload \/ Tick \/ UNCHANGED vars
  BY <1>5 DEF HandleClose, Reload, Tick, vars
<1> QED
  BY <1>1, <1>2, <1>3, <1>4, <1>5 DEF Next

\* No operation starts on a verification older than the grace period.
THEOREM StartsUnderStepUp == Spec => RunsOnlyUnderStepUp
<1>1. ASSUME IInv, [Next]_vars, NEW r \in Requests, runs'[r] > runs[r]
      PROVE  now < lastVerified' + Grace
  <2> USE RequestsAssumption, TimeAssumption DEF IInv, TypeOK
  <2>1. CASE RequireSudo(r) /\ isSudoActive
    BY <1>1, <2>1 DEF RequireSudo, isSudoActive, GraceBounded
  <2>2. CASE \E m \in Methods : VerificationSucceeds(m)
    BY <1>1, <2>2 DEF VerificationSucceeds
  <2> QED
    BY <1>1, <2>1, <2>2, OnlyStarts
<1>2. IInv /\ [Next]_vars =>
        [\A r \in Requests : runs'[r] > runs[r] => now < lastVerified' + Grace]_vars
  BY <1>1
<1> QED
  BY Invariance, <1>2, PTL DEF Spec, RunsOnlyUnderStepUp

\* Dismissing the dialog while nothing is being verified calls the operation off.
THEOREM CancellingWorks == Spec => CancelledStaysOff
<1>1. ASSUME IInv, [Next]_vars, NEW r \in Requests,
             cancelled[r] = "idle", runs'[r] > runs[r]
      PROVE  asked'[r] > asked[r]
  <2> USE RequestsAssumption, TimeAssumption DEF IInv, TypeOK
  <2>1. CASE RequireSudo(r)
    BY <1>1, <2>1 DEF RequireSudo
  <2>2. ASSUME NEW m \in Methods, VerificationSucceeds(m), flight[m].action = r
        PROVE  FALSE
    BY <1>1, <2>2 DEF VerificationSucceeds, CancelledIsNotOwed, Owed, Holds
  <2> QED
    BY <1>1, <2>1, <2>2, OnlyStarts
<1>2. IInv /\ [Next]_vars =>
        [\A r \in Requests :
            cancelled[r] = "idle" /\ runs'[r] > runs[r] => asked'[r] > asked[r]]_vars
  BY <1>1
<1> QED
  BY Invariance, <1>2, PTL DEF Spec, CancelledStaysOff

-----------------------------------------------------------------------------

\* Every step of the dialog is a step of the promise, or changes nothing the
\* promise speaks of.
LEMMA StepImplements == IInv /\ [Next]_vars => [Promise!Next]_(Promise!vars)
<1> SUFFICES ASSUME IInv, [Next]_vars
             PROVE  [Promise!Next]_(Promise!vars)
  OBVIOUS
<1> USE RequestsAssumption, TimeAssumption DEF IInv, TypeOK, FlightHasAction, Promise!vars
<1>1. ASSUME NEW r \in Requests, RequireSudo(r) PROVE Promise!Ask(r) \/ Promise!AskAndRun(r)
  BY <1>1 DEF RequireSudo, Perform, isSudoActive, GraceBounded,
              Promise!Ask, Promise!AskAndRun, Promise!Fresh
<1>2. ASSUME NEW r \in Requests, ActionRefused(r) PROVE Promise!Ask(r)
  BY <1>2 DEF ActionRefused, Promise!Ask
<1>3. ASSUME NEW m \in Methods, VerificationSucceeds(m)
      PROVE  \E r \in Requests : Promise!VerifyAndRun(r)
  <2>1. flight[m].action \in Requests /\ Owed(flight[m].action)
    BY <1>3 DEF VerificationSucceeds, Owed, Holds
  <2>2. Promise!VerifyAndRun(flight[m].action)
    BY <1>3, <2>1 DEF VerificationSucceeds, Perform, OwedIsUnstarted, Promise!VerifyAndRun
  <2> QED
    BY <2>1, <2>2
<1>4. ASSUME Tick PROVE Promise!Tick
  BY <1>4 DEF Tick, Promise!Tick
<1>5. ASSUME NEW r \in Requests, ActionSettles(r) PROVE UNCHANGED Promise!vars
  BY <1>5 DEF ActionSettles
<1>6. ASSUME NEW m \in Methods, Submit(m) \/ ServerAccepts(m) \/ VerificationFails(m)
      PROVE  UNCHANGED Promise!vars
  BY <1>6 DEF Submit, ServerAccepts, VerificationFails
<1>7. ASSUME HandleClose \/ Reload \/ UNCHANGED vars PROVE UNCHANGED Promise!vars
  BY <1>7 DEF HandleClose, Reload, vars
<1>8. CASE Next
  <2>1. (\E r \in Requests : RequireSudo(r) \/ ActionRefused(r)) => Promise!Next
    BY <1>1, <1>2 DEF Promise!Next
  <2>2. (\E m \in Methods : VerificationSucceeds(m)) => Promise!Next
    BY <1>3 DEF Promise!Next
  <2>3. Tick => Promise!Next
    BY <1>4 DEF Promise!Next
  <2> QED
    BY <1>5, <1>6, <1>7, <1>8, <2>1, <2>2, <2>3 DEF Next
<1> QED
  BY <1>7, <1>8

\* The dialog, with all its races, implements the promise of SudoSpec.
THEOREM Implementation == Spec => ImplementsPromise
<1>1. Init => Promise!Init
  BY TimeAssumption DEF Init, Promise!Init
<1> QED
  BY Invariance, StepImplements, <1>1, PTL DEF Spec, ImplementsPromise, Promise!Spec

=============================================================================
