------------------------------ MODULE SudoGate ------------------------------
(***************************************************************************)
(* Sudo Mode of the admin console: SudoProvider in                         *)
(* components/auth/SudoContext.tsx, with the one caller that asks again    *)
(* from inside its own operation (PasskeysPanel's registration).           *)
(*                                                                         *)
(* JavaScript runs a handler to its next await without interruption, so a  *)
(* step is one such stretch: from a click to the request it sends, from an *)
(* answer to the end of what handles it.  Between two steps the user may   *)
(* close the dialog, ask for something else or reload the page, and the    *)
(* clock may move.                                                         *)
(***************************************************************************)
EXTENDS Naturals

CONSTANTS
    Requests,         \* invocations of protected operations
    Registering,      \* those that ask again when the server refuses them
    NoRequest,        \* no dialog, no captured operation
    Grace,            \* DEFAULT_SUDO_GRACE_PERIOD_MS in clock ticks
    ServerTTL,        \* how long the server accepts a strong authentication
    StorageMayFail,   \* whether access to sessionStorage may throw
    MaxTime,          \* bound: the last clock value
    MaxAsks           \* bound: how often one invocation is asked for

ASSUME RequestsAssumption ==
    /\ Registering \subseteq Requests
    /\ NoRequest \notin Requests

ASSUME TimeAssumption ==
    /\ Grace \in Nat \ {0}
    /\ ServerTTL \in Nat \ {0}
    /\ MaxTime \in Nat
    /\ MaxAsks \in Nat
    /\ StorageMayFail \in BOOLEAN

VARIABLES
    now,             \* Date.now()
    sudoUntil,       \* sessionStorage's sudo_active_until; 0: no such key
    pendingAction,   \* the operation the dialog is open for
    flight,          \* the verification each button has in progress
    running,         \* operations whose onSuccess has not settled yet
    serverAuthAt,    \* the server's time of the last strong authentication
    \* history
    lastVerified,    \* when the page last handled a successful verification
    asked,           \* requireSudo calls per operation
    runs,            \* onSuccess calls per operation
    cancelled        \* how the dialog of the latest call was dismissed

vars == <<now, sudoUntil, pendingAction, flight, running, serverAuthAt,
          lastVerified, asked, runs, cancelled>>

\* The TOTP form (`loading`) and the passkey button (`passkeyLoading`).
Methods == {"otp", "passkey"}

\* A handler is "sent" while it awaits the server, "accepted" once the server
\* has accepted the factor but the page has not seen the answer, "performing"
\* while it awaits the operation's onSuccess.  `action` is the pendingAction of
\* the render the click happened in, which the handler's closure keeps.
Phases == {"free", "sent", "accepted", "performing"}
Idle == [phase |-> "free", action |-> NoRequest]

TypeOK ==
    /\ now \in Nat
    /\ sudoUntil \in Nat
    /\ pendingAction \in Requests \cup {NoRequest}
    /\ flight \in [Methods -> [phase : Phases, action : Requests \cup {NoRequest}]]
    /\ running \subseteq Requests
    /\ serverAuthAt \in Nat
    /\ lastVerified \in Nat
    /\ asked \in [Requests -> Nat]
    /\ runs \in [Requests -> Nat]
    /\ cancelled \in [Requests -> {"no", "idle", "verifying"}]

\* The clock starts more than a window after 0, so that 0 stands for "never".
Init ==
    /\ now = Grace + ServerTTL
    /\ sudoUntil = 0
    /\ pendingAction = NoRequest
    /\ flight = [m \in Methods |-> Idle]
    /\ running = {}
    /\ serverAuthAt = 0
    /\ lastVerified = 0
    /\ asked = [r \in Requests |-> 0]
    /\ runs = [r \in Requests |-> 0]
    /\ cancelled = [r \in Requests |-> "no"]

-----------------------------------------------------------------------------

\* Faulty variants: the key alone counts; the last instant still counts.
StoredKeyIsEnough == sudoUntil # 0
ActiveAtTheDeadline == sudoUntil # 0 /\ now <= sudoUntil

isSudoActive == now < sudoUntil

\* Every button of the dialog is disabled while a verification is in progress,
\* the operation it starts included: both handlers reset their flag in finally.
Busy == \E m \in Methods : flight[m].phase # "free"

\* Verification m still holds operation r and has not started it.
Holds(m, r) == flight[m].phase \in {"sent", "accepted"} /\ flight[m].action = r

\* The operation may still be started by what has been asked for so far.
Owed(r) == pendingAction = r \/ \E m \in Methods : Holds(m, r)

\* onSuccess of r is called.
Perform(r) ==
    /\ running' = running \cup {r}
    /\ runs' = [runs EXCEPT ![r] = @ + 1]

\* requireSudo called by a page, which asks when the window is over or cannot be
\* read.  An open dialog covers the page, so a user can
\* only get here while there is none; a click while the previous invocation is
\* still under way is another element of Requests.
RequireSudo(r) ==
    /\ pendingAction = NoRequest
    /\ ~Owed(r) /\ r \notin running
    /\ asked[r] < MaxAsks
    /\ asked' = [asked EXCEPT ![r] = @ + 1]
    /\ cancelled' = [cancelled EXCEPT ![r] = "no"]
    /\ \/ /\ isSudoActive
          /\ Perform(r)
          /\ UNCHANGED pendingAction
       \/ /\ ~isSudoActive \/ StorageMayFail
          /\ pendingAction' = r
          /\ UNCHANGED <<running, runs>>
    /\ UNCHANGED <<now, sudoUntil, flight, serverAuthAt, lastVerified>>

\* Faulty variant: closing forgets setPendingAction(null).
CloseKeepsRequest ==
    /\ pendingAction # NoRequest
    /\ cancelled' = [cancelled EXCEPT ![pendingAction] =
           IF \E m \in Methods : Holds(m, pendingAction) THEN "verifying" ELSE "idle"]
    /\ UNCHANGED <<now, sudoUntil, pendingAction, flight, running, serverAuthAt,
                   lastVerified, asked, runs>>

\* handleClose, from the Cancel button (disabled while busy) or from the modal's
\* onOpenChange (Escape, the backdrop: never disabled).
HandleClose ==
    /\ pendingAction # NoRequest
    /\ pendingAction' = NoRequest
    /\ cancelled' = [cancelled EXCEPT ![pendingAction] =
           IF \E m \in Methods : Holds(m, pendingAction) THEN "verifying" ELSE "idle"]
    /\ UNCHANGED <<now, sudoUntil, flight, running, serverAuthAt, lastVerified,
                   asked, runs>>

\* handleMfaSubmit and handlePasskeyStepUp up to the request they await.  A
\* blank code only sets the error text and sends nothing.
Submit(m) ==
    /\ pendingAction # NoRequest
    /\ ~Busy
    /\ flight' = [flight EXCEPT ![m] = [phase |-> "sent", action |-> pendingAction]]
    /\ UNCHANGED <<now, sudoUntil, pendingAction, running, serverAuthAt,
                   lastVerified, asked, runs, cancelled>>

\* External: the server accepts the second factor.
ServerAccepts(m) ==
    /\ flight[m].phase = "sent"
    /\ flight' = [flight EXCEPT ![m].phase = "accepted"]
    /\ serverAuthAt' = now
    /\ UNCHANGED <<now, sudoUntil, pendingAction, running, lastVerified, asked,
                   runs, cancelled>>

\* Faulty variant: the dialog stays open for the operation that was started.
SucceedsAndStaysOpen(m) ==
    /\ flight[m].phase = "accepted"
    /\ sudoUntil' = now + Grace
    /\ lastVerified' = now
    /\ flight' = [flight EXCEPT ![m].phase = "performing"]
    /\ Perform(flight[m].action)
    /\ UNCHANGED <<now, pendingAction, serverAuthAt, asked, cancelled>>

\* The await returns: recordSudoSuccess, then completePendingAction, which
\* clears whatever the dialog shows now and runs the operation captured then.
VerificationSucceeds(m) ==
    /\ flight[m].phase = "accepted"
    /\ \/ sudoUntil' = now + Grace
       \/ StorageMayFail /\ UNCHANGED sudoUntil
    /\ lastVerified' = now
    /\ pendingAction' = NoRequest
    /\ flight' = [flight EXCEPT ![m].phase = "performing"]
    /\ Perform(flight[m].action)
    /\ UNCHANGED <<now, serverAuthAt, asked, cancelled>>

\* The await throws: the factor was refused, or the answer never arrived.
VerificationFails(m) ==
    /\ flight[m].phase \in {"sent", "accepted"}
    /\ flight' = [flight EXCEPT ![m] = Idle]
    /\ UNCHANGED <<now, sudoUntil, pendingAction, running, serverAuthAt,
                   lastVerified, asked, runs, cancelled>>

\* Faulty variant: the loading flag is not reset after the operation.
KeepLoading(r) == flight

\* The handler awaiting r's onSuccess, if there is one, reaches its finally.
Release(r) ==
    [m \in Methods |->
        IF flight[m] = [phase |-> "performing", action |-> r] THEN Idle ELSE flight[m]]

\* onSuccess settles, by returning or by throwing.
ActionSettles(r) ==
    /\ r \in running
    /\ running' = running \ {r}
    /\ flight' = Release(r)
    /\ UNCHANGED <<now, sudoUntil, pendingAction, serverAuthAt, lastVerified,
                   asked, runs, cancelled>>

\* doRegister: the server answers "recent strong authentication required";
\* clearSudo, then requireSudo for the same registration, which finds the
\* grace period gone and takes the dialog over.  A storage that does not let
\* itself be cleared does not let itself be read either.
ActionRefused(r) ==
    /\ r \in running \cap Registering
    /\ now >= serverAuthAt + ServerTTL
    /\ asked[r] < MaxAsks
    /\ sudoUntil' = 0 \/ (StorageMayFail /\ UNCHANGED sudoUntil)
    /\ asked' = [asked EXCEPT ![r] = @ + 1]
    /\ cancelled' = [cancelled EXCEPT ![r] = "no"]
    /\ pendingAction' = r
    /\ running' = running \ {r}
    /\ flight' = Release(r)
    /\ UNCHANGED <<now, serverAuthAt, lastVerified, runs>>

\* The page is reloaded: React state and pending awaits are gone, the tab's
\* sessionStorage is not.
Reload ==
    /\ pendingAction' = NoRequest
    /\ flight' = [m \in Methods |-> Idle]
    /\ running' = {}
    /\ UNCHANGED <<now, sudoUntil, serverAuthAt, lastVerified, asked, runs,
                   cancelled>>

Tick ==
    /\ now < MaxTime
    /\ now' = now + 1
    /\ UNCHANGED <<sudoUntil, pendingAction, flight, running, serverAuthAt,
                   lastVerified, asked, runs, cancelled>>

Next ==
    \/ \E r \in Requests : RequireSudo(r) \/ ActionSettles(r) \/ ActionRefused(r)
    \/ \E m \in Methods :
          \/ Submit(m)
          \/ ServerAccepts(m)
          \/ VerificationSucceeds(m)
          \/ VerificationFails(m)
    \/ HandleClose
    \/ Reload
    \/ Tick

Spec == Init /\ [][Next]_vars

\* A request that was sent is answered or times out (the gateway gives up after
\* proxy_read_timeout, a passkey ceremony after its own), and the operation a
\* page runs is such a request.  Nothing is assumed of the user or the clock.
Fairness ==
    /\ \A m \in Methods : WF_vars(VerificationSucceeds(m) \/ VerificationFails(m))
    /\ \A r \in Requests : WF_vars(ActionSettles(r) \/ ActionRefused(r))

FairSpec == Spec /\ Fairness

-----------------------------------------------------------------------------

\* A step-up is stamped when its answer is handled, so the stored window never
\* reaches beyond one grace period after the last success the page handled,
\* whatever was cleared, reloaded or failed to be stored in between.
GraceBounded == sudoUntil <= lastVerified + Grace

\* An operation starts only while the last handled verification is less than a
\* grace period old: directly from requireSudo, or by the verification itself.
RunsOnlyUnderStepUp ==
    [][\A r \in Requests : runs'[r] > runs[r] => now < lastVerified' + Grace]_vars

\* One requireSudo call starts its operation at most once, however dismissals,
\* new requests, failed attempts and late answers of both buttons interleave.
RunsAtMostAsked == \A r \in Requests : runs[r] <= asked[r]

\* Every start that is still to come is paid for: an operation that the dialog is
\* open for, or that a verification has captured, was asked for once more than it
\* was started, so neither path can start it on the strength of the other's call.
OwedIsUnstarted == \A r \in Requests : Owed(r) => runs[r] < asked[r]

\* The two buttons disable each other: there is never a second verification in
\* progress, which is what keeps one dialog from running its operation twice.
OneVerification ==
    \A m, n \in Methods : flight[m].phase # "free" /\ flight[n].phase # "free" => m = n

\* An operation dismissed while no verification was in progress for it never
\* starts unless it is asked for again.
CancelledStaysOff ==
    [][\A r \in Requests :
          cancelled[r] = "idle" /\ runs'[r] > runs[r] => asked'[r] > asked[r]]_vars

\* The state behind it: nothing that could still start is one the user dismissed
\* with no verification under way.
CancelledIsNotOwed == \A r \in Requests : cancelled[r] = "idle" => ~Owed(r)

\* The dialog is not locked for good: a verification that was started, and the
\* operation it starts, end and give the buttons back.
DialogUnlocks == \A m \in Methods : flight[m].phase # "free" ~> flight[m].phase = "free"

\* A verification in progress was started for some operation.
FlightHasAction ==
    \A m \in Methods : flight[m].phase # "free" => flight[m].action \in Requests

\* The page has handled no verification in the future.
VerifiedInThePast == lastVerified <= now

\* The inductive invariant: what the next step needs to know of the past.
IInv ==
    /\ TypeOK
    /\ FlightHasAction
    /\ VerifiedInThePast
    /\ GraceBounded
    /\ OneVerification
    /\ RunsAtMostAsked
    /\ OwedIsUnstarted
    /\ CancelledIsNotOwed

\* What SudoSpec counts is what the page and Sudo Mode were seen to do; the dialog,
\* the requests and the storage are what it does not show.
Promise == INSTANCE SudoSpec WITH
    clock <- now, verifiedAt <- lastVerified, owed <- asked, started <- runs

\* The dialog implements the promise.
ImplementsPromise == Promise!Spec

=============================================================================
