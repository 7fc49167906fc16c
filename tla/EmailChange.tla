---------------------------- MODULE EmailChange ----------------------------
(***************************************************************************)
(* Changing the email address in two steps: EmailChangeModal, opened from  *)
(* ProfilePanel.  A code is mailed to the new address, and confirms it.    *)
(*                                                                         *)
(* The dialog is mounted while it is open.  Closing it does not cancel its *)
(* requests: a late request finds nothing to update, but a late            *)
(* confirmation closes the dialog of ProfilePanel, whichever is open then. *)
(* A code is the address it was mailed to.                                 *)
(***************************************************************************)
EXTENDS FiniteSets

CONSTANTS
    Emails,
    NoEmail,
    Slots,       \* bound: requests in flight
    Free         \* a slot without a request

\* What is gone since the request was sent: nothing, its dialog, or the panel too.
Call == [kind : {"request", "confirm"}, address : Emails, code : Emails, done : BOOLEAN,
         gone : {"none", "dialog", "panel"}]

EmailAssumption ==
    /\ NoEmail \notin Emails
    /\ Free \notin Call

VARIABLES
    issued,      \* the address that the server's pending code was mailed to
    profile,     \* the address ProfilePanel shows
    showEmailModal,
    newEmail,
    step,
    loading,
    calls,       \* the request of each slot
    \* history
    sentTo,      \* the address of the request that led to the second step
    typed        \* the field changed while that request was in flight

vars == <<issued, profile, showEmailModal, newEmail, step, loading, calls, sentTo, typed>>

InFlight == {s \in Slots : calls[s] # Free}
Mine == {s \in InFlight : calls[s].gone = "none"}
Ask(kind, address, code) ==
    [kind |-> kind, address |-> address, code |-> code, done |-> FALSE, gone |-> "none"]

TypeOK ==
    /\ {profile, newEmail} \subseteq Emails
    /\ {issued, sentTo} \subseteq Emails \cup {NoEmail}
    /\ step \in {"input", "verify"}
    /\ {showEmailModal, loading, typed} \subseteq BOOLEAN
    /\ calls \in [Slots -> Call \cup {Free}]

Init ==
    /\ issued = NoEmail
    /\ profile \in Emails
    /\ showEmailModal = FALSE
    /\ newEmail = profile
    /\ step = "input"
    /\ loading = FALSE
    /\ calls = [s \in Slots |-> Free]
    /\ sentTo = NoEmail
    /\ typed = FALSE

-----------------------------------------------------------------------------

\* handleStartEditEmail, and the effect of the dialog that is mounted.
StartEditEmail ==
    /\ ~showEmailModal
    /\ showEmailModal' = TRUE
    /\ newEmail' = profile
    /\ step' = "input"
    /\ loading' = FALSE
    /\ sentTo' = NoEmail
    /\ typed' = FALSE
    /\ UNCHANGED <<issued, profile, calls>>

Abandoned ==
    [s \in Slots |-> IF s \in Mine THEN [calls[s] EXCEPT !.gone = "dialog"] ELSE calls[s]]

\* onOpenChange is not disabled while a request is in flight.
CloseDialog ==
    /\ showEmailModal
    /\ showEmailModal' = FALSE
    /\ calls' = Abandoned
    /\ UNCHANGED <<issued, profile, newEmail, step, loading, sentTo, typed>>

\* The input is not disabled either.
TypeAddress(e) ==
    /\ showEmailModal /\ step = "input"
    /\ newEmail' = e
    /\ typed' = (typed \/ loading)
    /\ UNCHANGED <<issued, profile, showEmailModal, step, loading, calls, sentTo>>

\* requestVerificationCode, up to its await.
requestVerificationCode(s) ==
    /\ showEmailModal /\ step = "input" /\ ~loading
    /\ calls[s] = Free
    /\ calls' = [calls EXCEPT ![s] = Ask("request", newEmail, newEmail)]
    /\ loading' = TRUE
    /\ typed' = FALSE
    /\ UNCHANGED <<issued, profile, showEmailModal, newEmail, step, sentTo>>

Back ==
    /\ showEmailModal /\ step = "verify" /\ ~loading
    /\ step' = "input"
    /\ UNCHANGED <<issued, profile, showEmailModal, newEmail, loading, calls, sentTo, typed>>

\* handleConfirmEmailChange, up to its await: the address is that of the field.
confirmEmailChange(s, code) ==
    /\ showEmailModal /\ step = "verify" /\ ~loading
    /\ calls[s] = Free
    /\ calls' = [calls EXCEPT ![s] = Ask("confirm", newEmail, code)]
    /\ loading' = TRUE
    /\ UNCHANGED <<issued, profile, showEmailModal, newEmail, step, sentTo, typed>>

\* External: the server mails a code, or accepts the one it mailed.
MailCode(s) ==
    /\ s \in InFlight /\ ~calls[s].done /\ calls[s].kind = "request"
    /\ issued' = calls[s].address
    /\ calls' = [calls EXCEPT ![s].done = TRUE]
    /\ UNCHANGED <<profile, showEmailModal, newEmail, step, loading, sentTo, typed>>

AcceptCode(s) ==
    /\ s \in InFlight /\ ~calls[s].done /\ calls[s].kind = "confirm"
    /\ issued = calls[s].address /\ issued = calls[s].code
    /\ issued' = NoEmail
    /\ calls' = [calls EXCEPT ![s].done = TRUE]
    /\ UNCHANGED <<profile, showEmailModal, newEmail, step, loading, sentTo, typed>>

\* Faulty variant: the dialog stays mounted when it is closed.
RequestAlwaysCounts(s) ==
    /\ s \in InFlight /\ calls[s].done /\ calls[s].kind = "request"
    /\ calls' = [calls EXCEPT ![s] = Free]
    /\ step' = "verify" /\ loading' = FALSE /\ sentTo' = calls[s].address
    /\ UNCHANGED <<issued, profile, showEmailModal, newEmail, typed>>

RequestSucceeds(s) ==
    /\ s \in InFlight /\ calls[s].done /\ calls[s].kind = "request"
    /\ calls' = [calls EXCEPT ![s] = Free]
    /\ IF s \in Mine
       THEN step' = "verify" /\ loading' = FALSE /\ sentTo' = calls[s].address
       ELSE UNCHANGED <<step, loading, sentTo>>
    /\ UNCHANGED <<issued, profile, showEmailModal, newEmail, typed>>

\* The hook updates the profile; onProfileUpdated and onClose belong to ProfilePanel,
\* which may still be mounted.
ConfirmSucceeds(s) ==
    /\ s \in InFlight /\ calls[s].done /\ calls[s].kind = "confirm"
    /\ calls[s].gone # "panel"
    /\ profile' = calls[s].address
    /\ showEmailModal' = FALSE
    /\ loading' = FALSE
    /\ calls' = [Abandoned EXCEPT ![s] = Free]
    /\ UNCHANGED <<issued, newEmail, step, sentTo, typed>>

\* Another panel was mounted since: the effect of a dialog that is open there starts
\* over with the new address, whatever the dialog awaits.
LeftConfirmSucceeds(s) ==
    /\ s \in InFlight /\ calls[s].done /\ calls[s].kind = "confirm"
    /\ calls[s].gone = "panel"
    /\ profile' = calls[s].address
    /\ calls' = [calls EXCEPT ![s] = Free]
    /\ IF showEmailModal /\ profile' # profile
       THEN newEmail' = profile' /\ step' = "input" /\ typed' = (typed \/ loading)
       ELSE UNCHANGED <<newEmail, step, typed>>
    /\ UNCHANGED <<issued, showEmailModal, loading, sentTo>>

\* The hook shows the error.
CallFails(s) ==
    /\ s \in InFlight
    /\ calls' = [calls EXCEPT ![s] = Free]
    /\ loading' = (loading /\ s \notin Mine)
    /\ UNCHANGED <<issued, profile, showEmailModal, newEmail, step, sentTo, typed>>

\* The tab is left, and entered again.
Remount ==
    /\ showEmailModal' = FALSE /\ loading' = FALSE
    /\ calls' = [s \in Slots |-> IF s \in InFlight THEN [calls[s] EXCEPT !.gone = "panel"] ELSE Free]
    /\ UNCHANGED <<issued, profile, newEmail, step, sentTo, typed>>

Next ==
    \/ StartEditEmail \/ CloseDialog \/ Back \/ Remount
    \/ \E e \in Emails : TypeAddress(e)
    \/ \E s \in Slots :
           \/ requestVerificationCode(s)
           \/ \E code \in Emails : confirmEmailChange(s, code)
           \/ MailCode(s) \/ AcceptCode(s)
           \/ RequestSucceeds(s) \/ ConfirmSucceeds(s) \/ LeftConfirmSucceeds(s) \/ CallFails(s)

Spec == Init /\ [][Next]_vars

-----------------------------------------------------------------------------

\* The code is asked for with the address it was mailed to, whatever dialogs were
\* closed with a request in flight, unless the field was edited or reset meanwhile.
CodeMatchesAddress ==
    showEmailModal /\ step = "verify" /\ ~typed => newEmail = sentTo

=============================================================================
