---------------------------- MODULE UserConsents ----------------------------
(***************************************************************************)
(* Reviewing and revoking the consents an account gave to clients:         *)
(* handleOpenConsentModal and handleRevokeConsent of UsersTab, and         *)
(* UserConsentsModal.                                                      *)
(*                                                                         *)
(* There is one list and one loading flag for all accounts, and the list   *)
(* is not cleared when the dialog opens for another account.  A load goes  *)
(* on when the dialog is closed, and writes the list of whatever account   *)
(* is shown by then.  The other dialogs of the page select an account too, *)
(* but while this one is closed, and opening it selects again.             *)
(***************************************************************************)
EXTENDS Naturals, FiniteSets

CONSTANTS
    Accounts,    \* account ids
    Self,        \* currentAdmin.sub
    NoAccount,
    Clients,     \* OAuth clients
    NoClient,
    Free,        \* a slot without a request
    Slots        \* bound: requests in flight

\* "open" and "reload" await fetchAccountConsents, "revoke" the revocation, "left"
\* that of a page which was unmounted.
Call == [kind : {"open", "reload", "revoke", "left"}, account : Accounts,
         client : Clients \cup {NoClient}, answered : BOOLEAN, answer : SUBSET Clients]

ConsentsAssumption ==
    /\ Self \in Accounts
    /\ NoAccount \notin Accounts
    /\ NoClient \notin Clients
    /\ Free \notin Call

VARIABLES
    granted,           \* the server's consents of each account
    selectedAccount,
    showConsentModal,
    consentsLoading,
    consentsList,
    calls,             \* what each slot awaits
    \* history
    undisturbed        \* the dialog was opened with nothing in flight, and
                       \* nothing overlapped, failed or changed elsewhere since

vars == <<granted, selectedAccount, showConsentModal, consentsLoading, consentsList,
          calls, undisturbed>>

Load(kind, a) ==
    [kind |-> kind, account |-> a, client |-> NoClient, answered |-> FALSE, answer |-> {}]

InFlight == {s \in Slots : calls[s] # Free}
Loads == {s \in InFlight : calls[s].kind \in {"open", "reload"}}
Revokes == {s \in InFlight : calls[s].kind = "revoke"}
Left == {s \in InFlight : calls[s].kind = "left"}

TypeOK ==
    /\ granted \in [Accounts -> SUBSET Clients]
    /\ selectedAccount \in Accounts \cup {NoAccount}
    /\ showConsentModal \in BOOLEAN
    /\ consentsLoading \in BOOLEAN
    /\ consentsList \subseteq Clients
    /\ calls \in [Slots -> Call \cup {Free}]
    /\ undisturbed \in BOOLEAN

Init ==
    /\ granted \in [Accounts -> SUBSET Clients]
    /\ selectedAccount = NoAccount
    /\ showConsentModal = FALSE
    /\ consentsLoading = FALSE
    /\ consentsList = {}
    /\ calls = [s \in Slots |-> Free]
    /\ undisturbed = FALSE

-----------------------------------------------------------------------------

\* handleOpenConsentModal, from the menu of a row.
OpenConsentModal(s, a) ==
    /\ ~showConsentModal
    /\ calls[s] = Free
    /\ selectedAccount' = a
    /\ showConsentModal' = TRUE
    /\ consentsLoading' = TRUE
    /\ calls' = [calls EXCEPT ![s] = Load("open", a)]
    /\ undisturbed' = (InFlight = {})
    /\ UNCHANGED <<granted, consentsList>>

CloseConsentModal ==
    /\ showConsentModal
    /\ showConsentModal' = FALSE
    /\ UNCHANGED <<granted, selectedAccount, consentsLoading, consentsList, calls,
                   undisturbed>>

\* The list shows its revoke buttons enabled.
CanRevoke ==
    /\ showConsentModal
    /\ ~consentsLoading
    /\ selectedAccount # Self

\* handleRevokeConsent.  Nothing disables the button of a revocation in flight.
RevokeConsent(s, c) ==
    /\ CanRevoke
    /\ c \in consentsList
    /\ calls[s] = Free
    /\ calls' = [calls EXCEPT ![s] = [Load("revoke", selectedAccount) EXCEPT !.client = c]]
    /\ undisturbed' = (undisturbed /\ InFlight = {})
    /\ UNCHANGED <<granted, selectedAccount, showConsentModal, consentsLoading, consentsList>>

\* External: the server answers a read, or carries out a revocation.
Answered(call) == [kind |-> call.kind, account |-> call.account, client |-> NoClient,
                   answered |-> TRUE, answer |-> granted[call.account]]

AnswerLoad(s) ==
    /\ s \in Loads /\ ~calls[s].answered
    /\ calls' = [calls EXCEPT ![s] = Answered(calls[s])]
    /\ UNCHANGED <<granted, selectedAccount, showConsentModal, consentsLoading, consentsList, undisturbed>>

ApplyRevocation(s) ==
    /\ s \in Revokes /\ ~calls[s].answered
    /\ granted' = [granted EXCEPT ![calls[s].account] = @ \ {calls[s].client}]
    /\ calls' = [calls EXCEPT ![s].answered = TRUE]
    /\ UNCHANGED <<selectedAccount, showConsentModal, consentsLoading, consentsList,
                   undisturbed>>

\* Only handleOpenConsentModal has a finally.
LoadingAfter(s) == consentsLoading /\ calls[s].kind # "open"

LoadSucceeds(s) ==
    /\ s \in Loads /\ calls[s].answered
    /\ consentsList' = calls[s].answer
    /\ consentsLoading' = LoadingAfter(s)
    /\ calls' = [calls EXCEPT ![s] = Free]
    /\ UNCHANGED <<granted, selectedAccount, showConsentModal, undisturbed>>

\* A message is shown, and the list stays what it was.
LoadFails(s) ==
    /\ s \in Loads
    /\ consentsLoading' = LoadingAfter(s)
    /\ calls' = [calls EXCEPT ![s] = Free]
    /\ undisturbed' = FALSE
    /\ UNCHANGED <<granted, selectedAccount, showConsentModal, consentsList>>

\* Faulty variant: the list is not loaded again.
RevocationOnlyReports(s) ==
    /\ s \in Revokes /\ calls[s].answered
    /\ calls' = [calls EXCEPT ![s] = Free]
    /\ UNCHANGED <<granted, selectedAccount, showConsentModal, consentsLoading, consentsList, undisturbed>>

RevocationSucceeds(s) ==
    /\ s \in Revokes /\ calls[s].answered
    /\ calls' = [calls EXCEPT ![s] = Load("reload", calls[s].account)]
    /\ UNCHANGED <<granted, selectedAccount, showConsentModal, consentsLoading, consentsList, undisturbed>>

RevocationFails(s) ==
    /\ s \in Revokes
    /\ calls' = [calls EXCEPT ![s] = Free]
    /\ undisturbed' = FALSE
    /\ UNCHANGED <<granted, selectedAccount, showConsentModal, consentsLoading, consentsList>>

\* External: a user gives or withdraws a consent.
ForeignChange(a, c) ==
    /\ granted' = [granted EXCEPT ![a] = IF c \in @ THEN @ \ {c} ELSE @ \cup {c}]
    /\ undisturbed' = FALSE
    /\ UNCHANGED <<selectedAccount, showConsentModal, consentsLoading, consentsList, calls>>

\* A revocation whose page is gone is carried out, or not, and shown to nobody.
LeftRevocationEnds(s) ==
    /\ s \in Left
    /\ \/ granted' = [granted EXCEPT ![calls[s].account] = @ \ {calls[s].client}]
       \/ UNCHANGED granted
    /\ calls' = [calls EXCEPT ![s] = Free]
    /\ UNCHANGED <<selectedAccount, showConsentModal, consentsLoading, consentsList, undisturbed>>

\* The section is left, and starts anew when it is entered again.
Remount ==
    /\ selectedAccount' = NoAccount
    /\ showConsentModal' = FALSE
    /\ consentsLoading' = FALSE
    /\ consentsList' = {}
    /\ calls' = [s \in Slots |-> IF s \in Revokes /\ ~calls[s].answered
                               THEN [calls[s] EXCEPT !.kind = "left"]
                               ELSE IF s \in Left THEN calls[s] ELSE Free]
    /\ undisturbed' = FALSE
    /\ UNCHANGED granted

Next ==
    \/ CloseConsentModal \/ Remount
    \/ \E s \in Slots :
           \/ \E a \in Accounts : OpenConsentModal(s, a)
           \/ \E c \in Clients : RevokeConsent(s, c)
           \/ AnswerLoad(s) \/ LoadSucceeds(s) \/ LoadFails(s)
           \/ ApplyRevocation(s) \/ RevocationSucceeds(s) \/ RevocationFails(s)
           \/ LeftRevocationEnds(s)
    \/ \E a \in Accounts, c \in Clients : ForeignChange(a, c)

Spec == Init /\ [][Next]_vars

-----------------------------------------------------------------------------

\* While nothing overlaps, the dialog shows the consents of the account it
\* names, and revoking brings the list up to date.  A revocation that an earlier
\* visit left in flight counts as overlapping.
ListIsCurrent ==
    showConsentModal /\ ~consentsLoading /\ undisturbed /\ InFlight = {}
        => consentsList = granted[selectedAccount]

=============================================================================
