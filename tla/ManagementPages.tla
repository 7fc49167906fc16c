-------------------------- MODULE ManagementPages --------------------------
(***************************************************************************)
(* The sections of the system management page: SystemManagement mounts one *)
(* at a time.  Leaving a section unmounts it, and its state is lost, but   *)
(* not what it had sent, nor what Sudo Mode, which is above the router,    *)
(* holds for it: those may end after the section was entered again.        *)
(*                                                                         *)
(* Composes ClientAdmin, UserConsents (a dialog of the section users),     *)
(* AuditLogs, SiteSettings and SystemStatus.  Sections share no state, so  *)
(* a behaviour follows one of them through its visits: what happens        *)
(* between two visits is what its Remount leaves in flight.                *)
(***************************************************************************)
EXTENDS Naturals, FiniteSets

CONSTANTS
    Slots, Free,                                     \* of every section
    Clients, None, MaxOps,                           \* ClientAdmin
    Accounts, Self, NoAccount, NoClient,             \* UserConsents
    Filters, NoFilter, PageSize, MaxLogs,            \* AuditLogs
    Fields, Values, Default, Null,                   \* SiteSettings
    Readiness, Healthy, Deployed, Unavailable, Pending, Failed   \* SystemStatus

VARIABLES
    section,
    \* ClientAdmin
    kind, secret, issued, rows, clientsLoading, clientsError, clientsResolved, editor,
    pendingAction, waiting, clientCalls, details, asked, ops, blurred,
    \* UserConsents
    granted, selectedAccount, showConsentModal, consentsLoading, consentsList,
    consentCalls, undisturbed,
    \* AuditLogs
    entries, filter, logs, total, page, auditLoading, auditError, resolved,
    auditCalls, auditShown, auditDirect,
    \* SiteSettings
    stored, settings, baseline, settingsLoading, settingsError, saving, read, saves,
    loaded, held, smooth,
    \* SystemStatus
    ready, statusShown, statusLoading, refreshes, failed, statusDirect

ClientsPage == INSTANCE ClientAdmin WITH
    loading <- clientsLoading, error <- clientsError, resolved <- clientsResolved,
    calls <- clientCalls

Consents == INSTANCE UserConsents WITH calls <- consentCalls

Audit == INSTANCE AuditLogs WITH
    loading <- auditLoading, error <- auditError, calls <- auditCalls,
    shown <- auditShown, direct <- auditDirect

Site == INSTANCE SiteSettings WITH loading <- settingsLoading, error <- settingsError

Status == INSTANCE SystemStatus WITH
    shown <- statusShown, loading <- statusLoading, direct <- statusDirect

ASSUME ManagementAssumption ==
    /\ ClientsPage!ClientsAssumption
    /\ Consents!ConsentsAssumption
    /\ Audit!LogsAssumption
    /\ Site!SettingsAssumption
    /\ Status!StatusAssumption

clientVars == <<kind, secret, issued, rows, clientsLoading, clientsError, clientsResolved, editor,
                pendingAction, waiting, clientCalls, details, asked, ops, blurred>>
consentVars == <<granted, selectedAccount, showConsentModal, consentsLoading, consentsList,
                 consentCalls, undisturbed>>
auditVars == <<entries, filter, logs, total, page, auditLoading, auditError, resolved,
               auditCalls, auditShown, auditDirect>>
siteVars == <<stored, settings, baseline, settingsLoading, settingsError, saving, read, saves,
              loaded, held, smooth>>
statusVars == <<ready, statusShown, statusLoading, refreshes, failed, statusDirect>>
vars == <<section, clientVars, consentVars, auditVars, siteVars, statusVars>>

Sections == {"clients", "users", "audit-logs", "site-settings", "system"}

TypeOK ==
    /\ section \in Sections
    /\ ClientsPage!TypeOK
    /\ Consents!TypeOK
    /\ Audit!TypeOK
    /\ Site!TypeOK
    /\ Status!TypeOK

Init ==
    /\ section \in Sections
    /\ ClientsPage!Init
    /\ Consents!Init
    /\ Audit!Init
    /\ Site!Init
    /\ Status!Init

-----------------------------------------------------------------------------

ClientsStep ==
    /\ section = "clients"
    /\ ClientsPage!Next
    /\ UNCHANGED <<section, consentVars, auditVars, siteVars, statusVars>>

UsersStep ==
    /\ section = "users"
    /\ Consents!Next
    /\ UNCHANGED <<section, clientVars, auditVars, siteVars, statusVars>>

AuditStep ==
    /\ section = "audit-logs"
    /\ Audit!Next
    /\ UNCHANGED <<section, clientVars, consentVars, siteVars, statusVars>>

SiteStep ==
    /\ section = "site-settings"
    /\ Site!Next
    /\ UNCHANGED <<section, clientVars, consentVars, auditVars, statusVars>>

StatusStep ==
    /\ section = "system"
    /\ Status!Next
    /\ UNCHANGED <<section, clientVars, consentVars, auditVars, siteVars>>

Next == ClientsStep \/ UsersStep \/ AuditStep \/ SiteStep \/ StatusStep

Spec == Init /\ [][Next]_vars

-----------------------------------------------------------------------------

\* Whatever was visited before, and whatever it left in flight: a client changes
\* only as it was asked for, also by an operation that Sudo Mode held meanwhile.
OnlyAskedChanges == ClientsPage!OnlyAskedChanges

\* The secret shown is the one that works.
ShownSecretWorks == ClientsPage!ShownSecretWorks

\* The consents dialog shows the consents of the account it names.
ListIsCurrent == Consents!ListIsCurrent

\* The page number and the total are those of the entries shown.
PageIsOfShown == Audit!PageIsOfShown

\* The entries are those the filters ask for.
ShownMatchesFilter == Audit!ShownMatchesFilter

\* A form without changes holds what the server held since the form read it, in
\* every visit, and what it still holds when nothing was stored in between but a
\* save of the form itself: a save of an earlier visit that is stored after the
\* form read the settings outdates it, one that is stored before does not.
SavedIsStored == Site!SavedIsStored

\* Only settings that were read are saved.
OnlyReadIsSaved == Site!OnlyReadIsSaved

\* The status cards show what the latest refresh found.
StatusIsCurrent == Status!StatusIsCurrent

\* The status page does not load for ever.
LoadingIsAwaited == Status!LoadingIsAwaited

=============================================================================
