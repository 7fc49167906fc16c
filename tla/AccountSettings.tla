-------------------------- MODULE AccountSettings --------------------------
(***************************************************************************)
(* The tabs of the account settings: AccountSettings mounts one panel at a *)
(* time.  Leaving a tab unmounts its panel, but does not take back what it *)
(* had sent, nor what Sudo Mode holds for it.                              *)
(*                                                                         *)
(* Composes EmailChange (of the profile), MfaPanel, PasskeysPanel and      *)
(* SessionsPanel, which share no state: a behaviour follows one tab        *)
(* through its visits, and its Remount is what happens between two of them.*)
(***************************************************************************)
EXTENDS Naturals, FiniteSets

CONSTANTS
    Slots, Free,                    \* of every tab
    Emails, NoEmail,                \* EmailChange
    MaxIssues,                      \* MfaPanel
    Ids, NoId,                      \* PasskeysPanel
    Sessions, Current, NoSession    \* SessionsPanel

VARIABLES
    activeTab,
    \* EmailChange
    mailed, profile, showEmailModal, newEmail, step, emailLoading, emailCalls, sentTo, typed,
    \* MfaPanel
    enabled, codes, issued, status, enrollment, backupCodes, mfaLoading, mfaError,
    mfaResolved, dialog, mfaTasks, mfaKnown, calm,
    \* PasskeysPanel
    keys, strong, sudoActive, passkeys, keysLoading, keysError, keysResolved,
    showPasskeyModal, named, pendingRemoval, keyTasks, keysKnown,
    \* SessionsPanel
    signedIn, sessions, sessionsLoading, sessionsError, sessionsResolved, pendingSessionId,
    signedOut, sessionTasks, sessionsKnown

Email == INSTANCE EmailChange WITH issued <- mailed, loading <- emailLoading, calls <- emailCalls

Mfa == INSTANCE MfaPanel WITH
    loading <- mfaLoading, error <- mfaError, resolved <- mfaResolved, tasks <- mfaTasks,
    known <- mfaKnown

Passkeys == INSTANCE PasskeysPanel WITH
    active <- sudoActive, loading <- keysLoading, error <- keysError, resolved <- keysResolved,
    tasks <- keyTasks, known <- keysKnown

Devices == INSTANCE SessionsPanel WITH
    active <- signedIn, loading <- sessionsLoading, error <- sessionsError,
    resolved <- sessionsResolved, tasks <- sessionTasks, known <- sessionsKnown

ASSUME AccountAssumption ==
    /\ Email!EmailAssumption
    /\ Mfa!MfaAssumption
    /\ Passkeys!PasskeysAssumption
    /\ Devices!SessionsAssumption

emailVars == <<mailed, profile, showEmailModal, newEmail, step, emailLoading, emailCalls,
               sentTo, typed>>
mfaVars == <<enabled, codes, issued, status, enrollment, backupCodes, mfaLoading, mfaError,
             mfaResolved, dialog, mfaTasks, mfaKnown, calm>>
passkeysVars == <<keys, strong, sudoActive, passkeys, keysLoading, keysError, keysResolved,
                  showPasskeyModal, named, pendingRemoval, keyTasks, keysKnown>>
devicesVars == <<signedIn, sessions, sessionsLoading, sessionsError, sessionsResolved,
                 pendingSessionId, signedOut, sessionTasks, sessionsKnown>>
vars == <<activeTab, emailVars, mfaVars, passkeysVars, devicesVars>>

\* The tab "password" is not modelled.
Tabs == {"profile", "mfa", "passkeys", "sessions"}

TypeOK ==
    /\ activeTab \in Tabs
    /\ Email!TypeOK
    /\ Mfa!TypeOK
    /\ Passkeys!TypeOK
    /\ Devices!TypeOK

Init ==
    /\ activeTab \in Tabs
    /\ Email!Init
    /\ Mfa!Init
    /\ Passkeys!Init
    /\ Devices!Init

-----------------------------------------------------------------------------

ProfileStep ==
    /\ activeTab = "profile"
    /\ Email!Next
    /\ UNCHANGED <<activeTab, mfaVars, passkeysVars, devicesVars>>

MfaStep ==
    /\ activeTab = "mfa"
    /\ Mfa!Next
    /\ UNCHANGED <<activeTab, emailVars, passkeysVars, devicesVars>>

PasskeysStep ==
    /\ activeTab = "passkeys"
    /\ Passkeys!Next
    /\ UNCHANGED <<activeTab, emailVars, mfaVars, devicesVars>>

SessionsStep ==
    /\ activeTab = "sessions"
    /\ Devices!Next
    /\ UNCHANGED <<activeTab, emailVars, mfaVars, passkeysVars>>

Next == ProfileStep \/ MfaStep \/ PasskeysStep \/ SessionsStep

Spec == Init /\ [][Next]_vars

\* The server answers every request of the passkeys that does not fail.
PasskeysAnswer(s) ==
    /\ activeTab = "passkeys"
    /\ Passkeys!Answer(s)
    /\ UNCHANGED <<activeTab, emailVars, mfaVars, devicesVars>>

Fairness == \A s \in Slots : WF_vars(PasskeysAnswer(s))

FairSpec == Spec /\ Fairness

-----------------------------------------------------------------------------

\* The code is confirmed for the address it was mailed to.
CodeMatchesAddress == Email!CodeMatchesAddress

\* No panel shows the SDK's defaults (two-factor disabled, no passkeys, no sessions)
\* for what was not read, however its first request and the repeated ones end.
NothingUnreadIsShown == Mfa!StatusIsKnown /\ Passkeys!ListIsKnown /\ Devices!SessionsAreKnown

\* The backup codes shown are the ones that work.
ShownCodesWork == Mfa!ShownCodesWork

\* One submission registers one credential.
RegistersOnce == Passkeys!RegistersOnce

\* A registration that is refused is not sent again for ever.
RegistrationSettles == Passkeys!RegistrationSettles

=============================================================================
