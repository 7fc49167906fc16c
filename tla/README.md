# Verification of the Gosso admin console

TLA+ models of `gosso-admin`: the React administration console
(`gosso-admin-frontend/src`) and the Go program that seeds its database
(`seed/main.go`).  Paths below are relative to the repository root; `FE` stands for
`gosso-admin-frontend/src`.  The Gosso server, PostgreSQL, the browser and the
packages `@gosso/client` and `@gouno/ui` are not in the repository.  They are
modelled by what the code here relies on and marked external.

## 1. The system

| Component | Source | State it keeps | Operations |
|---|---|---|---|
| Sudo Mode | `FE/components/auth/SudoContext.tsx` | `pendingAction`, two loading flags, `sudo_active_until` in the tab's sessionStorage | `requireSudo`, verify by TOTP or passkey, dismiss, `clearSudo`, reload |
| First-run seeder | `seed/main.go` | none of its own; rows in the Gosso database | wait for database and schema, one locked serializable transaction of four blocks, commit |
| User table | `FE/pages/system-management/UsersTab.tsx`, `FE/features/users/useAdminUsers.ts` | page, rows, total, loading, error, the confirmation dialog | turn page, reload, create, suspend/activate, unlock, reset MFA, delete |
| User dialogs | `UsersTab.tsx`, `users/AssignRolesModal.tsx`, `users/ResetPasswordModal.tsx`, `users/UserConsentsModal.tsx` | `selectedAccount`, three open flags, the consent list | assign and remove roles, reset a password, list and revoke consents |
| Client table | `FE/pages/system-management/ClientsTab.tsx`, `FE/features/clients/*` | clients, loading, the secret last shown | register, edit, rotate the secret, delete |
| Audit log | `AuditLogsTab.tsx`, `FE/features/audit/useAuditLogs.ts` | page, filters, logs, total, loading | search, clear, turn page, reload |
| Site settings | `SiteSettingsTab.tsx` | the loaded and the edited settings, saving | load, edit, save behind Sudo Mode |
| System status | `SystemStatusTab.tsx`, `FE/features/system/useSystemStatus.ts` | readiness, OIDC metadata, security policy, loading | refresh, by a button or by a change of language |
| Sign-in | `FE/pages/Login.tsx` | step, challenge, loading, error | password, MFA, passkey, step-up, account switch |
| Account settings | `FE/pages/account-settings/*` | one form or list per panel, over a hook of `@gosso/client` | display name, email change, password, MFA, passkeys, sessions |
| Password recovery | `FE/pages/ForgotPassword.tsx`, `ResetPassword.tsx` | form, loading, outcome | request, reset |
| Routing and guards | `FE/App.tsx`, `FE/config/appPaths.ts`, `FE/auth.ts`, `FE/pages/Callback.tsx` | the address, the browser's history, the return address the SDK stores | route, guard, redirect, sign in and come back, sign out |
| Deployment checks | `scripts/*.sh`, `scripts/*.mjs`, `.github/workflows/*` | files and environment | preflight, smoke, release compatibility, certification freshness |

Components interact in four ways.

* Pages call Sudo Mode with a closure; Sudo Mode runs it now, after a
  verification, or never.  The closure belongs to the render in which the
  button was clicked, not to the one in which it runs.
* Every page talks to the Gosso server through `FE/services/*`.  Requests of one
  page overlap, are answered in any order, and may fail; no page cancels or
  numbers its requests.
* `sessionStorage` outlives a reload of the tab; React state does not.  A page that
  is left loses its state, but not the requests it had sent, nor what Sudo Mode,
  which is mounted above the router, holds for it.
* The seeder and the server share a database; several seeders share an
  advisory lock, and the console edits what they write.

What is hard in this system is therefore ordering: late answers, stale closures,
dialogs that change owner while a request is under way, and transactions whose
snapshot is older than the lock they wait for.

What makes each part correct:

* Sudo Mode: an operation starts once per request, only under a recent strong
  authentication, never after it was called off; the dialog gives its buttons back.
* Seeder: all or nothing, idempotent, never two writers, always an end.
* Tables (users, clients, audit logs): they end up showing what the server has,
  and their operations do what was confirmed to whom it was confirmed for.
* Dialogs over one shared `selectedAccount`: what is shown, submitted and
  answered belongs to the same account.
* Site settings: defaults never overwrite stored settings, "saved" means stored.
* System status: each card shows its own answer or its own failure.
* Sign-in and account settings: the answer of one step never completes another; an
  address, a code or a factor is confirmed as it was requested; what was not read
  is not shown; one submission has one effect.
* Routing: a sign-in ends at the page that asked for it, redirects settle, and going
  back is possible, at the root and below a base path.

`PROJECT.json` lists every component with its status, and every hazard with the
line where it bites and the properties that watch it.

## 2. Modules

| Module | Models | Checked in |
|---|---|---|
| `SudoSpec` | what Sudo Mode promises to its callers (abstract) | as a property of `sudo_gate` |
| `SudoGate` | `SudoProvider` with its dialog, storage and clock | `MCSudoGate` |
| `SudoGateProofs` | theorems about `SudoGate` | TLAPS |
| `SeedSpec` | what a run of the seeder promises (abstract) | as a property of `seeder` |
| `Seeder` | `main` of the seeder, several processes | `MCSeeder` |
| `SeederProofs` | theorems about `Seeder` | TLAPS |
| `UserTable` | `useAdminUsers` and the table operations of `UsersTab` | `MCUserTable` |
| `PasswordReset` | `ResetPasswordModal`, `handleResetPassword` | `MCUserDialogs`; alone in `MCPasswordReset` |
| `RoleDialog` | `AssignRolesModal`, `handleAssignRole`, `handleRemoveRole` | `MCUserDialogs` |
| `UserDialogs` | `selectedAccount` of `UsersTab`: composes the two above | `MCUserDialogs` |
| `UserDialogProofs` | theorems about `UserDialogs` and the two dialogs | TLAPS |
| `UserConsents` | `UserConsentsModal`, `handleOpenConsentModal`, `handleRevokeConsent` | `MCManagementPages` |
| `ClientAdmin` | `ClientsTab`, `useClients`, the editor and the secret dialog | `MCManagementPages` |
| `AuditLogs` | `useAuditLogs`, `AuditLogsTab` | `MCManagementPages` |
| `SiteSettings` | `SiteSettingsTab` | `MCManagementPages` |
| `SystemStatus` | `useSystemStatus`, `SystemStatusTab` | `MCManagementPages` |
| `ManagementPages` | `SystemManagement`: composes the five above | `MCManagementPages` |
| `Login` | `Login`, `LoginSurface` | `MCLogin` |
| `EmailChange` | `EmailChangeModal` in `ProfilePanel` | `MCAccountSettings` |
| `MfaPanel` | `MFAPanel` | `MCAccountSettings` |
| `PasskeysPanel` | `PasskeysPanel` | `MCAccountSettings` |
| `SessionsPanel` | `SessionsPanel` | `MCAccountSettings` |
| `AccountSettings` | `AccountSettings`: composes the four above | `MCAccountSettings` |
| `Routing` | `App`, `appPaths`, `auth`, `Callback`, the redirects of the pages | `MCRouting` |
| `UserTableProofs`, `LoginProofs`, `RoutingProofs` | theorems about the modules of those names | TLAPS |
| `ManagementProofs`, `AccountProofs` | theorems about `ManagementPages` and `AccountSettings` and what they compose | TLAPS |

Each module models one component against its environment: the server, the user
and, where an operation is protected, Sudo Mode as a set `waiting` of operations
that may run later or never.  `SudoGate` shows that this is what Sudo Mode does
to a caller (`SudoSpec`: an operation that was asked for starts at most once, at
any later time, or never).  `waiting` may hold several operations: one that the
dialog shows and others whose dialog was dismissed during their verification.
Resets that are equal in account and password are one element of `waiting` and of the
requests, which no property tells from two.  The account panels keep such operations
in their `tasks`: at the stage `"asked"` with the dialog open, at `"verifying"` once it
was dismissed during a verification that may still run them.
`RoleDialog` sees the reload of the table as one step; `UserTable` models it.

### Conventions

* A step is one stretch of JavaScript between two awaits, or one statement of the
  seeder.  A request is sent in one step, carried out or answered by the server
  in another (external), and handled when its await returns in a third.  A
  failure may come before or after the server has carried it out.
* Variables bear the names of the code's state.  Those below `history` are not in
  the code; they record what a property has to remember.
* `Faulty variant` definitions are not part of a specification: each is a bug of
  a kind this code could have, and shows that a property would notice it.
* A `Button` of `@gouno/ui` that is disabled or loading cannot be pressed, and then
  neither can its form be submitted; a dialog without such a guard on `onOpenChange`
  can be dismissed at any time, and covers the page below it while it is open.
* Messages, translations, layout and the content of rows are left out. An account,
  role, client, password or filter is a model value.

### SudoGate

`sudoUntil` is `sudo_active_until`; `flight[m]` is the handler behind each of the
two buttons with the `pendingAction` its closure captured; `running` holds the
operations whose `onSuccess` is awaited.  `RequireSudo`, `Submit`,
`VerificationSucceeds`, `VerificationFails`, `HandleClose` and `Reload` are the
functions of those names or the events that end them; `ServerAccepts` and `Tick`
are external.  `ActionRefused` is the one caller that asks again from inside its
operation, registering a passkey.  `StorageMayFail` lets every access to
`sessionStorage` throw: a verification is not stored, the window cannot be read and
`RequireSudo` asks again, or it cannot be cleared.

### Seeder

One `pc` per process: `connect` and `schema` are the two retry loops, `begin` and
`lock` the transaction up to the advisory lock, then one step per block and
`commit`.  `Rollback` covers `log.Fatalf` and a kill at any point; the server
rolls back when the connection is lost.  PostgreSQL is what the code relies on: a
serializable transaction reads the snapshot of its first statement, which is the
one that waits for the lock; a write that meets a row committed later fails.
`Edit` is an administrator changing the rows in the console.

`SeedSpec` knows neither lock, snapshot nor transaction.  A run takes effect in one
step, `Seed`, or in none.  It leaves each row as it would have it, except where others
changed the row while it ran; of those it writes only rows that are absent.  `Runs` maps
the places of a process to what a caller can tell: waiting, running, done, failed, or
lost, when COMMIT succeeded and its answer did not arrive.

### The compositions

`SystemManagement` mounts one section at a time and `AccountSettings` one tab.
`ManagementPages` and `AccountSettings` instantiate their modules under disjoint
variables.  Sections share no state, so a behaviour follows one of them through its
visits: the `Remount` of each module is leaving it and entering it again.  It sets
the component's state anew and keeps, marked as left or in `waiting`, what can still
have an effect: a write that was sent, an operation that Sudo Mode holds, a callback
of a component that is mounted still.  Reads that were left have no effect and are
dropped.

The dialogs of the user table are not apart: opening any of them sets the one
`selectedAccount`.  In `UserDialogs` an opening is a step of both modules, the other
one's being `OpenOtherModal`; every other step is a step of one dialog, and may be
that of a request it sent, or that Sudo Mode held for it, for an account which is no
longer selected.

### UserTable

`refresh` runs up to its await and occupies a slot of `Reads`; `AnswerRead` fills
it and `ReadSucceeds` or `ReadFails` handles it.  `Confirm` is
`confirmPendingAction` with the operation it dispatches to; deleting and
resetting MFA go through Sudo Mode.  `WriteSucceeds` reloads the page of the
render in which the handler was created, not the page shown by then.

### PasswordReset, RoleDialog, UserConsents

The three dialogs share `selectedAccount`: `UserDialogs` has the password and the role
dialog with it, and the opening of the consents.  What the consents show does not depend
on the other two, whose openings only select an account; `UserConsents` is checked apart,
among the sections.  `PasswordReset` models what
`requireSudo` returning early does to `handleSubmit`: `Submit` either sends a
request that it awaits or leaves a reset in `waiting` and shows the success.
`UserConsents` has one `calls` slot per request, of kind open, revoke or reload.
In `RoleDialog` a slot of `running` is one `onSuccess`, which changes a role and
then reads the account's roles; `Succeeds` writes them onto the selected account.

### ClientAdmin

`calls` holds list loads and operations alike.  `editor` stands for
`showClientModal`, `editingClient` and `is_confidential` of the form; `details`
for `newClientDetails` and `showSecretModal`, which are set and cleared together.
Secrets are numbered in the order in which the server issues them; a client id is
not used again.

### AuditLogs, SiteSettings, SystemStatus

In `AuditLogs` both filter inputs are one value and a page of entries is its
length; `LanguageChanges` is the effect that runs again when `t` changes.
`SiteSettings` keeps the whole form as a function of its fields; `Submit` keeps
the settings of its render for the time when Sudo Mode lets them be sent.  The server's
answers are complete, so `mergeSiteSettings` adds nothing to them.  `held` records what
the server has held since the form was read.
A slot of `refreshes` in `SystemStatus` is one `Promise.allSettled`: the outcome of
each of its three reads, of which `Settle` takes all when the last has ended.

### Login

`handlers` is what the form and the passkey button await, with the kind of request
that the isSudoMode of the click chose.  `session` is what `useSession` knows,
`cookie` the browser's session on the server; another tab, or an answer that is
lost, lets them differ.  The three flags of the address are chosen by `Init`.  The
user knows the factors of every account, which is more than a user can do.

### EmailChange, MfaPanel, PasskeysPanel, SessionsPanel

The dialog of `EmailChange` is mounted while it is open, so its state is lost when
it is closed, but `onClose` and `onProfileUpdated` belong to `ProfilePanel`: a late
confirmation closes whichever dialog is open (`ConfirmSucceeds`), and when the panel
was mounted anew it changes the profile, on which the effect of the dialog starts
over (`LeftConfirmSucceeds`).  A code is the address it was mailed to.

The other three panels have a hook of `@gosso/client` each, external, with one
loading flag and one error for all its operations; `Begin` and `End` are what it
does to them.  `Resolve` is the panels' effect on `hasResolvedInitialLoad`, which
decides between a skeleton, an error and the content.  Operations are
carried out by the server in `Serve` and handled in `Succeed` or `Fail`; `Fail` may
come after `Serve`, when the answer is lost.  In `PasskeysPanel`, `strong` is the
server's notion of a recent authentication and `active` the page's; they end
independently (`AuthenticationAges`, `WindowEnds`), and `RegisterRefused` is the catch
clause that asks for the registration again.  The dialog of Sudo Mode is open for one
operation: asking for another replaces it, and a verification that succeeds closes it,
whatever it is open for.

### Routing

A path is the sequence of its segments, with the base path in front wherever the
browser, the server or the SDK hold it.  `Render` is one step of React Router for the
entry the browser is at: a guard, a redirect, the callback, or a page that is shown.
The user acts on pages that are shown: follows their links, opens an address, goes
back and forward, signs in and out.  The server sends the browser back with a code,
or asks for a sign-in.  The SDK stores one return address and exchanges one code.

## 3. What the runs show

One run per component, or per composition, checks its safety and, where what is
begun must end, its liveness under the component's fairness on the same instance.

| Run | Instance | Result |
|---|---|---|
| `sudo_gate` | 2 operations asked for twice, window of 2 in a clock of 8 | `RunsAtMostAsked`, `RunsOnlyUnderStepUp`, `CancelledStaysOff`, `DialogUnlocks`; `SudoGate` implements `SudoSpec` |
| `seeder` | 3 seeders, one misconfigured, 2 tries, 1 edit | `LockExcludes`, `StaleSnapshotNeverCommits`, `NoHalfSeed`, `EveryRunEnds`; `Seeder` implements `SeedSpec` |
| `user_table` | 3 accounts on pages of 1, 2 reads, 2 writes or 1 and a foreign change | `SelfUntouched`, `TableIsCurrent`, `OnlyConfirmedChanges` |
| `user_dialogs` | own and another account; 2 passwords, 2 roles; 3 submits, or 2 operations, or one of each | `RightAccount`, `OneAwaited`, `ModalUnlocks`; `ShownIsCurrent`, `OnlyAskedChanges`, `OwnRolesKept`, `AssigningEnds`; each with the other dialog in between |
| `management_pages` | 2 slots; own and another account; 2 clients, 2 operations on them; 2 filters with up to 2 entries on pages of 1; 2 fields of 2 values; a good and a bad readiness | `ShownSecretWorks`, `OnlyAskedChanges`; `ListIsCurrent`; `PageIsOfShown`, `ShownMatchesFilter`; `SavedIsStored`, `OnlyReadIsSaved`; `StatusIsCurrent`, `LoadingIsAwaited`; each across visits |
| `login` | 2 accounts, one with MFA, 3 handlers, 1 sign-in elsewhere | `SudoKeepsSession`, `ReturnsStrong`, `ChallengeIsTyped` |
| `account_settings` | 2 slots, 2 addresses, 3 issues of backup codes, 2 credentials, 3 sessions | `CodeMatchesAddress`, `NothingUnreadIsShown`, `ShownCodesWork`, `RegistersOnce`, `RegistrationSettles`, each across visits |
| `routing` | the root and `/identity-admin`; 1 tab, 2 sections and an unknown one; 3 history entries | `ArrivesWhereAsked`, `RedirectsSettle`, `BackIsNotUndone` |

Several properties hold "unless something overlapped".  That is what the code
achieves: nothing orders the answers of overlapping requests, so a table or a
list that was disturbed may stay out of date until the next reload.  The history
variables `raced`, `undisturbed`, `direct`, `smooth`, `blurred`, `calm` and `typed` say
exactly which disturbances are excused; everything else must leave the truth on screen.

Some of the properties need a word more.  `SelfUntouched` is about the account and about
every confirmation dialog and write on its way to it.  `PageIsOfShown` has no excuse: page
number, total and rows are those of one answer.  `SavedIsStored` has two parts.  Without
any excuse, a form that says "All changes saved" holds settings that the server held since
they were read; the mutant that takes the answer of an earlier form breaks it.  That the
server holds them still is said when the form's own saves are over and `smooth` is true:
none of them overlapped or failed, and after this form was read nothing was stored for
anybody else, an earlier form of the same section included.  `BackIsNotUndone` is about
both indexes, an unknown tab and an unknown section, not about a section that sends home
whoever is not an administrator: whether it redirects depends on who is signed in.

**Bounds.**  Two is enough to overlap: two requests in flight, two operations,
two accounts of which one is the administrator's.  A third account or page is
added where paging is the point.  Three submits let one reset wait in Sudo Mode
while another is awaited.  `MaxMixed` bounds the submits and operations of the two
dialogs together where both occur: one of each overlap.  Three issues of backup codes are an activation and two
renewals.  Three entries of history let a redirect stand between two pages.  The clock of `sudo_gate` is four windows long, so
that a window opens, is used, is outlived and opens again.  Every bound is a
constant named in its module.  Symmetry is used only for the slots of
`UserTable`, whose run checks no liveness.  `MCInit` of the two compositions leaves
out initial states that only name the slots differently, or differ in a section
that the behaviour does not follow; in `MCManagementPages` also initial states of
the server, which another administrator or user reaches before the first answer.  `MCInit` of
`MCUserDialogs` lets accounts start with no role or with all; the own has none, as
no operation is asked for it.
Deadlock is checked except in `seeder` and `seeder_overlap`, whose processes end, in
`login`, whose page is left, and in `account_settings`, where the user may sign out.

**Fairness.**  `FairSpec` assumes that a request that was sent is answered or
fails and that its handler then runs (the gateway ends it after
`proxy_read_timeout 30s`, `nginx-gateway.production.conf:8`), and that a timer
fires.  `Seeder` assumes that a started process runs on, and strong fairness of
`AcquireLock`: the advisory lock is granted in the order of the requests, and a
request can be disabled again and again while others hold it.  `account_settings`
assumes only that what was sent for the passkeys is served and handled, or refused,
in the end (`PasskeysAnswer`), `user_dialogs` only that what a dialog awaits is
(`AwaitedReset`, `AwaitedRole`) and that the timer fires, and `routing` only that React renders (`Render`).  Nothing is
assumed of the user, the clock or other administrators.

## 4. What the code does not do

Each of these runs checks one statement of the repository and finds it violated.

| Run | Statement | What happens |
|---|---|---|
| `seeder_overlap` | idempotent creation under the lock (`docs/BOOTSTRAP.md:5-8`) | a seeder that waited for the lock has an older snapshot and fails |
| `password_reset_early` | "Password updated successfully..." (`en.json:338`) | shown as soon as Sudo Mode has asked, before or without a reset |
| `routing_switch` | "Preserve redirect and query parameters when switching accounts on logout" (`CHANGELOG.md:152`) | below a base path, `Login.tsx:171` adds the base and `auth.ts:32-34` adds it again: the login page is not reached |

The models also contain these behaviours, which are why some properties above are
weaker than one would wish.  They have no run of their own.

* "canceling modal does not execute the action" (`SudoContext.test.tsx:132`) is
  true of an idle dialog (`CancelledStaysOff`); one that is dismissed during its
  verification still runs its operation when the answer arrives
  (`SudoContext.tsx:93`).
* The grace period is called "aligned with backend strong-auth TTL"
  (`CHANGELOG.md:157`); the page stamps the answer and the server its acceptance,
  so the page's window ends later (`SudoContext.tsx:69`).  `GraceBounded` holds.
* A password and a passkey can be tried at once (`LoginSurface.tsx:245`); which
  session the browser is sent back with is then open, which is why `ReturnsStrong`
  excuses it.
* "Empty: only after a successful read proves there is no content"
  (`docs/LOADING_OWNERSHIP.md:58`): deleting the last row of the last page shows
  "No User Accounts" and hides the pagination (`UsersTab.tsx:343`), and a failed
  load of consents shows "No authorized applications" (`UsersTab.tsx:234`).
* A late answer lists one account's roles under another's name
  (`UsersTab.tsx:180`).
* The closing timer of one reset closes the dialog that was reopened for another account
  meanwhile (`ResetPasswordModal.tsx:30`), and a dialog that is dismissed and reopened
  still holds the password that was typed for the other account
  (`ResetPasswordModal.tsx:15`).  `RightAccount` says where a submitted one goes.
* Overlapping searches are answered in any order, so the rows may be those of earlier
  filters than the ones on display (`useAuditLogs.ts:37`); `ShownMatchesFilter` excuses
  it, `PageIsOfShown` does not need to.
* Of two rotations of one client at a time, the older secret may be shown last
  (`ClientsTab.tsx:154`); `ShownSecretWorks` excuses it (`blurred`).
* A secret issued while another is on display replaces it (`ClientsTab.tsx:154`),
  though it "will NOT be displayed again" (`en.json:262`).
* The client editor can be submitted twice (`ClientEditorModal.tsx:52`), against
  "loading or disabled state for mutations" (`APP_RULES.md:111`).
* An edit made while the site settings are being saved is dropped
  (`SiteSettingsTab.tsx:73`), and "All changes saved" is shown.  A save whose form was
  left may be stored after the next form has read the settings, which then says the same
  of settings the server no longer holds.
* The address of the email change can be edited while its code is being requested;
  the code is then confirmed for the address in the field, to which none was mailed
  (`EmailChangeModal.tsx:47`), which `CodeMatchesAddress` excuses (`typed`).
* A confirmation that answers late closes an email dialog that was opened after it
  (`EmailChangeModal.tsx:49`).
* Backup codes that are renewed twice at a time are those of the answer handled last,
  which need not be the valid ones (`MFAPanel.tsx:87`); `ShownCodesWork` excuses it.
* A registration that is refused takes the place of another operation for which Sudo
  Mode was asking (`PasskeysPanel.tsx:70`).

## 5. What is proved

The theorems hold for every value of the constants allowed by the named
assumptions of the modules (`RequestsAssumption`, `TimeAssumption`,
`SeederAssumption`, `AccountsAssumption`, `DialogsAssumption`, `LoginAssumption`,
`ManagementAssumption`, `AccountAssumption`, `RoutingAssumption`): any number of
operations, seeders, accounts, clients, requests in flight, visits, base paths and
entries of history.  Each proof module has an inductive invariant, most often `IInv`,
the theorem that it holds (`Invariance`), `TypeCorrect` where types are not already a
part of it, and the theorems that follow.  Every invariant and every action property
that a run checks and finds to hold is stated by a theorem.

**SudoGate.**  `RunsAtMostAsked` is not inductive: a state could hold one call in
the dialog and the same call in a verification.  `IInv` adds what rules this
out.  A verification in progress has an operation (`FlightHasAction`), there is
only one (`OneVerification`), whatever can still start was asked for once more
than it was started (`OwedIsUnstarted`), nothing called off can still start
(`CancelledIsNotOwed`), and the page has handled no verification in the future
(`VerifiedInThePast`), which carries `GraceBounded` over a step of the clock.
From `Invariance` follow the safety theorems, the two action properties
(`StartsUnderStepUp`, `CancellingWorks`) and `Implementation`: initial states map
to initial states of `SudoSpec`, and every step to one of its steps or a stutter.

**Seeder.**  `IInv` ties each process's snapshot to the database: rows that
nobody committed since (`missed`) are in the snapshot as in the database, blocks
that were passed are in their seeded state (`Progress`), and an overtaken
transaction has missed the client row (`Overtaking`), which is the one that every
run writes; so it cannot commit.  `LockIsExclusive`, `OvertakenFails`,
`AllOrNothing`, `CommitsAreComplete` and `TypeCorrect` follow from `Invariance`.
`Implementation` shows that `Seeder` implements `SeedSpec`.  COMMIT is the step that maps
to `Seed`; that it overwrites nothing needs one invariant more, `NothingLost`: what a
transaction has written although others changed it was absent, because an UPDATE would
have clashed, and no one can have put it back, because the lock keeps other seeders and
the row lock keeps operators away.  `EachRunAdvances` is the safety part of
`EveryRunEnds`: `StepsLeft` decreases with each step of a run and with no step of others
does it grow.

**UserTable.**  An operation is for the row that was confirmed, and rows come and go
while it waits.  `IInv` follows it from the dialog to the server: no dialog and no write is for the own account
(`NotForSelf`), so that the account stays active (`SelfActive`), and what is held by Sudo
Mode or in flight carries what was offered (`CarriesOffer`).  `KeepsSelf` and
`ChangesWhatWasConfirmed` follow.  `ShowsCurrentTable` needs a second invariant over the
first, `Settles`: as long as nothing raced, there is at most one read and it is of the
page in view; unless a write that the server carried out is still to be handled, and
will read the table again, every answer that is on its way is what the server has, and
so is the page once no read is left.

**UserDialogs.**  `EachDialogAlone`: whatever is done in both dialogs, each sees a
behaviour of its own specification, in which the other one's openings are
`OpenOtherModal`.  So each has an invariant of its own.  `PasswordInv`: a reset that is
held was submitted for an account (`HeldWasSubmitted`), the dialog is open for one
(`PasswordOpenFor`), and the timer runs only after a success (`TimerNeedsSuccess`);
`ResetsTheRightAccount` and `AwaitsOneReset` follow.  `RoleInv`: what is held or in flight
was asked for in the dialog of its account (`HeldWasAsked`), and never in one's own
(`NotAskedForSelf`); `ChangesOnlyWhatWasAsked` and `KeepsOwnRoles` follow.
`ShowsCurrentRoles` needs to know of undisturbed operations that there is only one
(`OneAtATime`), and at each of its stages what it will show.

**Login.**  `ReturnsStrong` needs to know, of every handler in flight, which kind of
request it made and for whom (`LanesKeepKinds`, `PasswordIsTyped`), that a challenge
has an account (`ChallengeHasAccount`), that the page stays the one it was opened as
(`SudoLasts`, `LogoutIsSwitch`), that two handlers mean a race (`AloneUnlessRaced`), and
that what would convince the page comes from a strong session
(`ConvincingIsStrong`).  `ChallengesWhatWasTyped`, `StepUpKeepsSession` and
`LeavesStrong` follow.

**ManagementPages.**  Sections share no variable, so `IInv` is a conjunction of one
invariant per section, each kept by its own `Next` and, as its variables are
unchanged, by the steps of the others.  The central parts: for the clients, what is
held or in flight was asked for, and a client whose rotation was not disturbed has
the secret that is shown or about to be; for consents, audit logs and status, an
undisturbed request is the only one in flight and asks for what is selected, so that
its answer is the current one; for the site settings, the form has a baseline only
once it was read, what is held by Sudo Mode was read too, and what a load or a save
will put into the form was held by the server since the load was answered (`SiteHeld`).
One theorem per property of the run follows.

**AccountSettings.**  `IInv` is such a conjunction as well.  A request for a code that
the dialog awaits is the only one and carries the field's address, unless it was
edited (`EmailAwaited`); content is shown only when something was read (`MfaKnown`,
`KeysRead`, `SessionsRead`); with no disturbance the one operation in flight knows what
the server has (`MfaCalm`); and a registration that is still to be sent has made no
credential (`KeysMade`), which is why it is asked for again only when the server
refused it.  `ConfirmsMailedAddress`, `ShowsOnlyWhatWasRead`, `ShowsWorkingCodes` and
`RegistersOneCredential` follow.

**Routing.**  The lemmas are about paths: what `appPath` puts in front, the router and
`routerPath` take off again, for every base path (`BaseRoundTrip`); no two pages share a
path (`PathsDiffer`); a redirect leads where the address it replaces leads
(`WhereRedirectsLead`); a new entry follows the one the browser is at, also when the
oldest is dropped (`PushAppends`).  `IInv` says of the history that an address that
redirects is only followed by the login page or the callback, which is `BackIsNotUndone`
itself and, with the rest, inductive (`BackLeavesRedirects`); of a sign-in, that a code is fresh (`CodeIsFresh`),
that what the SDK stored is the address that asked (`StoredIsAsked`), and that between the
exchange and the first page the browser is always at an address which leads where that
one leads (`OnTheWay`), from which `ArrivesAtAsked` follows.  `RedirectsEnd` is the
safety part of `RedirectsSettle`: each redirect decreases `Distance`, so that at most
three follow each other.

Only model-checked is the liveness, which needs fairness and ENABLED, beyond the prover:
`DialogUnlocks`, `EveryRunEnds`, `ModalUnlocks`, `AssigningEnds`, `RegistrationSettles`
and `RedirectsSettle`.

## 6. Not modelled

* The server, PostgreSQL's internals, the browser and the packages `@gosso/client`
  (session refresh and its locks included) and `@gouno/ui`.
* In the seeder: hashing, the reading of secret files beyond "accepted or
  refused", deletion of the admin account by others.
* In the pages: the clipboard, pictures and their upload, the detail of an audit
  entry, branding, roles collected for the role picker.  `UserTable`,
  `UserDialogs` and `Login` end when their page is left: a write that
  was sent is then carried out for nobody to see, as when its answer is lost.
* Of the account settings, the display name and the password form: one request
  each, disabled while it is in flight, over a hook that is not in the repository.
* Password recovery: two forms of that kind.
* The scripts that check, deploy and certify: tests of strings, files and an
  environment, each run once, without state.
* The error boundary, whose way home ignores the base path (`ErrorBoundary.tsx:39`).
* Components with status `not_modelled` in `PROJECT.json`, each with its reason.

## 7. Plan

1. Done: the modules of section 2, one run per component or composition, and a theorem
   for every safety property of the runs.
2. What would add most: `SudoGate` in the place of `waiting` in one of the dialogs; and
   an abstract specification of a read-only view of server data ("shows an answer of
   the server no older than the latest undisturbed request"), implemented by
   `UserTable`, `UserConsents`, `AuditLogs` and `SystemStatus`, which now state that
   promise one by one.
3. Then measures for the liveness that has none yet, as for the runs of the seeder and
   the redirects, and the display name beside the email change in one profile, once it
   is known what the hook does with an answer that is older than another.
