------------------------------- MODULE Login -------------------------------
(***************************************************************************)
(* Signing in: Login and LoginSurface.  The page offers a password form,   *)
(* followed by a code where the account has MFA, and a passkey button; for *)
(* reason=mfa and a session that fits the login_hint it offers Sudo Mode   *)
(* instead, which strengthens that session.                                *)
(*                                                                         *)
(* The form and the passkey button have a flag each and do not disable     *)
(* each other, so two sign-ins may be under way.  A handler keeps the      *)
(* isSudoMode of the render in which it was started.                       *)
(***************************************************************************)
EXTENDS Naturals

CONSTANTS
    Accounts,      \* account ids; the user may know the factors of all
    NoAccount,
    MfaAccounts,   \* those whose password alone does not sign in
    Free,          \* no handler
    MaxTries,      \* bound: handlers started
    MaxForeign     \* bound: sign-ins in another tab

ASSUME LoginAssumption ==
    /\ MfaAccounts \subseteq Accounts
    /\ NoAccount \notin Accounts
    /\ MaxTries \in Nat /\ MaxForeign \in Nat

VARIABLES
    loginHint, requiresStrongAuth, hasAuthorizeRedirect,   \* the address
    cookie,        \* the browser's session on the server
    session,       \* whose session useSession knows of
    username,
    error,
    mfaRequired,
    mfaToken,      \* the account whose password the challenge stands for
    handlers,      \* what the form and the passkey button await
    loggingOut,    \* handleSwitchAccount awaits the server
    leaving,       \* where location.href was last sent
    \* history
    openedAs,      \* the account for which the page opened in Sudo Mode
    raced,         \* two requests were under way at a time
    switched, tries, foreign

address == <<loginHint, requiresStrongAuth, hasAuthorizeRedirect, openedAs>>
form == <<username, mfaRequired, mfaToken>>
vars == <<address, cookie, session, form, error, handlers, loggingOut, leaving,
          raced, switched, tries, foreign>>

\* `loading` and `passkeyLoading`.
Lanes == {"form", "passkey"}

\* A handler awaits an answer ("sent"), finds one ("accepted", or "challenged"
\* when a password needs a code), then awaits redirectToAuthorize ("redirect").
Handler == [kind : {"password", "code", "passkey", "stepUp"}, account : Accounts,
            phase : {"sent", "accepted", "challenged", "redirect"}]

TypeOK ==
    /\ {loginHint, session, username, mfaToken, openedAs} \subseteq Accounts \cup {NoAccount}
    /\ {requiresStrongAuth, hasAuthorizeRedirect, error, mfaRequired, loggingOut, raced,
        switched} \subseteq BOOLEAN
    /\ cookie \in [account : Accounts \cup {NoAccount}, strong : BOOLEAN]
    /\ handlers \in [Lanes -> Handler \cup {Free}]
    /\ leaving \in {"no", "return", "authorize", "login"}
    /\ tries \in 0..MaxTries
    /\ foreign \in 0..MaxForeign

-----------------------------------------------------------------------------

matchesHint == loginHint \in {NoAccount, session}
isSudoMode == requiresStrongAuth /\ session # NoAccount /\ matchesHint
isAccountMismatch == requiresStrongAuth /\ session # NoAccount /\ ~matchesHint

loading == handlers["form"] # Free
Pending == loggingOut \/ \E l \in Lanes : handlers[l] # Free

PasswordFormShown == ~isSudoMode /\ ~mfaRequired

\* The provider mounts the page when it knows the session; an effect copies the
\* hint into the empty user name.
Init ==
    /\ loginHint \in Accounts \cup {NoAccount}
    /\ requiresStrongAuth \in BOOLEAN
    /\ hasAuthorizeRedirect \in BOOLEAN
    /\ cookie \in [account : Accounts \cup {NoAccount}, strong : {FALSE}]
    /\ session = cookie.account
    /\ username = loginHint
    /\ error = FALSE
    /\ mfaRequired = FALSE
    /\ mfaToken = NoAccount
    /\ handlers = [l \in Lanes |-> Free]
    /\ loggingOut = FALSE
    /\ leaving = "no"
    /\ openedAs = IF isSudoMode THEN session ELSE NoAccount
    /\ raced = FALSE
    /\ switched = FALSE
    /\ tries = 0
    /\ foreign = 0

\* Faulty variant: the input stays enabled while a sign-in is under way.
TypeWhileLoading(a) ==
    /\ PasswordFormShown
    /\ username' = a
    /\ UNCHANGED <<address, cookie, session, error, mfaRequired, mfaToken, handlers, loggingOut,
                   leaving, raced, switched, tries, foreign>>

\* The user name; what is typed as password or code is right or wrong later.
TypeUsername(a) ==
    /\ PasswordFormShown /\ ~loading
    /\ username' = a
    /\ UNCHANGED <<address, cookie, session, error, mfaRequired, mfaToken, handlers, loggingOut,
                   leaving, raced, switched, tries, foreign>>

\* A handler up to its await.
Begin(lane, kind, account) ==
    /\ handlers[lane] = Free
    /\ tries < MaxTries
    /\ tries' = tries + 1
    /\ handlers' = [handlers EXCEPT ![lane] =
                        [kind |-> kind, account |-> account, phase |-> "sent"]]
    /\ error' = FALSE
    /\ raced' = (raced \/ Pending)
    /\ UNCHANGED <<address, cookie, session, form, loggingOut, leaving, switched, foreign>>

handleLogin ==
    /\ PasswordFormShown
    /\ username # NoAccount
    /\ Begin("form", "password", username)

\* Sudo Mode has a code form too, for the account of the session.
handleMfaVerify ==
    \/ isSudoMode /\ Begin("form", "stepUp", session)
    \/ mfaRequired /\ ~isSudoMode /\ Begin("form", "code", mfaToken)

\* Faulty variant: the passkey always signs in.
PasskeyIgnoresSudo ==
    (isSudoMode \/ PasswordFormShown) /\ \E a \in Accounts : Begin("passkey", "passkey", a)

\* A passkey of any account signs in; a step-up is one of the session's account.
handlePasskeyLogin ==
    \/ isSudoMode /\ Begin("passkey", "stepUp", session)
    \/ PasswordFormShown /\ \E a \in Accounts : Begin("passkey", "passkey", a)

\* The early returns of both forms, for a field that is blank.
SubmitBlank ==
    /\ ~loading
    /\ error' = TRUE
    /\ UNCHANGED <<address, cookie, session, form, handlers, loggingOut, leaving, raced,
                   switched, tries, foreign>>

handleBackToLogin ==
    /\ mfaRequired /\ ~isSudoMode /\ ~loading
    /\ mfaRequired' = FALSE
    /\ error' = FALSE
    /\ UNCHANGED <<address, cookie, session, username, mfaToken, handlers, loggingOut, leaving,
                   raced, switched, tries, foreign>>

\* May be pressed again: loggingOut then stands for the last of them.
handleSwitchAccount ==
    /\ isSudoMode \/ (isAccountMismatch /\ ~mfaRequired)
    /\ ~loading
    /\ loggingOut' = TRUE
    /\ switched' = TRUE
    /\ raced' = (raced \/ Pending)
    /\ UNCHANGED <<address, cookie, session, form, error, handlers, leaving, tries, foreign>>

-----------------------------------------------------------------------------

\* External: the server takes the factors.  A step-up strengthens the session
\* the browser has by now, if the factor is one of its account.
Accept(l) ==
    /\ handlers[l] # Free /\ handlers[l].phase = "sent"
    /\ LET h == handlers[l]
           challenged == h.kind = "password" /\ h.account \in MfaAccounts
       IN  /\ h.kind = "stepUp" => cookie.account = h.account
           /\ handlers' = [handlers EXCEPT ![l].phase =
                               IF challenged THEN "challenged" ELSE "accepted"]
           /\ cookie' = IF challenged THEN cookie
                        ELSE [account |-> h.account, strong |-> h.kind # "password"]
    /\ UNCHANGED <<address, session, form, error, loggingOut, leaving, raced, switched, tries,
                   foreign>>

\* storeTokensAndRedirect in handler l, which is done or awaits the redirect.
storeTokensAndRedirect(l) ==
    IF hasAuthorizeRedirect
    THEN leaving' = "return" /\ handlers' = [handlers EXCEPT ![l] = Free]
    ELSE handlers' = [handlers EXCEPT ![l].phase = "redirect"] /\ UNCHANGED leaving

\* External: a sign-in loads the profile of the session; a step-up loads none.
Learn(l) == session' = IF handlers[l].kind = "stepUp" THEN session ELSE cookie.account

\* handleLogin: the password needs a code.
Challenged ==
    /\ loading /\ handlers["form"].phase = "challenged"
    /\ mfaRequired' = TRUE
    /\ mfaToken' = handlers["form"].account
    /\ handlers' = [handlers EXCEPT !["form"] = Free]
    /\ UNCHANGED <<address, cookie, session, username, error, loggingOut, leaving, raced,
                   switched, tries, foreign>>

\* Faulty variant: a password is as good as any other factor.
WeakIsEnough(l) ==
    /\ handlers[l] # Free /\ handlers[l].phase = "accepted"
    /\ Learn(l)
    /\ storeTokensAndRedirect(l) /\ UNCHANGED error
    /\ UNCHANGED <<address, cookie, form, loggingOut, raced, switched, tries, foreign>>

\* The await of a factor returns; a password does not do for reason=mfa.
Succeeds(l) ==
    /\ handlers[l] # Free /\ handlers[l].phase = "accepted"
    /\ Learn(l)
    /\ IF handlers[l].kind = "password" /\ requiresStrongAuth
       THEN error' = TRUE /\ handlers' = [handlers EXCEPT ![l] = Free] /\ UNCHANGED leaving
       ELSE storeTokensAndRedirect(l) /\ UNCHANGED error
    /\ UNCHANGED <<address, cookie, form, loggingOut, raced, switched, tries, foreign>>

\* redirectToAuthorize sends the browser away.
Redirected(l) ==
    /\ handlers[l] # Free /\ handlers[l].phase = "redirect"
    /\ leaving' = "authorize"
    /\ handlers' = [handlers EXCEPT ![l] = Free]
    /\ UNCHANGED <<address, cookie, session, form, error, loggingOut, raced, switched, tries,
                   foreign>>

\* Any await may throw: a factor is refused, an answer or the profile is lost
\* after the server accepted it, or the redirect fails.
Fails(l) ==
    /\ handlers[l] # Free
    /\ error' = TRUE
    /\ handlers' = [handlers EXCEPT ![l] = Free]
    /\ UNCHANGED <<address, cookie, session, form, loggingOut, leaving, raced, switched, tries,
                   foreign>>

\* External: the client logs out on the server and opens the page anew; or it
\* fails, which nothing handles.
LogoutEnds ==
    /\ loggingOut
    /\ loggingOut' = FALSE
    /\ \/ /\ cookie' = [account |-> NoAccount, strong |-> FALSE]
          /\ session' = NoAccount
          /\ leaving' = "login"
       \/ UNCHANGED <<cookie, session, leaving>>
    /\ UNCHANGED <<address, form, error, handlers, raced, switched, tries, foreign>>

\* External: another tab signs in or out, which this page does not notice.
OtherTab(a) ==
    /\ foreign < MaxForeign
    /\ foreign' = foreign + 1
    /\ cookie' = [account |-> a, strong |-> FALSE]
    /\ UNCHANGED <<address, session, form, error, handlers, loggingOut, leaving, raced, switched,
                   tries>>

Next ==
    \/ \E a \in Accounts \cup {NoAccount} : TypeUsername(a) \/ OtherTab(a)
    \/ handleLogin \/ handleMfaVerify \/ handlePasskeyLogin \/ SubmitBlank
    \/ handleBackToLogin \/ handleSwitchAccount
    \/ Challenged \/ LogoutEnds
    \/ \E l \in Lanes : Accept(l) \/ Succeeds(l) \/ Redirected(l) \/ Fails(l)

Spec == Init /\ [][Next]_vars

-----------------------------------------------------------------------------

\* CHANGELOG.md: step-up in Sudo Mode happens "without replacing existing
\* sessions".  However often its code and its passkey are tried at once, a page
\* that opened in Sudo Mode leaves the browser signed in as it was, until the
\* user switches accounts or signs in elsewhere.
SudoKeepsSession ==
    openedAs # NoAccount /\ ~switched /\ foreign = 0 => cookie.account = openedAs

\* When strong authentication was required, the browser is only sent back with a
\* session that has it, by whichever of the four ways it signed in, and although
\* earlier ways were tried and failed half-way - unless two were tried at once or
\* another tab signed in.
ReturnsStrong ==
    [][leaving' # leaving /\ leaving' \in {"return", "authorize"}
          /\ requiresStrongAuth /\ ~raced /\ foreign = 0 => cookie.strong]_vars

\* The code is asked for, and the token sent with it stands for, the account in
\* the user name, however passkeys were tried meanwhile and whichever account was
\* challenged before.
ChallengeIsTyped == mfaRequired => mfaToken = username

=============================================================================
