---------------------------- MODULE LoginProofs ----------------------------
(***************************************************************************)
(* Proofs about Login for every set of accounts, with any of them behind   *)
(* MFA, every number of handlers started and of sign-ins in other tabs.    *)
(***************************************************************************)
EXTENDS Login, TLAPS

\* The factor of a lane, and what may be challenged.
LanesKeepKinds ==
    \A l \in Lanes : handlers[l] # Free =>
        /\ handlers[l].kind = "password" => l = "form"
        /\ handlers[l].phase = "challenged" => handlers[l].kind = "password"

\* The user name cannot change while its password is under way.
PasswordIsTyped ==
    \A l \in Lanes :
        handlers[l] # Free /\ handlers[l].kind = "password" => handlers[l].account = username

\* A challenge stands for an account.
ChallengeHasAccount == mfaRequired => mfaToken \in Accounts

\* Only handleSwitchAccount logs out.
LogoutIsSwitch == loggingOut => switched

\* Until then a page that opened in Sudo Mode stays in it, and only steps up.
SudoLasts ==
    openedAs # NoAccount /\ ~switched =>
        /\ session = openedAs
        /\ isSudoMode
        /\ \A l \in Lanes : handlers[l] # Free => handlers[l].kind = "stepUp"

\* While no two requests were under way, none is beside another.
AloneUnlessRaced ==
    ~raced =>
        /\ \A l, k \in Lanes : handlers[l] # Free /\ handlers[k] # Free => l = k
        /\ loggingOut => \A l \in Lanes : handlers[l] = Free

\* What a handler that is to redirect needs, or one that only has to note the answer.
Convincing(h) ==
    \/ h.phase = "accepted" /\ h.kind # "password"
    \/ h.phase = "redirect" /\ requiresStrongAuth

\* The session it got is strong, and stays so as long as it is alone.
ConvincingIsStrong ==
    ~raced /\ foreign = 0 =>
        \A l \in Lanes : handlers[l] # Free /\ Convincing(handlers[l]) => cookie.strong

\* The inductive invariant.
IInv ==
    /\ TypeOK
    /\ LanesKeepKinds
    /\ PasswordIsTyped
    /\ ChallengeHasAccount
    /\ LogoutIsSwitch
    /\ SudoLasts
    /\ SudoKeepsSession
    /\ AloneUnlessRaced
    /\ ConvincingIsStrong
    /\ ChallengeIsTyped

-----------------------------------------------------------------------------

\* When the page opens no handler runs, and openedAs says whether it is Sudo Mode.
LEMMA InitIInv == Init => IInv
<1> SUFFICES ASSUME Init PROVE IInv
  OBVIOUS
<1> USE LoginAssumption DEF Init
<1>1. openedAs \in Accounts \cup {NoAccount} /\ session \in Accounts \cup {NoAccount}
  OBVIOUS
<1>2. TypeOK
  <2>1. {loginHint, session, username, mfaToken, openedAs} \subseteq Accounts \cup {NoAccount}
    BY <1>1
  <2>2. {requiresStrongAuth, hasAuthorizeRedirect, error, mfaRequired, loggingOut, raced, switched}
            \subseteq BOOLEAN
    OBVIOUS
  <2>3. cookie \in [account : Accounts \cup {NoAccount}, strong : BOOLEAN]
    OBVIOUS
  <2>4. /\ handlers \in [Lanes -> Handler \cup {Free}]
        /\ leaving \in {"no", "return", "authorize", "login"}
        /\ tries \in 0..MaxTries /\ foreign \in 0..MaxForeign
    OBVIOUS
  <2> QED
    BY <2>1, <2>2, <2>3, <2>4 DEF TypeOK
<1>3. \A l \in Lanes : handlers[l] = Free
  OBVIOUS
<1>4. openedAs # NoAccount => isSudoMode /\ session = openedAs /\ cookie.account = openedAs
  OBVIOUS
<1> QED
  BY <1>2, <1>3, <1>4
     DEF IInv, LanesKeepKinds, PasswordIsTyped, ChallengeHasAccount, LogoutIsSwitch, SudoLasts, SudoKeepsSession,
         AloneUnlessRaced, ConvincingIsStrong, ChallengeIsTyped

\* A handler that runs is one of the four kinds.
LEMMA HandlerType ==
  ASSUME TypeOK, NEW l \in Lanes, handlers[l] # Free
  PROVE  /\ handlers[l] \in Handler
         /\ handlers[l].account \in Accounts
         /\ handlers[l].kind \in {"password", "code", "passkey", "stepUp"}
  BY DEF TypeOK, Handler

-----------------------------------------------------------------------------
(* One lemma per action that starts, answers or ends a handler *)

\* A handler that begins is alone, or the race is noted; it convinces nobody yet.
LEMMA BeginStep ==
  ASSUME IInv, NEW l \in Lanes, NEW k \in {"password", "code", "passkey", "stepUp"},
         NEW a \in Accounts, Begin(l, k, a),
         k = "password" => l = "form" /\ a = username,
         isSudoMode => k = "stepUp"
  PROVE  IInv'
<1> DEFINE h == [kind |-> k, account |-> a, phase |-> "sent"]
<1>1. h \in Handler /\ h.kind = k /\ h.account = a /\ h.phase = "sent"
  BY DEF Handler
<1> HIDE DEF h
<1>2. handlers' = [handlers EXCEPT ![l] = h] /\ handlers[l] = Free
  BY DEF Begin, h
<1>3. handlers' \in [Lanes -> Handler \cup {Free}]
  BY <1>1, <1>2 DEF IInv, TypeOK
<1>4. handlers'[l] = h /\ \A m \in Lanes : m # l => handlers'[m] = handlers[m]
  BY <1>2 DEF IInv, TypeOK
<1>5. /\ tries' \in 0..MaxTries /\ error' = FALSE
      /\ raced' = (raced \/ Pending) /\ raced' \in BOOLEAN
      /\ UNCHANGED <<address, cookie, session, form, loggingOut, leaving, switched, foreign>>
  BY LoginAssumption DEF Begin, IInv, TypeOK, Pending
<1>6. TypeOK'
  BY <1>3, <1>5 DEF IInv, TypeOK, address, form
<1>7. LanesKeepKinds' /\ PasswordIsTyped'
  BY <1>1, <1>4, <1>5 DEF IInv, LanesKeepKinds, PasswordIsTyped, form
<1>8. LogoutIsSwitch' /\ ChallengeIsTyped' /\ ChallengeHasAccount' /\ SudoKeepsSession'
  BY <1>5 DEF IInv, LogoutIsSwitch, ChallengeHasAccount, ChallengeIsTyped, SudoKeepsSession, form, address
<1>9. SudoLasts'
  BY <1>1, <1>4, <1>5 DEF IInv, SudoLasts, isSudoMode, matchesHint, address
<1>10. AloneUnlessRaced'
  BY <1>4, <1>5 DEF AloneUnlessRaced, Pending
<1>11. ConvincingIsStrong'
  BY <1>1, <1>4, <1>5 DEF IInv, ConvincingIsStrong, Convincing, address
<1> QED
  BY <1>6, <1>7, <1>8, <1>9, <1>10, <1>11 DEF IInv

\* The server's answer makes the session that of the handler, and strong unless it
\* was a password.
LEMMA AcceptStep ==
  ASSUME IInv, NEW l \in Lanes, Accept(l)
  PROVE  IInv'
<1> DEFINE h == handlers[l]
           phase == IF h.kind = "password" /\ h.account \in MfaAccounts
                    THEN "challenged" ELSE "accepted"
<1>1. h # Free /\ h \in Handler /\ h.account \in Accounts
  BY HandlerType DEF Accept, IInv
<1>2. handlers' = [handlers EXCEPT ![l].phase = phase]
  BY DEF Accept
<1>3. [h EXCEPT !.phase = phase] \in Handler
  BY <1>1 DEF Handler
<1>4. /\ handlers'[l] = [h EXCEPT !.phase = phase]
      /\ handlers'[l].kind = h.kind /\ handlers'[l].account = h.account
      /\ handlers'[l].phase = phase
      /\ \A m \in Lanes : m # l => handlers'[m] = handlers[m]
      /\ handlers' \in [Lanes -> Handler \cup {Free}]
  BY <1>1, <1>2, <1>3 DEF IInv, TypeOK, Handler
<1>5. /\ cookie' = IF phase = "challenged" THEN cookie
                   ELSE [account |-> h.account, strong |-> h.kind # "password"]
      /\ h.kind = "stepUp" => cookie.account = h.account
      /\ UNCHANGED <<address, session, form, error, loggingOut, leaving, raced, switched, tries,
                     foreign>>
  BY DEF Accept
<1>6. cookie' \in [account : Accounts \cup {NoAccount}, strong : BOOLEAN]
  BY <1>1, <1>5 DEF IInv, TypeOK
<1> HIDE DEF h, phase
<1>7. TypeOK'
  BY <1>4, <1>5, <1>6 DEF IInv, TypeOK, address, form
<1>8. h.kind \in {"password", "code", "passkey", "stepUp"} /\ phase \in {"challenged", "accepted"}
      /\ (phase = "challenged" => h.kind = "password")
  BY <1>1 DEF Handler, phase
<1>9. LanesKeepKinds' /\ PasswordIsTyped'
  BY <1>1, <1>4, <1>5, <1>8 DEF IInv, LanesKeepKinds, PasswordIsTyped, form, h
<1>10. LogoutIsSwitch' /\ ChallengeIsTyped' /\ ChallengeHasAccount'
  BY <1>5 DEF IInv, LogoutIsSwitch, ChallengeHasAccount, ChallengeIsTyped, form
<1>11. SudoLasts'
  BY <1>1, <1>4, <1>5 DEF IInv, SudoLasts, isSudoMode, matchesHint, address, h
<1>12. SudoKeepsSession'
  <2> SUFFICES ASSUME openedAs # NoAccount, ~switched, foreign = 0
               PROVE  cookie'.account = openedAs
    BY <1>5 DEF SudoKeepsSession, address
  <2>1. h.kind = "stepUp" /\ cookie.account = openedAs
    BY <1>1 DEF IInv, SudoLasts, SudoKeepsSession, h
  <2> QED
    BY <2>1, <1>5, <1>8
<1>13. AloneUnlessRaced'
  BY <1>1, <1>4, <1>5 DEF IInv, AloneUnlessRaced, h
<1>14. ConvincingIsStrong'
  <2> SUFFICES ASSUME ~raced, foreign = 0, NEW m \in Lanes, handlers'[m] # Free,
                      Convincing(handlers[m])'
               PROVE  cookie'.strong
    BY <1>5 DEF ConvincingIsStrong
  <2>1. m = l
    BY <1>1, <1>4 DEF IInv, AloneUnlessRaced, h
  <2>2. phase = "accepted" /\ h.kind # "password"
    BY <2>1, <1>4, <1>8 DEF Convincing
  <2> QED
    BY <2>2, <1>5
<1> QED
  BY <1>7, <1>9, <1>10, <1>11, <1>12, <1>13, <1>14 DEF IInv

\* A handler that ends, or goes on to the redirect, leaves the session that
\* convinced it, and only what convinces goes on.
LEMMA SucceedsStep ==
  ASSUME IInv, NEW l \in Lanes, Succeeds(l)
  PROVE  IInv'
<1> DEFINE h == handlers[l]
<1>1. h # Free /\ h \in Handler /\ h.phase = "accepted"
  BY HandlerType DEF Succeeds, IInv
<1>2. \/ handlers' = [handlers EXCEPT ![l] = Free]
      \/ /\ handlers' = [handlers EXCEPT ![l].phase = "redirect"]
         /\ ~(h.kind = "password" /\ requiresStrongAuth)
  BY DEF Succeeds, storeTokensAndRedirect
<1>3. [h EXCEPT !.phase = "redirect"] \in Handler
  BY <1>1 DEF Handler
<1>4. /\ \A m \in Lanes : m # l => handlers'[m] = handlers[m]
      /\ handlers' \in [Lanes -> Handler \cup {Free}]
      /\ handlers'[l] # Free =>
            /\ handlers'[l].kind = h.kind /\ handlers'[l].account = h.account
            /\ handlers'[l].phase = "redirect"
            /\ ~(h.kind = "password" /\ requiresStrongAuth)
  BY <1>1, <1>2, <1>3 DEF IInv, TypeOK, Handler
<1>5. /\ session' = IF h.kind = "stepUp" THEN session ELSE cookie.account
      /\ leaving' \in {"no", "return", "authorize", "login"}
      /\ error' \in BOOLEAN
      /\ UNCHANGED <<address, cookie, form, loggingOut, raced, switched, tries, foreign>>
  BY DEF Succeeds, Learn, storeTokensAndRedirect, IInv, TypeOK
<1> HIDE DEF h
<1>6. TypeOK'
  BY <1>4, <1>5 DEF IInv, TypeOK, address, form
<1>7. LanesKeepKinds' /\ PasswordIsTyped'
  BY <1>1, <1>4, <1>5 DEF IInv, LanesKeepKinds, PasswordIsTyped, form, h
<1>8. LogoutIsSwitch' /\ ChallengeIsTyped' /\ ChallengeHasAccount' /\ SudoKeepsSession'
  BY <1>5 DEF IInv, LogoutIsSwitch, ChallengeHasAccount, ChallengeIsTyped, SudoKeepsSession, form, address
<1>9. SudoLasts'
  BY <1>1, <1>4, <1>5 DEF IInv, SudoLasts, isSudoMode, matchesHint, address, h
<1>10. AloneUnlessRaced'
  BY <1>1, <1>4, <1>5 DEF IInv, AloneUnlessRaced, h
<1>11. ConvincingIsStrong'
  BY <1>1, <1>4, <1>5 DEF IInv, ConvincingIsStrong, Convincing, address, h
<1> QED
  BY <1>6, <1>7, <1>8, <1>9, <1>10, <1>11 DEF IInv

\* A handler that ends without an answer, or with the redirect, only frees its lane.
LEMMA EndStep ==
  ASSUME IInv, NEW l \in Lanes, handlers' = [handlers EXCEPT ![l] = Free],
         leaving' \in {"no", "return", "authorize", "login"}, error' \in BOOLEAN,
         UNCHANGED <<address, cookie, session, username, loggingOut, raced, switched, tries, foreign>>,
         \/ UNCHANGED <<mfaRequired, mfaToken>>
         \/ mfaRequired' = TRUE /\ mfaToken' = username /\ username \in Accounts
  PROVE  IInv'
<1>1. /\ handlers'[l] = Free /\ \A m \in Lanes : m # l => handlers'[m] = handlers[m]
      /\ handlers' \in [Lanes -> Handler \cup {Free}]
  BY DEF IInv, TypeOK
<1>2. TypeOK'
  BY <1>1 DEF IInv, TypeOK, address
<1>3. LanesKeepKinds' /\ PasswordIsTyped' /\ ChallengeHasAccount' /\ LogoutIsSwitch'
        /\ ChallengeIsTyped'
  BY <1>1 DEF IInv, LanesKeepKinds, PasswordIsTyped, ChallengeHasAccount, LogoutIsSwitch, ChallengeIsTyped
<1>4. SudoLasts' /\ SudoKeepsSession'
  BY <1>1 DEF IInv, SudoLasts, SudoKeepsSession, isSudoMode, matchesHint, address
<1>5. AloneUnlessRaced' /\ ConvincingIsStrong'
  BY <1>1 DEF IInv, AloneUnlessRaced, ConvincingIsStrong, Convincing, address
<1> QED
  BY <1>2, <1>3, <1>4, <1>5 DEF IInv

\* Every step of the page keeps IInv.
LEMMA IInvStep == IInv /\ [Next]_vars => IInv'
<1> SUFFICES ASSUME IInv, [Next]_vars
             PROVE  IInv'
  OBVIOUS
<1>1. ASSUME NEW a \in Accounts \cup {NoAccount}, TypeUsername(a) PROVE IInv'
  <2>1. handlers["form"] = Free /\ ~mfaRequired /\ username' = a
        /\ UNCHANGED <<address, cookie, session, error, mfaRequired, mfaToken, handlers, loggingOut,
                       leaving, raced, switched, tries, foreign>>
    BY <1>1 DEF TypeUsername, PasswordFormShown, loading
  <2>2. TypeOK'
    BY <2>1 DEF IInv, TypeOK, address
  <2>3. LanesKeepKinds' /\ PasswordIsTyped' /\ ChallengeHasAccount' /\ LogoutIsSwitch'
        /\ ChallengeIsTyped'
    BY <2>1 DEF IInv, LanesKeepKinds, PasswordIsTyped, ChallengeHasAccount, LogoutIsSwitch, ChallengeIsTyped
  <2>4. SudoLasts' /\ SudoKeepsSession' /\ AloneUnlessRaced' /\ ConvincingIsStrong'
    BY <2>1 DEF IInv, SudoLasts, SudoKeepsSession, AloneUnlessRaced, ConvincingIsStrong, Convincing,
                isSudoMode, matchesHint, address
  <2> QED
    BY <2>2, <2>3, <2>4 DEF IInv
<1>2. ASSUME NEW a \in Accounts \cup {NoAccount}, OtherTab(a) PROVE IInv'
  <2>1. foreign' # 0 /\ foreign' \in 0..MaxForeign
        /\ cookie' = [account |-> a, strong |-> FALSE]
        /\ UNCHANGED <<address, session, form, error, handlers, loggingOut, leaving, raced, switched,
                       tries>>
    BY <1>2, LoginAssumption DEF OtherTab, IInv, TypeOK
  <2>2. TypeOK'
    BY <2>1 DEF IInv, TypeOK, address, form
  <2>3. LanesKeepKinds' /\ PasswordIsTyped' /\ ChallengeHasAccount' /\ LogoutIsSwitch'
        /\ ChallengeIsTyped'
    BY <2>1 DEF IInv, LanesKeepKinds, PasswordIsTyped, ChallengeHasAccount, LogoutIsSwitch, ChallengeIsTyped, form
  <2>4. SudoLasts' /\ SudoKeepsSession' /\ AloneUnlessRaced' /\ ConvincingIsStrong'
    BY <2>1 DEF IInv, SudoLasts, SudoKeepsSession, AloneUnlessRaced, ConvincingIsStrong,
                isSudoMode, matchesHint, address
  <2> QED
    BY <2>2, <2>3, <2>4 DEF IInv
<1>3. CASE handleLogin
  <2>1. username \in Accounts /\ ~isSudoMode /\ Begin("form", "password", username)
    BY <1>3 DEF handleLogin, PasswordFormShown, IInv, TypeOK
  <2> QED
    BY <2>1, BeginStep DEF Lanes
<1>4. CASE handleMfaVerify
  <2>1. CASE isSudoMode /\ Begin("form", "stepUp", session)
    <3>1. session \in Accounts
      BY <2>1 DEF isSudoMode, IInv, TypeOK
    <3> QED
      BY <2>1, <3>1, BeginStep DEF Lanes
  <2>2. CASE mfaRequired /\ ~isSudoMode /\ Begin("form", "code", mfaToken)
    <3>1. mfaToken \in Accounts
      BY <2>2 DEF IInv, ChallengeHasAccount
    <3> QED
      BY <2>2, <3>1, BeginStep DEF Lanes
  <2> QED
    BY <1>4, <2>1, <2>2 DEF handleMfaVerify
<1>5. CASE handlePasskeyLogin
  <2>1. CASE isSudoMode /\ Begin("passkey", "stepUp", session)
    <3>1. session \in Accounts
      BY <2>1 DEF isSudoMode, IInv, TypeOK
    <3> QED
      BY <2>1, <3>1, BeginStep DEF Lanes
  <2>2. ASSUME PasswordFormShown, NEW a \in Accounts, Begin("passkey", "passkey", a) PROVE IInv'
    BY <2>2, BeginStep DEF Lanes, PasswordFormShown
  <2> QED
    BY <1>5, <2>1, <2>2 DEF handlePasskeyLogin
<1>6. CASE SubmitBlank \/ handleBackToLogin \/ handleSwitchAccount
  <2>1. /\ UNCHANGED <<address, cookie, session, username, mfaToken, handlers, leaving, tries, foreign>>
        /\ error' \in BOOLEAN
        /\ mfaRequired' = mfaRequired \/ mfaRequired' = FALSE
        /\ \/ UNCHANGED <<loggingOut, switched, raced>>
           \/ loggingOut' = TRUE /\ switched' = TRUE /\ raced' = (raced \/ Pending)
    BY <1>6 DEF SubmitBlank, handleBackToLogin, handleSwitchAccount, form, IInv, TypeOK
  <2>2. /\ mfaRequired' \in BOOLEAN /\ loggingOut' \in BOOLEAN /\ switched' \in BOOLEAN
        /\ raced' \in BOOLEAN
    BY <2>1 DEF IInv, TypeOK, Pending
  <2>3. TypeOK'
    BY <2>1, <2>2 DEF IInv, TypeOK, address
  <2>4. LanesKeepKinds' /\ PasswordIsTyped' /\ ChallengeHasAccount' /\ LogoutIsSwitch'
        /\ ChallengeIsTyped'
    BY <2>1 DEF IInv, LanesKeepKinds, PasswordIsTyped, ChallengeHasAccount, LogoutIsSwitch, ChallengeIsTyped
  <2>5. SudoLasts' /\ SudoKeepsSession'
    BY <2>1 DEF IInv, SudoLasts, SudoKeepsSession, isSudoMode, matchesHint, address
  <2>6. AloneUnlessRaced'
    <3>1. CASE UNCHANGED <<handlers, loggingOut, raced>>
      BY <3>1 DEF IInv, AloneUnlessRaced
    <3>2. CASE handleSwitchAccount
      <4>1. ASSUME ~raced' PROVE ~Pending
        BY <3>2, <4>1 DEF handleSwitchAccount
      <4> QED
        BY <2>1, <4>1 DEF AloneUnlessRaced, Pending
    <3> QED
      BY <1>6, <3>1, <3>2 DEF SubmitBlank, handleBackToLogin
  <2>7. ConvincingIsStrong'
    <3>1. ~raced' => ~raced
      BY <2>1, <2>2 DEF IInv, TypeOK
    <3> QED
      BY <2>1, <3>1 DEF IInv, ConvincingIsStrong, Convincing, address
  <2> QED
    BY <2>3, <2>4, <2>5, <2>6, <2>7 DEF IInv
<1>7. CASE Challenged
  <2>1. handlers["form"] # Free /\ handlers["form"].kind = "password" /\ "form" \in Lanes
    BY <1>7 DEF Challenged, loading, IInv, LanesKeepKinds, Lanes
  <2>2. mfaToken' = username /\ username \in Accounts
    BY <1>7, <2>1, HandlerType DEF Challenged, IInv, PasswordIsTyped
  <2> QED
    BY <1>7, <2>1, <2>2, EndStep DEF Challenged, IInv, TypeOK
<1>8. CASE LogoutEnds
  <2>1. /\ switched /\ loggingOut' = FALSE
        /\ UNCHANGED <<address, form, error, handlers, raced, switched, tries, foreign>>
        /\ \/ /\ cookie' = [account |-> NoAccount, strong |-> FALSE] /\ session' = NoAccount
              /\ leaving' = "login" /\ loggingOut
           \/ UNCHANGED <<cookie, session, leaving>>
    BY <1>8 DEF LogoutEnds, IInv, LogoutIsSwitch
  <2>2. TypeOK'
    <3>1. cookie' \in [account : Accounts \cup {NoAccount}, strong : BOOLEAN]
      <4>1. CASE UNCHANGED cookie
        BY <4>1 DEF IInv, TypeOK
      <4>2. CASE cookie' = [account |-> NoAccount, strong |-> FALSE]
        BY <4>2
      <4> QED
        BY <2>1, <4>1, <4>2
    <3>2. session' \in Accounts \cup {NoAccount} /\ leaving' \in {"no", "return", "authorize", "login"}
      BY <2>1 DEF IInv, TypeOK
    <3>3. {requiresStrongAuth, hasAuthorizeRedirect, error, mfaRequired, loggingOut, raced, switched}'
              \subseteq BOOLEAN
      BY <2>1 DEF IInv, TypeOK, address, form
    <3>4. {loginHint, session, username, mfaToken, openedAs}' \subseteq Accounts \cup {NoAccount}
      BY <2>1, <3>2 DEF IInv, TypeOK, address, form
    <3> QED
      <4>1. handlers' \in [Lanes -> Handler \cup {Free}] /\ tries' \in 0..MaxTries
            /\ foreign' \in 0..MaxForeign
        BY <2>1 DEF IInv, TypeOK
      <4> QED
        BY <3>1, <3>2, <3>3, <3>4, <4>1 DEF TypeOK
  <2>3. LanesKeepKinds' /\ PasswordIsTyped' /\ ChallengeHasAccount' /\ LogoutIsSwitch'
        /\ ChallengeIsTyped'
    BY <2>1 DEF IInv, LanesKeepKinds, PasswordIsTyped, ChallengeHasAccount, LogoutIsSwitch, ChallengeIsTyped, form
  <2>4. SudoLasts' /\ SudoKeepsSession'
    BY <2>1 DEF SudoLasts, SudoKeepsSession
  <2>5. AloneUnlessRaced' /\ ConvincingIsStrong'
    BY <2>1 DEF IInv, AloneUnlessRaced, ConvincingIsStrong, Convincing, address
  <2> QED
    BY <2>2, <2>3, <2>4, <2>5 DEF IInv
<1>9. ASSUME NEW l \in Lanes, Redirected(l) \/ Fails(l) PROVE IInv'
  BY <1>9, EndStep DEF Redirected, Fails, form, IInv, TypeOK
<1>10. CASE UNCHANGED vars
  <2>1. TypeOK'
    BY <1>10 DEF vars, address, form, IInv, TypeOK
  <2> QED
    BY <1>10, <2>1
       DEF vars, address, form, IInv, LanesKeepKinds, PasswordIsTyped, ChallengeHasAccount, LogoutIsSwitch, SudoLasts,
           SudoKeepsSession, AloneUnlessRaced, ConvincingIsStrong, Convincing, ChallengeIsTyped,
           isSudoMode, matchesHint
<1> QED
  BY <1>1, <1>2, <1>3, <1>4, <1>5, <1>6, <1>7, <1>8, <1>9, <1>10, AcceptStep, SucceedsStep DEF Next

-----------------------------------------------------------------------------

\* IInv holds in every reachable state of the login page.
THEOREM Invariance == Spec => []IInv
  BY InitIInv, IInvStep, PTL DEF Spec

\* The state of Login, of the browser's session and of the handlers keeps its types.
THEOREM TypeCorrect == Spec => []TypeOK
  BY Invariance, PTL DEF IInv

\* handleMfaVerify asks for the code of the account in the user name.
THEOREM ChallengesWhatWasTyped == Spec => []ChallengeIsTyped
  BY Invariance, PTL DEF IInv

\* Stepping up in Sudo Mode leaves the browser signed in as it was.
THEOREM StepUpKeepsSession == Spec => []SudoKeepsSession
  BY Invariance, PTL DEF IInv

\* storeTokensAndRedirect leaves for a page that required strong authentication
\* only with a session that has it.
THEOREM LeavesStrong == Spec => ReturnsStrong
<1> DEFINE A == leaving' # leaving /\ leaving' \in {"return", "authorize"}
                   /\ requiresStrongAuth /\ ~raced /\ foreign = 0 => cookie.strong
<1>1. IInv /\ [Next]_vars => [A]_vars
  <2> SUFFICES ASSUME IInv, Next, leaving' # leaving, leaving' \in {"return", "authorize"},
                      requiresStrongAuth, ~raced, foreign = 0
               PROVE  cookie.strong
    BY DEF vars
  <2>1. \E l \in Lanes : Succeeds(l) \/ Redirected(l)
    BY DEF Next, TypeUsername, OtherTab, handleLogin, handleMfaVerify, handlePasskeyLogin,
           SubmitBlank, handleBackToLogin, handleSwitchAccount, Challenged, LogoutEnds, Accept,
           Fails, Begin
  <2>2. PICK l \in Lanes : handlers[l] # Free /\ Convincing(handlers[l])
    BY <2>1 DEF Succeeds, Redirected, storeTokensAndRedirect, Convincing
  <2> QED
    BY <2>2 DEF IInv, ConvincingIsStrong
<1> QED
  BY Invariance, <1>1, PTL DEF Spec, ReturnsStrong

=============================================================================
