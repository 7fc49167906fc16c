------------------------------ MODULE Routing ------------------------------
(***************************************************************************)
(* The addresses of the console: the routes of App, the guards in front of *)
(* them, the redirects of the pages, signing in and coming back.           *)
(*                                                                         *)
(* The console is served at the root or below a base path.  The browser's  *)
(* history, the server and the SDK hold whole paths; the router and the    *)
(* pages leave the base out: appPath and routerPath convert.  A path is    *)
(* the sequence of its segments.                                           *)
(*                                                                         *)
(* React renders before the user can act, so what the user does needs a    *)
(* page that is shown.                                                     *)
(***************************************************************************)
EXTENDS Naturals, Sequences, SequencesExt

CONSTANTS
    Bases,         \* appBasePath of the deployments
    AccountTabs,   \* accountSettingsTabs
    Sections,      \* systemManagementSections
    Unknown,       \* a segment that names no page
    MaxHistory,    \* bound: entries the browser keeps
    Nothing

\* What paths are made of.
Segments ==
    {"login", "callback", "account-settings", "system-management", "forgot-password", Unknown}
        \cup AccountTabs \cup Sections \cup UNION {Range(b) : b \in Bases}

ASSUME RoutingAssumption ==
    /\ \A b \in Bases : b \in Seq(Range(b))
    /\ "profile" \in AccountTabs
    /\ "clients" \in Sections
    /\ Unknown \notin AccountTabs \cup Sections
    /\ Nothing \notin Seq(Segments)
    /\ MaxHistory \in Nat /\ MaxHistory > 1

home == <<>>
login == <<"login">>
callback == <<"callback">>
account(tab) == <<"account-settings", tab>>
system(section) == <<"system-management", section>>
forgotPassword == <<"forgot-password">>

AdminPages == {system(s) : s \in Sections \cup {Unknown}}
UserPages == {home} \cup {account(t) : t \in AccountTabs \cup {Unknown}}
Indexes == {<<"account-settings">>, <<"system-management">>}
Paths == AdminPages \cup UserPages \cup Indexes \cup {login, callback, forgotPassword, <<Unknown>>}

VARIABLES
    base,          \* appBasePath
    history, at,   \* the browser's entries, and the one it is at
    page,          \* the path of the page that is rendered
    where,         \* "app", or "authorize" at the server's endpoint
    cookie,        \* the role of the server's session
    session,       \* useSession
    redirectTo,    \* what the SDK stored for the callback
    code,          \* the callback was opened with a code that was not exchanged
    \* history
    asked,         \* the path that asked for the sign-in
    arriving,      \* no page was shown since the code was exchanged
    switching      \* no page was shown since the account was switched

vars == <<base, history, at, page, where, cookie, session, redirectTo, code, asked, arriving,
          switching>>

\* A query is that of the server's authorization, given to the login page.
Address == [path : Seq(Segments), query : BOOLEAN]
Roles == {"none", "user", "admin"}

TypeOK ==
    /\ base \in Bases
    /\ history \in Seq(Address) /\ Len(history) \in 1..MaxHistory
    /\ at \in 1..Len(history)
    /\ page \in Seq(Segments) \cup {Nothing}
    /\ where \in {"app", "authorize"}
    /\ {cookie, session} \subseteq Roles
    /\ redirectTo \in Seq(Segments) \cup {Nothing}
    /\ asked \in Paths \cup {Nothing}
    /\ {code, arriving, switching} \subseteq BOOLEAN

\* The user opened an address; the provider knows the session.
Init ==
    /\ base \in Bases
    /\ \E p \in Paths : history = <<[path |-> base \o p, query |-> FALSE]>>
    /\ at = 1
    /\ page = Nothing
    /\ where = "app"
    /\ cookie \in Roles
    /\ session = cookie
    /\ redirectTo = Nothing
    /\ code = FALSE
    /\ asked = Nothing
    /\ arriving = FALSE /\ switching = FALSE

-----------------------------------------------------------------------------

appPath(path) == base \o path
Stripped(path) == SubSeq(path, Len(base) + 1, Len(path))
routerPath(path) == IF IsPrefix(base, path) THEN Stripped(path) ELSE path

\* What the router sees, without its basename.
Here == Stripped(history[at].path)

\* The browser's entry after the one it is at; it drops the oldest when it keeps too many.
Push(path, query) ==
    LET kept == Append(SubSeq(history, 1, at), [path |-> path, query |-> query])
    IN  /\ history' = SubSeq(kept, IF Len(kept) > MaxHistory THEN 2 ELSE 1, Len(kept))
        /\ at' = Len(history')

\* navigate and the links stay in the document; Load opens a new one, whose
\* provider knows the server's session before anything is rendered.
navigate(path) == Push(appPath(path), FALSE) /\ page' = Nothing

Load(path, query, role) ==
    /\ Push(path, query)
    /\ page' = Nothing
    /\ where' = "app"
    /\ cookie' = role /\ session' = role

\* <Navigate replace>
Navigate(path) ==
    /\ history' = [history EXCEPT ![at] = [path |-> appPath(path), query |-> FALSE]]
    /\ UNCHANGED <<base, at, page, where, cookie, session, redirectTo, code, asked, arriving, switching>>

\* The SDK stores where to come back to, and leaves for the server.
redirectToAuthorize(path) ==
    /\ redirectTo' = appPath(path)
    /\ asked' = path
    /\ where' = "authorize"
    /\ page' = Nothing
    /\ UNCHANGED <<base, history, at, cookie, session, code, arriving, switching>>

-----------------------------------------------------------------------------
(* Rendering the entry the browser is at *)

Rendering == where = "app" /\ page = Nothing

\* Faulty variant: <Navigate> without replace.
EnterIndexPushes ==
    /\ Rendering
    /\ \/ Here = <<"account-settings">> /\ navigate(account("profile"))
       \/ Here = <<"system-management">> /\ navigate(system("clients"))
    /\ UNCHANGED <<base, where, cookie, session, redirectTo, code, asked, arriving, switching>>

EnterIndex ==
    /\ Rendering
    /\ \/ Here = <<"account-settings">> /\ Navigate(account("profile"))
       \/ Here = <<"system-management">> /\ Navigate(system("clients"))

\* AccountRoute and AdminRoute.
RequireAuth ==
    /\ Rendering
    /\ Here \in UserPages \cup AdminPages /\ session = "none"
    /\ redirectToAuthorize(Here)

\* Faulty variant: who may not see a section is sent to the sections.
UnauthorizedToIndex ==
    /\ Rendering
    /\ Here \in AdminPages /\ session = "user"
    /\ Navigate(<<"system-management">>)

RequireAdmin ==
    /\ Rendering
    /\ Here \in AdminPages /\ session = "user"
    /\ Navigate(home)

\* AccountSettings and SystemManagement, behind their guards.
UnknownTab ==
    /\ Rendering
    /\ Here = account(Unknown) /\ session # "none"
    /\ Navigate(account("profile"))

UnknownSection ==
    /\ Rendering
    /\ Here = system(Unknown) /\ session = "admin"
    /\ Navigate(system("clients"))

\* Faulty variant: the router is given the whole path.
CallbackKeepsBase ==
    /\ Rendering /\ Here = callback /\ code /\ redirectTo # Nothing
    /\ code' = FALSE
    /\ session' = cookie
    /\ navigate(redirectTo)
    /\ redirectTo' = Nothing
    /\ arriving' = TRUE
    /\ UNCHANGED <<base, where, cookie, asked, switching>>

\* Callback: the SDK exchanges the code, once, for the flow it stored, and calls
\* handleSuccess.
CallbackSucceeds ==
    /\ Rendering /\ Here = callback /\ code /\ redirectTo # Nothing
    /\ code' = FALSE
    /\ session' = cookie
    /\ navigate(routerPath(redirectTo))
    /\ redirectTo' = Nothing
    /\ arriving' = TRUE
    /\ UNCHANGED <<base, where, cookie, asked, switching>>

\* Without a code or a flow, or when the exchange fails: renderError.
CallbackFails ==
    /\ Rendering /\ Here = callback
    /\ code' = FALSE
    /\ page' = Here
    /\ arriving' = FALSE /\ switching' = FALSE
    /\ UNCHANGED <<base, history, at, where, cookie, session, redirectTo, asked>>

ShowPage ==
    /\ Rendering
    /\ \/ Here \in {home} \cup {account(t) : t \in AccountTabs} /\ session # "none"
       \/ Here \in {system(s) : s \in Sections} /\ session = "admin"
       \/ Here \notin UserPages \cup AdminPages \cup Indexes \cup {callback}
    /\ page' = Here
    /\ arriving' = FALSE /\ switching' = FALSE
    /\ asked' = IF arriving THEN Nothing ELSE asked
    /\ UNCHANGED <<base, history, at, where, cookie, session, redirectTo, code>>

Render ==
    \/ EnterIndex \/ RequireAuth \/ RequireAdmin \/ UnknownTab \/ UnknownSection
    \/ CallbackSucceeds \/ CallbackFails \/ ShowPage

-----------------------------------------------------------------------------
(* The server *)

\* External: the endpoint sends back a code, or asks for a sign-in or a stronger one.
AuthorizeReturns ==
    /\ where = "authorize" /\ cookie # "none"
    /\ Load(appPath(callback), FALSE, cookie)
    /\ code' = TRUE
    /\ UNCHANGED <<base, redirectTo, asked, arriving, switching>>

AuthorizeAsks ==
    /\ where = "authorize"
    /\ Load(appPath(login), TRUE, cookie)
    /\ UNCHANGED <<base, redirectTo, code, asked, arriving, switching>>

\* External: the session ends, which the client may notice at once.
SessionEnds ==
    /\ page # Nothing /\ cookie # "none"
    /\ cookie' = "none"
    /\ session' \in {session, "none"}
    /\ page' = Nothing
    /\ UNCHANGED <<base, history, at, where, redirectTo, code, asked, arriving, switching>>

-----------------------------------------------------------------------------
(* The user *)

\* AdminLayout is around every page but these and ResetPassword.
LayoutShown == page # Nothing /\ page \notin {login, callback, forgotPassword}

FollowLink(p) ==
    /\ \/ LayoutShown /\ p = home
       \/ LayoutShown /\ session # "none" /\ p = <<"account-settings">>
       \/ LayoutShown /\ session = "admin" /\ p \in {system(s) : s \in Sections}
       \/ page = home /\ session = "user" /\ p \in {account(t) : t \in AccountTabs}
       \/ page \in {account(t) : t \in AccountTabs} /\ p \in {account(t) : t \in AccountTabs}
       \/ page = callback /\ p = home
       \/ page = forgotPassword /\ p = login
       \/ page = login /\ p = forgotPassword
    /\ navigate(p)
    /\ UNCHANGED <<base, where, cookie, session, redirectTo, code, asked, arriving, switching>>

HeaderSignIn ==
    /\ LayoutShown /\ session = "none"
    /\ redirectToAuthorize(system("clients"))

\* storeTokensAndRedirect, after any of the ways to sign in.
SignIn(role) ==
    /\ page = login
    /\ cookie' = role
    /\ page' = Nothing
    /\ where' = "authorize"
    /\ IF history[at].query
       THEN UNCHANGED <<redirectTo, asked>>
       ELSE redirectTo' = appPath(<<"system-management">>) /\ asked' = <<"system-management">>
    /\ UNCHANGED <<base, history, at, session, code, arriving, switching>>

\* logout
logout(path) ==
    /\ Load(appPath(path), history[at].query, "none")
    /\ UNCHANGED <<base, redirectTo, code, asked, arriving>>

SignOut ==
    /\ LayoutShown /\ session # "none"
    /\ logout(home)
    /\ UNCHANGED switching

\* For Sudo Mode and for another account than the hinted one.
handleSwitchAccount ==
    /\ page = login /\ history[at].query /\ session # "none"
    /\ logout(appPath(login))
    /\ switching' = TRUE

\* The browser: an address, a step back or forward (in the document, or in a new one).
Open(p) ==
    /\ page # Nothing
    /\ Load(base \o p, FALSE, cookie)
    /\ UNCHANGED <<base, redirectTo, code, asked, arriving, switching>>

Go(to) ==
    /\ page # Nothing
    /\ to \in {at - 1, at + 1} \cap 1..Len(history)
    /\ at' = to
    /\ page' = Nothing
    /\ session' \in {session, cookie}
    /\ UNCHANGED <<base, history, where, cookie, redirectTo, code, asked, arriving, switching>>

Next ==
    \/ Render
    \/ AuthorizeReturns \/ AuthorizeAsks \/ SessionEnds
    \/ \E p \in Paths : FollowLink(p) \/ Open(p)
    \/ \E role \in {"user", "admin"} : SignIn(role)
    \/ HeaderSignIn \/ SignOut \/ handleSwitchAccount
    \/ \E to \in 1..MaxHistory : Go(to)

\* React renders.
Spec == Init /\ [][Next]_vars /\ WF_vars(Render)

-----------------------------------------------------------------------------

\* Where a signed-in user ends who asked for a page that exists for one.
Reached(p) ==
    IF p \in AdminPages \cup {<<"system-management">>} /\ session = "user" THEN home
    ELSE IF p \in {account(Unknown), <<"account-settings">>} THEN account("profile")
    ELSE IF p \in {system(Unknown), <<"system-management">>} THEN system("clients")
    ELSE p

\* Whatever page, in whichever deployment, asked for the sign-in, and whatever the
\* user opened while at it: the first page shown afterwards is that one, or its
\* default, or home for who may not see it.
ArrivesWhereAsked == [][arriving /\ page' # Nothing => page' = Reached(asked)]_vars

\* Redirects do not go round in circles: a page is shown, or the server is asked.
RedirectsSettle == Rendering ~> ~Rendering

\* The addresses that send on whoever may see them: both indexes and an unknown tab or
\* section, to the profile and to the clients.
Redirecting == Indexes \cup {account(Unknown), system(Unknown)}

At(entries, i) == Stripped(entries[i].path)

\* Going back leaves a redirected address behind: the page it sends to takes its entry.
\* One that stays in the history was left for the server, and the entry after it is the
\* login page or the callback, never a page.  This is not said of a section that sends
\* home whoever is not an administrator: whether it does changes with the session.
BackIsNotUndone ==
    \A i \in 1..(Len(history) - 1) :
        At(history, i) \in Redirecting => At(history, i + 1) \in {login, callback}

\* CHANGELOG.md: "Preserve redirect and query parameters when switching accounts on
\* logout (`Login.tsx`)": the next page is the login page again.
SwitchReturnsToLogin ==
    [][switching /\ page' # Nothing => page' = login /\ history[at].query]_vars

=============================================================================
