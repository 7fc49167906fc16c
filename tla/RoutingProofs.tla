---------------------------- MODULE RoutingProofs ----------------------------
(***************************************************************************)
(* Proofs about Routing for every set of base paths, tabs and sections and *)
(* every length of the browser's history.                                  *)
(***************************************************************************)
EXTENDS Routing, SequenceTheorems, TLAPS

\* The pages that ask for a sign-in.
Wanted == UserPages \cup AdminPages \cup {<<"system-management">>}

\* A page is that of the browser's entry, which is not one that redirects.
PageIsHere == page # Nothing => page = Here /\ Here \notin Redirecting /\ where = "app"

\* A code is one that the callback was just opened with, in a session.
CodeIsFresh == code => where = "app" /\ page = Nothing /\ Here = callback /\ cookie # "none"

\* What the SDK stored is the address of the page that asked.
StoredIsAsked == redirectTo # Nothing => asked \in Wanted /\ redirectTo = appPath(asked)

\* From the exchange of the code to the first page, the entry the browser is at
\* leads where the page that asked leads.
OnTheWay ==
    arriving =>
        /\ where = "app" /\ page = Nothing /\ session # "none"
        /\ redirectTo = Nothing /\ asked \in Wanted
        /\ Reached(Here) = Reached(asked)

\* The inductive invariant.
IInv ==
    /\ TypeOK
    /\ PageIsHere
    /\ BackIsNotUndone
    /\ CodeIsFresh
    /\ StoredIsAsked
    /\ OnTheWay

-----------------------------------------------------------------------------
(* Paths *)

\* One segment or two make a path.
LEMMA ShortPaths ==
  ASSUME NEW x \in Segments, NEW y \in Segments
  PROVE  <<>> \in Seq(Segments) /\ <<x>> \in Seq(Segments) /\ <<x, y>> \in Seq(Segments)
OBVIOUS

\* The paths of the console are sequences of segments.
LEMMA PathsAreSequences == Paths \subseteq Seq(Segments)
<1>1. /\ {"login", "callback", "account-settings", "system-management", "forgot-password",
          Unknown} \subseteq Segments
      /\ AccountTabs \subseteq Segments /\ Sections \subseteq Segments
  BY DEF Segments
<1>2. \A t \in AccountTabs \cup {Unknown} : account(t) \in Seq(Segments)
  BY <1>1, ShortPaths DEF account
<1>3. \A s \in Sections \cup {Unknown} : system(s) \in Seq(Segments)
  BY <1>1, ShortPaths DEF system
<1>4. /\ Indexes \subseteq Seq(Segments)
      /\ {home, login, callback, forgotPassword, <<Unknown>>} \subseteq Seq(Segments)
  BY <1>1, ShortPaths DEF Indexes, home, login, callback, forgotPassword
<1> QED
  BY <1>2, <1>3, <1>4 DEF Paths, AdminPages, UserPages

\* Paths of one segment differ from those of two, and the pages of one part of the
\* console from those of the other.
LEMMA PathsDiffer ==
  /\ \A x, y : account(x) # system(y) /\ account(x) # <<y>> /\ system(x) # <<y>>
  /\ \A x : home # account(x) /\ home # system(x) /\ home # <<x>>
  /\ \A x, y : (account(x) = account(y) => x = y) /\ (system(x) = system(y) => x = y)
  /\ <<"account-settings">> # <<"system-management">>
  /\ login # callback
  /\ {login, callback} \cap Indexes = {}
<1>1. \A x, y, u, v : <<x, y>> = <<u, v>> => x = u /\ y = v
  OBVIOUS
<1>2. \A x, y, u : <<x, y>> # <<u>>
  OBVIOUS
<1>3. \A x, y : <<>> # <<x>> /\ <<>> # <<x, y>>
  OBVIOUS
<1>4. \A x, y : <<x>> = <<y>> => x = y
  OBVIOUS
<1>5. "account-settings" # "system-management" /\ "login" # "callback"
      /\ "login" \notin {"account-settings", "system-management"}
      /\ "callback" \notin {"account-settings", "system-management"}
  OBVIOUS
<1> QED
  BY <1>1, <1>2, <1>3, <1>4, <1>5 DEF account, system, home, login, callback, Indexes

\* appPath is undone by what the router strips and by routerPath.
LEMMA BaseRoundTrip ==
  ASSUME base \in Seq(Segments), NEW p \in Seq(Segments)
  PROVE  /\ appPath(p) \in Seq(Segments)
         /\ Stripped(appPath(p)) = p
         /\ routerPath(appPath(p)) = p
<1> DEFINE q == base \o p
           n == Len(base)
<1>1. /\ q \in Seq(Segments) /\ Len(q) = n + Len(p) /\ n \in Nat /\ Len(p) \in Nat
      /\ \A i \in 1..(n + Len(p)) : q[i] = IF i <= n THEN base[i] ELSE p[i - n]
  BY ConcatProperties, LenProperties
<1> HIDE DEF q, n
<1>2. /\ SubSeq(q, n + 1, Len(q)) \in Seq(Segments)
      /\ Len(SubSeq(q, n + 1, Len(q))) = Len(p)
      /\ \A i \in 1..Len(p) : SubSeq(q, n + 1, Len(q))[i] = q[n + i]
  <2>1. \A i \in (n + 1)..Len(q) : q[i] \in Segments
    BY <1>1, ElementOfSeq
  <2>2. n + 1 \in Int /\ Len(q) \in Int
    BY <1>1
  <2>3. /\ SubSeq(q, n + 1, Len(q)) \in Seq(Segments)
        /\ Len(SubSeq(q, n + 1, Len(q))) = IF n + 1 <= Len(q) THEN Len(q) - (n + 1) + 1 ELSE 0
        /\ \A i \in 1..(Len(q) - (n + 1) + 1) : SubSeq(q, n + 1, Len(q))[i] = q[(n + 1) + i - 1]
    BY <2>1, <2>2, SubSeqProperties
  <2>4. Len(SubSeq(q, n + 1, Len(q))) = Len(p)
    BY <1>1, <2>3
  <2>5. ASSUME NEW i \in 1..Len(p) PROVE SubSeq(q, n + 1, Len(q))[i] = q[n + i]
    <3>1. i \in 1..(Len(q) - (n + 1) + 1) /\ (n + 1) + i - 1 = n + i
      BY <1>1
    <3> QED
      BY <2>3, <3>1
  <2> QED
    BY <2>3, <2>4, <2>5
<1>3. \A i \in 1..Len(p) : q[n + i] = p[i]
  BY <1>1
<1>4. SubSeq(q, n + 1, Len(q)) = p
  BY <1>2, <1>3, SeqEqual
<1>5. IsPrefix(base, q)
  <2>1. SubSeq(base, 1, n) = base
    BY SubSeqFull DEF n
  <2>2. SubSeq(q, 1, n) = base
    <3>1. \A i \in 1..n : q[i] = base[i] /\ q[i] \in Segments
      BY <1>1, ElementOfSeq
    <3>2. /\ SubSeq(q, 1, n) \in Seq(Segments)
          /\ Len(SubSeq(q, 1, n)) = n
          /\ \A i \in 1..n : SubSeq(q, 1, n)[i] = q[i]
      <4>1. /\ SubSeq(q, 1, n) \in Seq(Segments)
            /\ Len(SubSeq(q, 1, n)) = IF 1 <= n THEN n - 1 + 1 ELSE 0
            /\ \A i \in 1..(n - 1 + 1) : SubSeq(q, 1, n)[i] = q[1 + i - 1]
        BY <1>1, <3>1, SubSeqProperties
      <4> QED
        BY <1>1, <4>1
    <3> QED
      BY <3>1, <3>2, SeqEqual DEF n
  <2> QED
    BY <1>1, <2>1, <2>2 DEF IsPrefix, n
<1> QED
  BY <1>1, <1>4, <1>5 DEF appPath, Stripped, routerPath, q, n

\* Where the addresses lead that the pages redirect to and from.
LEMMA WhereRedirectsLead ==
  /\ Reached(account("profile")) = account("profile")
  /\ Reached(account(Unknown)) = account("profile")
  /\ Reached(<<"account-settings">>) = account("profile")
  /\ Reached(system(Unknown)) = Reached(system("clients"))
  /\ Reached(<<"system-management">>) = Reached(system("clients"))
  /\ session = "user" => \A p \in AdminPages : Reached(p) = Reached(home)
<1>1. /\ "profile" # Unknown /\ "clients" # Unknown
      /\ {system("clients"), system(Unknown)} \subseteq AdminPages
  BY RoutingAssumption DEF AdminPages
<1>2. \A x : account(x) \notin AdminPages /\ account(x) # <<"system-management">>
  BY PathsDiffer DEF AdminPages
<1>3. <<"account-settings">> \notin AdminPages /\ home \notin AdminPages
  BY PathsDiffer DEF AdminPages
<1>4. \A p \in AdminPages : p \notin {account(Unknown), <<"account-settings">>}
  BY <1>2, <1>3
<1>5. account("profile") \notin {account(Unknown), <<"account-settings">>, system(Unknown)}
  BY <1>1, PathsDiffer
<1>6. system("clients") \notin {system(Unknown), <<"system-management">>}
  BY <1>1, PathsDiffer
<1>7. <<"system-management">> \notin {account(Unknown), <<"account-settings">>}
  BY PathsDiffer
<1>8. home \notin {account(Unknown), <<"account-settings">>, system(Unknown), <<"system-management">>}
  BY PathsDiffer
<1> QED
  BY <1>1, <1>2, <1>3, <1>4, <1>5, <1>6, <1>7, <1>8, PathsDiffer DEF Reached

\* A page that is shown is its own destination.
LEMMA ShownPagesStay ==
  ASSUME NEW p,
         \/ p \in {home} \cup {account(t) : t \in AccountTabs}
         \/ p \in {system(s) : s \in Sections} /\ session = "admin"
         \/ p \notin UserPages \cup AdminPages \cup Indexes
  PROVE  Reached(p) = p /\ p \notin Redirecting
<1>1. CASE p = home
  BY <1>1, PathsDiffer DEF Reached, AdminPages, Redirecting, Indexes
<1>2. ASSUME NEW t \in AccountTabs, p = account(t) PROVE Reached(p) = p /\ p \notin Redirecting
  <2>1. t # Unknown
    BY RoutingAssumption
  <2> QED
    BY <1>2, <2>1, PathsDiffer DEF Reached, AdminPages, Redirecting, Indexes
<1>3. ASSUME NEW s \in Sections, p = system(s), session = "admin"
      PROVE  Reached(p) = p /\ p \notin Redirecting
  <2>1. s # Unknown
    BY RoutingAssumption
  <2> QED
    BY <1>3, <2>1, PathsDiffer DEF Reached, AdminPages, Redirecting, Indexes
<1>4. CASE p \notin UserPages \cup AdminPages \cup Indexes
  <2>1. account(Unknown) \in UserPages /\ system(Unknown) \in AdminPages
    BY DEF UserPages, AdminPages
  <2> QED
    BY <1>4, <2>1 DEF Reached, Redirecting, Indexes
<1> QED
  BY <1>1, <1>2, <1>3, <1>4

-----------------------------------------------------------------------------
(* The history *)

\* The base path of a deployment is a sequence of segments.
LEMMA BaseIsPath == TypeOK => base \in Seq(Segments)
<1> SUFFICES ASSUME TypeOK PROVE base \in Seq(Segments)
  OBVIOUS
<1>1. base \in Bases /\ base \in Seq(Range(base))
  BY RoutingAssumption DEF TypeOK
<1>2. Range(base) \subseteq Segments
  BY <1>1 DEF Segments
<1> QED
  BY <1>1, <1>2

\* What the router sees is a path.
LEMMA HereIsPath == TypeOK => Here \in Seq(Segments)
<1> SUFFICES ASSUME TypeOK PROVE Here \in Seq(Segments)
  OBVIOUS
<1> DEFINE path == history[at].path
<1>1. path \in Seq(Segments) /\ base \in Seq(Segments)
  <2>1. history \in Seq(Address) /\ at \in 1..Len(history)
    BY DEF TypeOK
  <2>2. history[at] \in Address
    BY <2>1, ElementOfSeq
  <2> QED
    BY <2>2, BaseIsPath DEF Address
<1>2. \A i \in (Len(base) + 1)..Len(path) : path[i] \in Segments
  BY <1>1, ElementOfSeq, LenProperties
<1>3. Len(base) + 1 \in Int /\ Len(path) \in Int
  BY <1>1, LenProperties
<1> HIDE DEF path
<1>4. SubSeq(path, Len(base) + 1, Len(path)) \in Seq(Segments)
  BY <1>2, <1>3, SubSeqProperties
<1> QED
  BY <1>4 DEF Here, Stripped, path

\* A redirect leads to its target.
LEMMA NavigateLeads ==
  ASSUME TypeOK, NEW p \in Seq(Segments), Navigate(p)
  PROVE  Here' = p
<1>1. /\ history \in Seq(Address) /\ at \in 1..Len(history)
      /\ history' = [history EXCEPT ![at] = [path |-> appPath(p), query |-> FALSE]]
      /\ UNCHANGED <<base, at>>
  BY DEF TypeOK, Navigate
<1>2. Stripped(appPath(p)) = p
  BY BaseIsPath, BaseRoundTrip
<1>3. at \in DOMAIN history
  BY <1>1, LenProperties
<1> QED
  BY <1>1, <1>2, <1>3 DEF Here, Stripped

\* The browser keeps the entries up to the one it is at, but for the oldest when there
\* are too many, and adds one.
LEMMA PushAppends ==
  ASSUME TypeOK, NEW path \in Seq(Segments), NEW query \in BOOLEAN, Push(path, query)
  PROVE  /\ history' \in Seq(Address)
         /\ Len(history') \in 1..MaxHistory
         /\ at' = Len(history')
         /\ \E d \in 0..1 :
               /\ at' = at + 1 - d
               /\ history'[at'] = [path |-> path, query |-> query]
               /\ \A i \in 1..(at' - 1) : history'[i] = history[i + d]
<1> DEFINE r == [path |-> path, query |-> query]
           old == SubSeq(history, 1, at)
           kept == Append(old, r)
           d == IF Len(kept) > MaxHistory THEN 1 ELSE 0
<1>1. /\ history \in Seq(Address) /\ Len(history) \in 1..MaxHistory /\ at \in 1..Len(history)
      /\ MaxHistory \in Nat /\ MaxHistory > 1
      /\ r \in Address
  BY RoutingAssumption DEF TypeOK, Address
<1>2. /\ old \in Seq(Address) /\ Len(old) = at
      /\ \A i \in 1..at : old[i] = history[i]
  <2>1. \A i \in 1..at : history[i] \in Address
    BY <1>1, ElementOfSeq
  <2>2. /\ old \in Seq(Address)
        /\ Len(old) = IF 1 <= at THEN at - 1 + 1 ELSE 0
        /\ \A i \in 1..(at - 1 + 1) : old[i] = history[1 + i - 1]
    BY <1>1, <2>1, SubSeqProperties
  <2> QED
    BY <1>1, <2>2
<1> HIDE DEF old, r
<1>3. /\ kept \in Seq(Address) /\ Len(kept) = at + 1
      /\ \A i \in 1..at : kept[i] = history[i]
      /\ kept[at + 1] = r
  BY <1>1, <1>2, AppendProperties
<1>4. history' = SubSeq(kept, 1 + d, Len(kept)) /\ at' = Len(history')
  <2>1. 1 + d = IF Len(kept) > MaxHistory THEN 2 ELSE 1
    BY DEF d
  <2> HIDE DEF d
  <2> QED
    BY <2>1 DEF Push, old, r
<1> HIDE DEF kept
<1>5. d \in 0..1 /\ at + 1 - d \in 1..MaxHistory
  BY <1>1, <1>3
<1> HIDE DEF d
<1>6. /\ history' \in Seq(Address) /\ Len(history') = at + 1 - d
      /\ \A i \in 1..(at + 1 - d) : history'[i] = kept[i + d]
  <2>1. \A i \in (1 + d)..(at + 1) : kept[i] \in Address
    BY <1>1, <1>3, <1>5, ElementOfSeq
  <2>2. /\ history' \in Seq(Address)
        /\ Len(history') = IF 1 + d <= at + 1 THEN at + 1 - (1 + d) + 1 ELSE 0
        /\ \A i \in 1..(at + 1 - (1 + d) + 1) : history'[i] = kept[1 + d + i - 1]
    BY <1>1, <1>3, <1>4, <1>5, <2>1, SubSeqProperties
  <2>3. ASSUME NEW i \in 1..(at + 1 - d) PROVE history'[i] = kept[i + d]
    <3>1. i \in 1..(at + 1 - (1 + d) + 1) /\ 1 + d + i - 1 = i + d
      BY <1>1, <1>5
    <3> QED
      BY <2>2, <3>1
  <2>4. Len(history') = at + 1 - d
    BY <1>1, <1>5, <2>2
  <2> QED
    BY <2>2, <2>3, <2>4
<1>7. history'[at'] = r
  BY <1>1, <1>3, <1>4, <1>5, <1>6
<1>8. ASSUME NEW i \in 1..(at' - 1) PROVE history'[i] = history[i + d]
  <2>1. i \in 1..(at + 1 - d) /\ i + d \in 1..at
    BY <1>1, <1>4, <1>5, <1>6
  <2> QED
    BY <1>3, <1>6, <2>1
<1> QED
  BY <1>4, <1>5, <1>6, <1>7, <1>8 DEF r

\* A new entry for a path is at that path, and leaves no redirecting address behind
\* if it follows none or leads to the login page or to the callback.
LEMMA PushLeads ==
  ASSUME TypeOK, BackIsNotUndone, base' = base,
         NEW path \in Seq(Segments), NEW query \in BOOLEAN, Push(appPath(path), query),
         Here \notin Redirecting \/ path \in {login, callback}
  PROVE  /\ history' \in Seq(Address) /\ Len(history') \in 1..MaxHistory
         /\ at' \in 1..Len(history')
         /\ Here' = path
         /\ BackIsNotUndone'
<1>1. /\ history \in Seq(Address) /\ Len(history) \in Nat /\ at \in 1..Len(history)
  BY DEF TypeOK
<1>2. appPath(path) \in Seq(Segments) /\ Stripped(appPath(path)) = path
  BY BaseIsPath, BaseRoundTrip
<1>3. /\ history' \in Seq(Address)
      /\ Len(history') \in 1..MaxHistory
      /\ at' = Len(history')
      /\ \E d \in 0..1 :
            /\ at' = at + 1 - d
            /\ history'[at'] = [path |-> appPath(path), query |-> query]
            /\ \A i \in 1..(at' - 1) : history'[i] = history[i + d]
  BY <1>2, PushAppends
<1>4. PICK d \in 0..1 :
            /\ at' = at + 1 - d
            /\ history'[at'] = [path |-> appPath(path), query |-> query]
            /\ \A i \in 1..(at' - 1) : history'[i] = history[i + d]
  BY <1>3
<1>5. at' \in Nat /\ at' \in 1..Len(history')
  BY <1>3
<1>6. \A q : Stripped(q)' = Stripped(q')
  BY DEF Stripped
<1>7. Here' = path
  BY <1>2, <1>4 DEF Here, Stripped
<1>8. ASSUME NEW i \in 1..(Len(history') - 1), At(history, i)' \in Redirecting
      PROVE  At(history, i + 1)' \in {login, callback}
  <2>1. history'[i] = history[i + d]
    BY <1>3, <1>4
  <2>2. At(history, i + d) \in Redirecting
    BY <1>8, <2>1 DEF At, Stripped
  <2>3. CASE i = at' - 1
    <3>1. i + d = at /\ i + 1 = at'
      BY <1>1, <1>4, <2>3
    <3>2. Here \in Redirecting
      BY <2>2, <3>1 DEF At, Here
    <3>3. At(history, i + 1)' = path
      BY <1>7, <3>1 DEF At, Here
    <3> QED
      BY <3>2, <3>3
  <2>4. CASE i # at' - 1
    <3>1. i + 1 \in 1..(at' - 1) /\ i + d \in 1..(Len(history) - 1)
      BY <1>1, <1>3, <1>4, <2>4
    <3>2. history'[i + 1] = history[i + 1 + d] /\ i + 1 + d = i + d + 1
      BY <1>4, <3>1
    <3>3. At(history, i + d + 1) \in {login, callback}
      BY <2>2, <3>1 DEF BackIsNotUndone
    <3> QED
      BY <3>2, <3>3 DEF At, Stripped
  <2> QED
    BY <2>3, <2>4
<1> QED
  BY <1>3, <1>5, <1>7, <1>8 DEF BackIsNotUndone, Redirecting, Indexes, account, system

-----------------------------------------------------------------------------
(* The invariant is inductive *)

\* The pages and the addresses that ask for a sign-in are paths, and no path is Nothing.
LEMMA PathsAreSomething == Wanted \subseteq Paths /\ Nothing \notin Paths
  BY PathsAreSequences, RoutingAssumption DEF Wanted, Paths, Indexes

\* While a page is shown no code waits for its exchange and nobody is on the way.
LEMMA ShownIsSettled == IInv /\ page # Nothing => ~arriving /\ ~code /\ where = "app" /\ Here \notin Redirecting
  BY DEF IInv, PageIsHere, CodeIsFresh, OnTheWay, TypeOK

LEMMA InitInvariant == Init => IInv
<1> SUFFICES ASSUME Init PROVE IInv
  OBVIOUS
<1>1. PICK p \in Paths : history = <<[path |-> base \o p, query |-> FALSE]>>
  BY DEF Init
<1>2. base \in Seq(Segments)
  <2>1. base \in Bases /\ base \in Seq(Range(base))
    BY RoutingAssumption DEF Init
  <2>2. Range(base) \subseteq Segments
    BY <2>1 DEF Segments
  <2> QED
    BY <2>1, <2>2
<1>3. base \o p \in Seq(Segments)
  BY <1>2, PathsAreSequences, ConcatProperties
<1>4. history \in Seq(Address) /\ Len(history) = 1
  BY <1>1, <1>3 DEF Address
<1>5. TypeOK
  <2>1. at \in 1..Len(history) /\ Len(history) \in 1..MaxHistory
    BY <1>4, RoutingAssumption DEF Init
  <2>2. /\ base \in Bases /\ {cookie, session} \subseteq Roles
        /\ {code, arriving, switching} \subseteq BOOLEAN
    BY DEF Init
  <2> QED
    BY <1>4, <2>1, <2>2 DEF Init, TypeOK
<1>6. BackIsNotUndone
  BY <1>4 DEF BackIsNotUndone
<1>7. page = Nothing /\ ~code /\ redirectTo = Nothing /\ ~arriving
  BY DEF Init
<1> QED
  BY <1>5, <1>6, <1>7 DEF IInv, PageIsHere, CodeIsFresh, StoredIsAsked, OnTheWay

\* What the pages redirect to.
LEMMA TargetsShow ==
  ASSUME NEW p \in {account("profile"), system("clients"), home}
  PROVE  p \in Paths /\ p \notin Redirecting
<1>1. "profile" # Unknown /\ "clients" # Unknown
  BY RoutingAssumption
<1>2. p \in Paths
  BY RoutingAssumption DEF Paths, UserPages, AdminPages
<1> QED
  BY <1>1, <1>2, PathsDiffer DEF Redirecting, Indexes

\* A redirect replaces the entry, so that the address it left is not in the history.
LEMMA NavigateStep ==
  ASSUME IInv, Rendering, NEW p \in {account("profile"), system("clients"), home}, Navigate(p),
         Here \notin {login, callback}, Reached(p) = Reached(Here)
  PROVE  IInv'
<1>1. p \in Seq(Segments) /\ p \notin Redirecting
  BY TargetsShow, PathsAreSequences
<1>2. base \in Seq(Segments) /\ appPath(p) \in Seq(Segments) /\ Stripped(appPath(p)) = p
  BY <1>1, BaseIsPath, BaseRoundTrip DEF IInv
<1> DEFINE r == [path |-> appPath(p), query |-> FALSE]
<1>3. /\ history \in Seq(Address) /\ Len(history) \in 1..MaxHistory /\ at \in 1..Len(history)
      /\ r \in Address
      /\ history' = [history EXCEPT ![at] = r]
      /\ UNCHANGED <<base, at, page, where, cookie, session, redirectTo, code, asked, arriving, switching>>
  BY <1>2 DEF IInv, TypeOK, Address, Navigate
<1> HIDE DEF r
<1>4. /\ history' \in Seq(Address) /\ Len(history') = Len(history)
      /\ \A j \in 1..Len(history) : history'[j] = IF j = at THEN r ELSE history[j]
  BY <1>3, ExceptSeq
<1>5. TypeOK'
  BY <1>3, <1>4 DEF IInv, TypeOK
<1>6. Here' = p
  BY <1>2, <1>3, <1>4 DEF Here, Stripped, r
<1>7. BackIsNotUndone'
  <2> SUFFICES ASSUME NEW i \in 1..(Len(history) - 1), At(history, i)' \in Redirecting
               PROVE  At(history, i + 1)' \in {login, callback}
    BY <1>4 DEF BackIsNotUndone, Redirecting, Indexes, account, system
  <2>1. i \in 1..Len(history) /\ i + 1 \in 1..Len(history)
    BY <1>3
  <2>2. i # at
    BY <1>1, <1>3, <1>6 DEF At, Here, Stripped
  <2>3. history'[i] = history[i]
    BY <1>4, <2>1, <2>2
  <2>4. At(history, i) \in Redirecting
    BY <1>3, <2>3 DEF At, Stripped
  <2>5. At(history, i + 1) \in {login, callback}
    BY <2>4 DEF IInv, BackIsNotUndone
  <2>6. i + 1 # at
    BY <2>5 DEF At, Here
  <2>7. history'[i + 1] = history[i + 1]
    BY <1>4, <2>1, <2>6
  <2> QED
    BY <1>3, <2>5, <2>7 DEF At, Stripped
<1>8. ~code
  BY DEF IInv, CodeIsFresh
<1>9. OnTheWay'
  <2>1. \A q : Reached(q)' = Reached(q')
    BY <1>3 DEF Reached, AdminPages, account, system, home
  <2> QED
    BY <1>3, <1>6, <2>1 DEF IInv, OnTheWay, Wanted, UserPages, AdminPages
<1> QED
  BY <1>3, <1>5, <1>7, <1>8, <1>9
  DEF IInv, Rendering, PageIsHere, CodeIsFresh, StoredIsAsked, appPath, Wanted, UserPages, AdminPages

\* The redirects of the indexes, of AdminRoute and of the unknown tabs and sections.
LEMMA RedirectStep ==
  ASSUME IInv, EnterIndex \/ RequireAdmin \/ UnknownTab \/ UnknownSection
  PROVE  IInv'
<1>1. \A x : account(x) \notin {login, callback} /\ system(x) \notin {login, callback}
  BY PathsDiffer DEF login, callback
<1>2. CASE EnterIndex
  <2>1. Here \notin {login, callback}
    BY <1>2, PathsDiffer DEF EnterIndex, Indexes
  <2>2. CASE Here = <<"account-settings">> /\ Navigate(account("profile"))
    BY <1>2, <2>1, <2>2, WhereRedirectsLead, NavigateStep DEF EnterIndex
  <2>3. CASE Here = <<"system-management">> /\ Navigate(system("clients"))
    BY <1>2, <2>1, <2>3, WhereRedirectsLead, NavigateStep DEF EnterIndex
  <2> QED
    BY <1>2, <2>2, <2>3 DEF EnterIndex
<1>3. CASE RequireAdmin
  <2>1. Here \notin {login, callback}
    BY <1>1, <1>3 DEF RequireAdmin, AdminPages
  <2> QED
    BY <1>3, <2>1, WhereRedirectsLead, NavigateStep DEF RequireAdmin
<1>4. CASE UnknownTab
  BY <1>1, <1>4, WhereRedirectsLead, NavigateStep DEF UnknownTab
<1>5. CASE UnknownSection
  BY <1>1, <1>5, WhereRedirectsLead, NavigateStep DEF UnknownSection
<1> QED
  BY <1>2, <1>3, <1>4, <1>5

\* Where a page leads whose path asks for a sign-in depends on the session alone.
LEMMA SameReached ==
  ASSUME session' = session
  PROVE  \A p : Reached(p)' = Reached(p')
  BY DEF Reached, AdminPages, account, system, home

\* A page that asks for a sign-in stores its own address, and leaves for the server.
LEMMA AuthorizeStep ==
  ASSUME IInv, ~arriving, ~code, NEW p \in Wanted, redirectToAuthorize(p)
  PROVE  IInv'
<1>1. p \in Paths /\ p \in Seq(Segments) /\ p # Nothing
  BY PathsAreSomething, PathsAreSequences
<1>2. appPath(p) \in Seq(Segments)
  BY <1>1, BaseIsPath, BaseRoundTrip DEF IInv
<1>3. /\ redirectTo' = appPath(p) /\ asked' = p /\ where' = "authorize" /\ page' = Nothing
      /\ UNCHANGED <<base, history, at, cookie, session, code, arriving, switching>>
  BY DEF redirectToAuthorize
<1>4. TypeOK'
  BY <1>1, <1>2, <1>3 DEF IInv, TypeOK
<1>5. BackIsNotUndone'
  BY <1>3 DEF IInv, BackIsNotUndone, At, Stripped, Redirecting, Indexes, account, system
<1>6. StoredIsAsked'
  BY <1>3 DEF StoredIsAsked, appPath, Wanted, UserPages, AdminPages
<1> QED
  BY <1>3, <1>4, <1>5, <1>6 DEF IInv, PageIsHere, CodeIsFresh, OnTheWay

\* The guards of the routes, and the header.
LEMMA SignInIsAsked == IInv /\ (RequireAuth \/ HeaderSignIn) => IInv'
<1> SUFFICES ASSUME IInv, RequireAuth \/ HeaderSignIn PROVE IInv'
  OBVIOUS
<1>1. CASE RequireAuth
  <2>1. callback \notin UserPages \cup AdminPages
    BY PathsDiffer DEF UserPages, AdminPages, callback
  <2>2. ~code
    BY <1>1, <2>1 DEF IInv, CodeIsFresh, RequireAuth
  <2>3. ~arriving
    BY <1>1 DEF IInv, OnTheWay, RequireAuth
  <2> QED
    BY <1>1, <2>2, <2>3, AuthorizeStep DEF RequireAuth, Wanted
<1>2. CASE HeaderSignIn
  <2>1. ~arriving /\ ~code
    BY <1>2, ShownIsSettled DEF HeaderSignIn, LayoutShown
  <2>2. system("clients") \in Wanted
    BY RoutingAssumption DEF Wanted, AdminPages
  <2> QED
    BY <1>2, <2>1, <2>2, AuthorizeStep DEF HeaderSignIn
<1> QED
  BY <1>1, <1>2

\* A new entry, before or after the time that someone is on the way.
LEMMA PushStep ==
  ASSUME IInv, ~arriving, NEW path \in Seq(Segments), NEW query \in BOOLEAN,
         Push(appPath(path), query),
         Here \notin Redirecting \/ path \in {login, callback},
         page' = Nothing, where' = "app", {cookie', session'} \subseteq Roles,
         code' \in BOOLEAN, code' => path = callback /\ cookie' # "none",
         switching' \in BOOLEAN, UNCHANGED <<base, redirectTo, asked, arriving>>
  PROVE  IInv'
<1>1. /\ history' \in Seq(Address) /\ Len(history') \in 1..MaxHistory
      /\ at' \in 1..Len(history')
      /\ Here' = path
      /\ BackIsNotUndone'
  BY PushLeads DEF IInv
<1>2. TypeOK'
  BY <1>1 DEF IInv, TypeOK
<1>3. CodeIsFresh'
  BY <1>1 DEF CodeIsFresh, callback
<1>4. StoredIsAsked'
  BY DEF IInv, StoredIsAsked, appPath, Wanted, UserPages, AdminPages, account, system, home
<1> QED
  BY <1>1, <1>2, <1>3, <1>4 DEF IInv, PageIsHere, OnTheWay

\* The server's answers.
LEMMA ServerStep == IInv /\ (AuthorizeReturns \/ AuthorizeAsks) => IInv'
<1> SUFFICES ASSUME IInv, AuthorizeReturns \/ AuthorizeAsks PROVE IInv'
  OBVIOUS
<1>1. where = "authorize" /\ ~arriving /\ ~code
  BY DEF IInv, CodeIsFresh, OnTheWay, AuthorizeReturns, AuthorizeAsks
<1>2. cookie \in Roles /\ switching \in BOOLEAN /\ code = FALSE
  BY <1>1 DEF IInv, TypeOK
<1>3. {login, callback} \subseteq Seq(Segments)
  BY PathsAreSequences DEF Paths
<1>4. CASE AuthorizeReturns
  BY <1>1, <1>2, <1>3, <1>4, PushStep DEF AuthorizeReturns, Load
<1>5. CASE AuthorizeAsks
  BY <1>1, <1>2, <1>3, <1>5, PushStep DEF AuthorizeAsks, Load
<1> QED
  BY <1>4, <1>5

\* What the user does from a page that is shown, and adds an entry.
LEMMA UserPushes ==
  ASSUME IInv, NEW p \in Paths,
         FollowLink(p) \/ Open(p) \/ SignOut \/ handleSwitchAccount
  PROVE  IInv'
<1>1. {home, login} \subseteq Paths /\ p \in Seq(Segments)
      /\ {home, login} \subseteq Seq(Segments)
  BY PathsAreSequences DEF Paths, UserPages
<1>2. page # Nothing
  <2>1. CASE FollowLink(p)
    <3>1. \A t \in AccountTabs : account(t) \in Paths
      BY DEF Paths, UserPages
    <3>2. {home, login, callback, forgotPassword} \subseteq Paths
      BY DEF Paths, UserPages
    <3> QED
      BY <2>1, <3>1, <3>2, PathsAreSomething DEF FollowLink, LayoutShown
  <2>2. CASE Open(p) \/ SignOut
    BY <2>2 DEF Open, SignOut, LayoutShown
  <2>3. CASE handleSwitchAccount
    BY <2>3, <1>1, PathsAreSomething DEF handleSwitchAccount
  <2> QED
    BY <2>1, <2>2, <2>3
<1>3. ~arriving /\ ~code /\ where = "app" /\ Here \notin Redirecting
  BY <1>2, ShownIsSettled
<1>4. /\ {cookie, session, "none"} \subseteq Roles /\ switching \in BOOLEAN /\ code = FALSE
      /\ history[at].query \in BOOLEAN
  <2>1. history[at] \in Address
    BY ElementOfSeq DEF IInv, TypeOK
  <2> QED
    BY <1>3, <2>1 DEF IInv, TypeOK, Roles, Address
<1>5. appPath(login) \in Seq(Segments)
  BY <1>1, BaseIsPath, BaseRoundTrip DEF IInv
<1>6. CASE FollowLink(p)
  BY <1>1, <1>3, <1>4, <1>6, PushStep DEF FollowLink, navigate
<1>7. CASE Open(p)
  BY <1>1, <1>3, <1>4, <1>7, PushStep DEF Open, Load, appPath
<1>8. CASE SignOut
  BY <1>1, <1>3, <1>4, <1>8, PushStep DEF SignOut, logout, Load
<1>9. CASE handleSwitchAccount
  BY <1>3, <1>4, <1>5, <1>9, PushStep DEF handleSwitchAccount, logout, Load
<1> QED
  BY <1>6, <1>7, <1>8, <1>9

\* The exchange of the code leads to the page that asked.
LEMMA ExchangeLeads ==
  ASSUME IInv, CallbackSucceeds
  PROVE  /\ cookie # "none" /\ where = "app" /\ cookie \in Roles /\ asked \in Wanted
         /\ page' = Nothing
         /\ code' = FALSE /\ session' = cookie /\ redirectTo' = Nothing /\ arriving' = TRUE
         /\ UNCHANGED <<base, where, cookie, asked, switching>>
         /\ history' \in Seq(Address) /\ Len(history') \in 1..MaxHistory
         /\ at' \in 1..Len(history')
         /\ Here' = asked
         /\ BackIsNotUndone'
<1>1. /\ Here = callback /\ cookie # "none" /\ where = "app" /\ cookie \in Roles
      /\ asked \in Wanted /\ redirectTo = appPath(asked)
  BY DEF IInv, TypeOK, CodeIsFresh, StoredIsAsked, CallbackSucceeds, Rendering
<1>2. asked \in Seq(Segments)
  BY <1>1, PathsAreSomething, PathsAreSequences
<1>3. routerPath(redirectTo) = asked
  BY <1>1, <1>2, BaseIsPath, BaseRoundTrip DEF IInv
<1>4. /\ Push(appPath(asked), FALSE) /\ page' = Nothing
      /\ code' = FALSE /\ session' = cookie /\ redirectTo' = Nothing /\ arriving' = TRUE
      /\ UNCHANGED <<base, where, cookie, asked, switching>>
  BY <1>3 DEF CallbackSucceeds, navigate
<1>5. Here \notin Redirecting
  BY <1>1, PathsDiffer DEF Redirecting, Indexes, callback
<1>6. /\ history' \in Seq(Address) /\ Len(history') \in 1..MaxHistory
      /\ at' \in 1..Len(history')
      /\ Here' = asked
      /\ BackIsNotUndone'
  BY <1>2, <1>4, <1>5, PushLeads DEF IInv
<1> QED
  BY <1>1, <1>4, <1>6

\* So the exchange keeps the invariant.
LEMMA ExchangeStep == IInv /\ CallbackSucceeds => IInv'
<1> SUFFICES ASSUME IInv, CallbackSucceeds PROVE IInv'
  OBVIOUS
<1>1. /\ cookie # "none" /\ where = "app" /\ cookie \in Roles /\ asked \in Wanted
      /\ page' = Nothing
      /\ code' = FALSE /\ session' = cookie /\ redirectTo' = Nothing /\ arriving' = TRUE
      /\ UNCHANGED <<base, where, cookie, asked, switching>>
      /\ history' \in Seq(Address) /\ Len(history') \in 1..MaxHistory
      /\ at' \in 1..Len(history')
      /\ Here' = asked
      /\ BackIsNotUndone'
  BY ExchangeLeads
<1>2. TypeOK'
  BY <1>1 DEF IInv, TypeOK
<1>3. OnTheWay'
  <2>1. asked' \in Wanted' /\ Reached(Here)' = Reached(asked)'
    BY <1>1
    DEF Wanted, UserPages, AdminPages, Reached, account, system, home
  <2> QED
    BY <1>1, <2>1 DEF OnTheWay
<1> QED
  BY <1>1, <1>2, <1>3 DEF IInv, PageIsHere, CodeIsFresh, StoredIsAsked

\* Showing a page, an error included.
LEMMA ShowStep == IInv /\ (CallbackFails \/ ShowPage) => IInv'
<1> SUFFICES ASSUME IInv, CallbackFails \/ ShowPage PROVE IInv'
  OBVIOUS
<1>1. /\ where = "app" /\ page' = Here /\ arriving' = FALSE /\ switching' = FALSE
      /\ UNCHANGED <<base, history, at, where, cookie, session, redirectTo>>
      /\ code' \in {FALSE, code} /\ asked' \in {asked, Nothing}
  BY DEF CallbackFails, ShowPage, Rendering
<1>2. Here \in Seq(Segments) /\ Here' = Here
  BY <1>1, HereIsPath DEF IInv, Here, Stripped
<1>3. Here \notin Redirecting
  <2>1. CASE CallbackFails
    BY <2>1, PathsDiffer DEF CallbackFails, Redirecting, Indexes, callback
  <2>2. CASE ShowPage
    BY <2>2, ShownPagesStay DEF ShowPage
  <2> QED
    BY <2>1, <2>2
<1>4. TypeOK'
  BY <1>1, <1>2 DEF IInv, TypeOK
<1>5. BackIsNotUndone'
  BY <1>1 DEF IInv, BackIsNotUndone, At, Stripped, Redirecting, Indexes, account, system
<1>6. ~code'
  <2>1. CASE CallbackFails
    BY <2>1 DEF CallbackFails
  <2>2. CASE ShowPage
    <3>1. Here # callback
      BY <2>2, PathsDiffer DEF ShowPage, callback
    <3> QED
      BY <2>2, <3>1 DEF ShowPage, IInv, CodeIsFresh
  <2> QED
    BY <2>1, <2>2
<1>7. StoredIsAsked'
  <2>1. asked' = asked \/ redirectTo = Nothing
    BY DEF CallbackFails, ShowPage, IInv, OnTheWay
  <2> QED
    BY <1>1, <2>1 DEF IInv, StoredIsAsked, appPath, Wanted, UserPages, AdminPages, account, system, home
<1> QED
  BY <1>1, <1>2, <1>3, <1>4, <1>5, <1>6, <1>7
  DEF IInv, PageIsHere, CodeIsFresh, OnTheWay, Redirecting, Indexes, account, system

\* What leaves the entries as they are: the session that ends, the sign-in, a step
\* through the history.
LEMMA StayStep ==
  ASSUME IInv, SessionEnds \/ (\E role \in {"user", "admin"} : SignIn(role))
                 \/ (\E to \in 1..MaxHistory : Go(to))
  PROVE  IInv'
<1>1. page # Nothing
  <2>1. login \in Paths
    BY DEF Paths
  <2> QED
    BY <2>1, PathsAreSomething DEF SessionEnds, SignIn, Go
<1>2. ~arriving /\ ~code /\ where = "app"
  BY <1>1, ShownIsSettled
<1>3. /\ page' = Nothing /\ where' \in {"app", "authorize"}
      /\ UNCHANGED <<base, history, code, arriving, switching>>
  BY <1>2 DEF SessionEnds, SignIn, Go
<1>4. at' \in 1..Len(history) /\ {cookie', session'} \subseteq Roles
  <2>1. CASE SessionEnds
    BY <2>1 DEF SessionEnds, IInv, TypeOK, Roles
  <2>2. CASE \E role \in {"user", "admin"} : SignIn(role)
    BY <2>2 DEF SignIn, IInv, TypeOK, Roles
  <2>3. CASE \E to \in 1..MaxHistory : Go(to)
    BY <2>3 DEF Go, IInv, TypeOK
  <2> QED
    BY <2>1, <2>2, <2>3
<1>5. \/ UNCHANGED <<redirectTo, asked>>
      \/ redirectTo' = appPath(<<"system-management">>) /\ asked' = <<"system-management">>
  BY DEF SessionEnds, SignIn, Go
<1>6. <<"system-management">> \in Wanted /\ appPath(<<"system-management">>) \in Seq(Segments)
      /\ <<"system-management">> \in Paths
  <2>1. <<"system-management">> \in Wanted
    BY DEF Wanted
  <2>2. <<"system-management">> \in Paths
    BY <2>1, PathsAreSomething
  <2> QED
    BY <2>1, <2>2, PathsAreSequences, BaseIsPath, BaseRoundTrip DEF IInv
<1>7. TypeOK'
  BY <1>3, <1>4, <1>5, <1>6 DEF IInv, TypeOK
<1>8. BackIsNotUndone'
  BY <1>3 DEF IInv, BackIsNotUndone, At, Stripped, Redirecting, Indexes, account, system
<1>9. StoredIsAsked'
  BY <1>3, <1>5, <1>6
  DEF IInv, StoredIsAsked, appPath, Wanted, UserPages, AdminPages, account, system, home
<1> QED
  BY <1>2, <1>3, <1>7, <1>8, <1>9 DEF IInv, PageIsHere, CodeIsFresh, OnTheWay

LEMMA StepInvariant == IInv /\ [Next]_vars => IInv'
<1> SUFFICES ASSUME IInv, [Next]_vars PROVE IInv'
  OBVIOUS
<1>1. CASE Render
  BY <1>1, RedirectStep, SignInIsAsked, ExchangeStep, ShowStep DEF Render
<1>2. CASE AuthorizeReturns \/ AuthorizeAsks
  BY <1>2, ServerStep
<1>3. CASE SessionEnds \/ (\E role \in {"user", "admin"} : SignIn(role))
             \/ (\E to \in 1..MaxHistory : Go(to))
  BY <1>3, StayStep
<1>4. CASE \E p \in Paths : FollowLink(p) \/ Open(p)
  BY <1>4, UserPushes
<1>5. CASE HeaderSignIn
  BY <1>5, SignInIsAsked
<1>6. CASE SignOut \/ handleSwitchAccount
  <2>1. home \in Paths
    BY DEF Paths, UserPages
  <2> QED
    BY <1>6, <2>1, UserPushes
<1>7. CASE UNCHANGED vars
  BY <1>7
  DEF vars, IInv, TypeOK, PageIsHere, BackIsNotUndone, CodeIsFresh, StoredIsAsked, OnTheWay,
      Here, At, Stripped, appPath, Reached, Paths, Redirecting, Indexes, Wanted, UserPages, AdminPages,
      account, system, home, login, callback, forgotPassword
<1> QED
  BY <1>1, <1>2, <1>3, <1>4, <1>5, <1>6, <1>7 DEF Next

-----------------------------------------------------------------------------
(* Theorems *)

\* The inductive invariant holds for every behaviour of the console's addresses.
THEOREM Invariance == Spec => []IInv
<1> QED
  BY InitInvariant, StepInvariant, PTL DEF Spec

\* The history, the page that is shown, the sessions and what the SDK stored keep
\* their types.
THEOREM TypeCorrect == Spec => []TypeOK
<1>1. IInv => TypeOK
  BY DEF IInv
<1> QED
  BY <1>1, Invariance, PTL

\* Whatever the base path and however short the browser's history: the entry after an
\* index or an unknown tab or section is never the page that this address sends to, nor
\* any other page, but the login page or the callback.
THEOREM BackLeavesRedirects == Spec => []BackIsNotUndone
<1>1. IInv => BackIsNotUndone
  BY DEF IInv
<1> QED
  BY <1>1, Invariance, PTL

\* Whatever the deployment's base path, the page that asked for the sign-in and what the
\* user opened meanwhile: the first page after the exchange of the code is the page that
\* asked, its default tab or section, or home for who may not see it.
THEOREM ArrivesAtAsked == Spec => ArrivesWhereAsked
<1>1. IInv /\ [Next]_vars => [arriving /\ page' # Nothing => page' = Reached(asked)]_vars
  <2> SUFFICES ASSUME IInv, Next, arriving, page' # Nothing PROVE page' = Reached(asked)
    BY DEF vars
  <2>1. page = Nothing /\ Reached(Here) = Reached(asked)
    BY DEF IInv, OnTheWay
  <2>2. CallbackFails \/ ShowPage
    BY <2>1, PathsAreSomething
    DEF Next, Render, Rendering, EnterIndex, RequireAuth, RequireAdmin, UnknownTab, UnknownSection,
        Navigate, redirectToAuthorize, CallbackSucceeds, navigate, AuthorizeReturns, AuthorizeAsks,
        Load, SessionEnds, FollowLink, Open, SignIn, HeaderSignIn, SignOut, handleSwitchAccount,
        logout, Go
  <2>3. Reached(Here) = Here
    <3>1. CASE CallbackFails
      <4>1. callback \notin UserPages \cup AdminPages \cup Indexes
        BY PathsDiffer DEF UserPages, AdminPages, Indexes, callback
      <4> QED
        BY <3>1, <4>1, ShownPagesStay DEF CallbackFails
    <3>2. CASE ShowPage
      BY <3>2, ShownPagesStay DEF ShowPage
    <3> QED
      BY <2>2, <3>1, <3>2
  <2> QED
    BY <2>1, <2>2, <2>3 DEF CallbackFails, ShowPage
<1> QED
  BY <1>1, Invariance, PTL DEF Spec, ArrivesWhereAsked

-----------------------------------------------------------------------------
(* Redirects end *)

\* How many redirects can still follow.
Distance(path) ==
    IF path = callback THEN 3
    ELSE IF path \in Indexes \cup {system(Unknown)} THEN 2
    ELSE IF path \in AdminPages \cup {account(Unknown)} THEN 1
    ELSE 0

\* The distances of the addresses that redirect, and of what they redirect to.
LEMMA Distances ==
  /\ Distance(home) = 0 /\ Distance(account("profile")) = 0 /\ Distance(system("clients")) = 1
  /\ \A p \in Indexes : Distance(p) = 2
  /\ Distance(account(Unknown)) = 1 /\ Distance(system(Unknown)) = 2
  /\ \A p \in AdminPages : Distance(p) \in 1..2
  /\ \A p \in Wanted : Distance(p) \in 0..2
<1>1. "profile" # Unknown /\ "clients" # Unknown /\ "clients" \in Sections
  BY RoutingAssumption
<1>2. /\ \A p \in Indexes : p # callback /\ \A x : p # account(x) /\ p # system(x)
      /\ \A x : account(x) # callback /\ system(x) # callback /\ account(x) \notin Indexes
      /\ \A x : home # account(x) /\ home # system(x)
      /\ home # callback /\ home \notin Indexes
  BY PathsDiffer DEF Indexes, callback
<1>3. \A x : account(x) \notin AdminPages
  BY PathsDiffer DEF AdminPages
<1>4. home \notin AdminPages
  BY <1>2 DEF AdminPages
<1>5. /\ Distance(home) = 0 /\ Distance(account("profile")) = 0
      /\ Distance(account(Unknown)) = 1 /\ Distance(system(Unknown)) = 2
  <2>1. account("profile") # account(Unknown) /\ \A x : account(x) # system(Unknown)
    BY <1>1, PathsDiffer
  <2> QED
    BY <1>2, <1>3, <1>4, <2>1 DEF Distance
<1>6. \A p \in Indexes : Distance(p) = 2
  BY <1>2 DEF Distance
<1>7. \A p \in AdminPages : Distance(p) \in 1..2
  <2>1. \A p \in AdminPages : p # callback
    BY <1>2 DEF AdminPages
  <2> QED
    BY <2>1 DEF Distance
<1>8. Distance(system("clients")) = 1
  <2>1. system("clients") # system(Unknown) /\ system("clients") \notin Indexes
    BY <1>1, <1>2, PathsDiffer
  <2>2. system("clients") \in AdminPages
    BY <1>1 DEF AdminPages
  <2> QED
    BY <1>2, <2>1, <2>2 DEF Distance
<1>9. \A p \in Wanted : Distance(p) \in 0..2
  <2>1. \A p \in Wanted : p # callback
    BY <1>2 DEF Wanted, UserPages, AdminPages, Indexes
  <2> QED
    BY <2>1 DEF Distance
<1> QED
  BY <1>5, <1>6, <1>7, <1>8, <1>9

\* Each redirect comes closer to a page or to the server, so that at most three follow
\* each other: neither a guard sends back what a page or the callback sent to it, nor the
\* other way round.  Together with the fairness of Render this is why RedirectsSettle.
RedirectsComeCloser ==
    [][Rendering /\ Rendering' => Distance(Here') < Distance(Here)]_vars

\* Redirects come closer, whatever the deployment, the session and the history are.
THEOREM RedirectsEnd == Spec => RedirectsComeCloser
<1>1. IInv /\ [Next]_vars => [Rendering /\ Rendering' => Distance(Here') < Distance(Here)]_vars
  <2> SUFFICES ASSUME IInv, Next, Rendering, Rendering' PROVE Distance(Here') < Distance(Here)
    BY DEF vars
  <2>1. Render
    <3>1. page = Nothing /\ where = "app"
      BY DEF Rendering
    <3>2. ~LayoutShown
      BY <3>1 DEF LayoutShown
    <3>3. /\ page # home /\ page # login /\ page # callback /\ page # forgotPassword
          /\ \A t \in AccountTabs : page # account(t)
      BY <3>1, PathsAreSomething DEF Paths, UserPages
    <3>4. ~\E p \in Paths : FollowLink(p) \/ Open(p)
      BY <3>1, <3>2, <3>3 DEF FollowLink, Open
    <3>5. ~(AuthorizeReturns \/ AuthorizeAsks \/ SessionEnds \/ HeaderSignIn \/ SignOut)
      BY <3>1, <3>2 DEF AuthorizeReturns, AuthorizeAsks, SessionEnds, HeaderSignIn, SignOut
    <3>6. ~handleSwitchAccount /\ ~(\E role \in {"user", "admin"} : SignIn(role))
      BY <3>3 DEF handleSwitchAccount, SignIn
    <3>7. ~\E to \in 1..MaxHistory : Go(to)
      BY <3>1 DEF Go
    <3> QED
      BY <3>4, <3>5, <3>6, <3>7 DEF Next
  <2>2. /\ account("profile") \in Seq(Segments) /\ system("clients") \in Seq(Segments)
        /\ home \in Seq(Segments)
    BY TargetsShow, PathsAreSequences
  <2>3. CASE EnterIndex
    BY <2>2, <2>3, NavigateLeads, Distances DEF IInv, EnterIndex, Indexes
  <2>4. CASE RequireAuth
    BY <2>4 DEF RequireAuth, redirectToAuthorize, Rendering
  <2>5. CASE RequireAdmin
    BY <2>2, <2>5, NavigateLeads, Distances DEF IInv, RequireAdmin
  <2>6. CASE UnknownTab
    BY <2>2, <2>6, NavigateLeads, Distances DEF IInv, UnknownTab
  <2>7. CASE UnknownSection
    BY <2>2, <2>7, NavigateLeads, Distances DEF IInv, UnknownSection
  <2>8. CASE CallbackSucceeds
    <3>1. Here' = asked /\ asked \in Wanted
      BY <2>8, ExchangeLeads
    <3>2. Distance(Here) = 3
      BY <2>8 DEF CallbackSucceeds, Distance
    <3> QED
      BY <3>1, <3>2, Distances
  <2>9. CASE CallbackFails \/ ShowPage
    <3>1. Here # Nothing
      BY HereIsPath, RoutingAssumption DEF IInv
    <3> QED
      BY <2>9, <3>1 DEF CallbackFails, ShowPage, Rendering
  <2> QED
    BY <2>1, <2>3, <2>4, <2>5, <2>6, <2>7, <2>8, <2>9 DEF Render
<1> QED
  BY <1>1, Invariance, PTL DEF Spec, RedirectsComeCloser

=============================================================================
