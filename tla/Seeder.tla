------------------------------- MODULE Seeder -------------------------------
(***************************************************************************)
(* The first-run seeder, seed/main.go: processes that each wait for the    *)
(* database and its schema, then write the admin account, role, role link  *)
(* and OAuth client in one SERIALIZABLE transaction behind an advisory     *)
(* lock.                                                                   *)
(*                                                                         *)
(* PostgreSQL is external and modelled by what the seeder relies on.  A    *)
(* SERIALIZABLE transaction reads the snapshot taken by its first          *)
(* statement, which here is the SELECT that waits for the lock; a write    *)
(* fails when it meets a row committed since; nothing is visible before    *)
(* COMMIT; the end of the transaction, however it comes, frees the lock.   *)
(* While seeders run, an operator may edit what they write through the     *)
(* console.                                                                *)
(***************************************************************************)
EXTENDS Naturals, FiniteSets

CONSTANTS
    Seeders,        \* processes that may run main()
    NoSeeder,       \* the lock is free
    URIs,           \* values of OAUTH2_CLIENT_REDIRECT_URIS
    RedirectURIs,   \* RedirectURIs[s]: the value seeder s is started with
    Misconfigured,  \* seeders whose environment main() refuses
    MaxTries,       \* iterations of each of the two retry loops (30)
    MaxRuns,        \* bound: how often one seeder is started
    MaxEdits        \* bound: edits made through the console

ASSUME SeederAssumption ==
    /\ NoSeeder \notin Seeders
    /\ RedirectURIs \in [Seeders -> URIs]
    /\ Misconfigured \subseteq Seeders
    /\ {"absent", "edited"} \cap URIs = {}
    /\ MaxTries \in Nat \ {0}
    /\ MaxRuns \in Nat
    /\ MaxEdits \in Nat

\* The rows the seeder looks for, by their natural keys: the admin account, its
\* password credential, the role named admin, the link between account and role,
\* the client gosso-admin-spa.
Rows == {"account", "credential", "role", "link", "client"}

\* "bare" is a role without admin:*, "edited" a client with other redirect URIs.
RowValues ==
    [row \in Rows |->
        CASE row = "role"   -> {"absent", "bare", "granted"}
          [] row = "client" -> {"absent", "edited"} \cup URIs
          [] OTHER          -> {"absent", "present"}]

Databases == {d \in [Rows -> UNION {RowValues[row] : row \in Rows}] :
                 \A row \in Rows : d[row] \in RowValues[row]}

VARIABLES
    db,          \* the committed rows
    server,      \* "down", "up" (accepts connections), "migrated" (has the schema)
    pc,          \* where each process is
    tries,       \* failed iterations of the loop it is in
    snapshot,    \* what its transaction reads
    missed,      \* rows committed by others since its snapshot
    writes,      \* rows its transaction has written
    lockHolder,  \* who holds pg_advisory_xact_lock
    \* history
    overtaken,   \* seeders whose snapshot predates what another seeder wrote
    cause,       \* why a seeder's latest run failed
    starts,      \* how often each was started
    edits        \* how many edits were made

vars == <<db, server, pc, tries, snapshot, missed, writes, lockHolder,
          overtaken, cause, starts, edits>>

\* Statements run while holding the lock.
Locked == {"account", "role", "link", "client", "commit"}
InTransaction == Locked \cup {"lock"}
Ended == {"done", "failed"}
Causes == {"none", "config", "timeout", "conflict", "lost", "killed"}

TypeOK ==
    /\ db \in Databases
    /\ server \in {"down", "up", "migrated"}
    /\ pc \in [Seeders -> InTransaction \cup Ended \cup {"idle", "connect", "schema", "begin"}]
    /\ tries \in [Seeders -> 0..MaxTries]
    /\ snapshot \in [Seeders -> Databases]
    /\ missed \in [Seeders -> SUBSET Rows]
    /\ writes \in [Seeders -> SUBSET Rows]
    /\ lockHolder \in Seeders \cup {NoSeeder}
    /\ overtaken \subseteq Seeders
    /\ cause \in [Seeders -> Causes]
    /\ starts \in [Seeders -> 0..MaxRuns]
    /\ edits \in 0..MaxEdits

\* No account without its credential, no link without its two ends.
Whole(d) ==
    /\ d["account"] = d["credential"]
    /\ d["link"] = "present" => d["account"] = "present" /\ d["role"] # "absent"

\* Any earlier state: nothing, a user who signed up under the admin's name, a
\* role that lost admin:*, a deleted client, or all an earlier run has left.
Init ==
    /\ db \in {d \in Databases : Whole(d) /\ d["client"] \notin URIs}
    /\ server \in {"down", "up"}
    /\ pc = [s \in Seeders |-> "idle"]
    /\ tries = [s \in Seeders |-> 0]
    /\ snapshot = [s \in Seeders |-> db]
    /\ missed = [s \in Seeders |-> {}]
    /\ writes = [s \in Seeders |-> {}]
    /\ lockHolder = NoSeeder
    /\ overtaken = {}
    /\ cause = [s \in Seeders |-> "none"]
    /\ starts = [s \in Seeders |-> 0]
    /\ edits = 0

-----------------------------------------------------------------------------

\* What the rows hold after a run of s that found nothing in its way.
Target(s) ==
    [row \in Rows |-> CASE row = "role"   -> "granted"
                        [] row = "client" -> RedirectURIs[s]
                        [] OTHER          -> "present"]

\* log.Fatalf outside a transaction.
Fatal(s, why) ==
    /\ pc' = [pc EXCEPT ![s] = "failed"]
    /\ cause' = [cause EXCEPT ![s] = why]

\* main() starts: the environment is read and the password policy applied.
Start(s) ==
    /\ pc[s] \in {"idle"} \cup Ended
    /\ starts[s] < MaxRuns
    /\ starts' = [starts EXCEPT ![s] = @ + 1]
    /\ tries' = [tries EXCEPT ![s] = 0]
    /\ \/ /\ s \in Misconfigured
          /\ Fatal(s, "config")
       \/ /\ s \notin Misconfigured
          /\ pc' = [pc EXCEPT ![s] = "connect"]
          /\ cause' = [cause EXCEPT ![s] = "none"]
    /\ UNCHANGED <<db, server, snapshot, missed, writes, lockHolder, overtaken, edits>>

\* One iteration of a retry loop: on success the loop is left, after MaxTries
\* failures the process gives up.
Attempt(s, at, next, ready) ==
    /\ pc[s] = at
    /\ \/ /\ ready
          /\ pc' = [pc EXCEPT ![s] = next]
          /\ tries' = [tries EXCEPT ![s] = 0]
          /\ UNCHANGED cause
       \/ /\ ~ready
          /\ tries' = [tries EXCEPT ![s] = @ + 1]
          /\ IF tries[s] + 1 = MaxTries
             THEN Fatal(s, "timeout")
             ELSE UNCHANGED <<pc, cause>>
    /\ UNCHANGED <<db, server, snapshot, missed, writes, lockHolder, overtaken,
                   starts, edits>>

Connect(s) == Attempt(s, "connect", "schema", server # "down")
CheckSchema(s) == Attempt(s, "schema", "begin", server = "migrated")

\* BEGIN, then SELECT pg_advisory_xact_lock, whose snapshot the transaction keeps.
BeginAndRequestLock(s) ==
    /\ pc[s] = "begin"
    /\ pc' = [pc EXCEPT ![s] = "lock"]
    /\ snapshot' = [snapshot EXCEPT ![s] = db]
    /\ UNCHANGED <<db, server, tries, missed, writes, lockHolder, overtaken,
                   cause, starts, edits>>

AcquireLock(s) ==
    /\ pc[s] = "lock"
    /\ lockHolder = NoSeeder
    /\ lockHolder' = s
    /\ pc' = [pc EXCEPT ![s] = "account"]
    /\ UNCHANGED <<db, server, tries, snapshot, missed, writes, overtaken,
                   cause, starts, edits>>

\* Faulty variants: the lock is freed by key, whoever holds it; the lock is
\* pg_advisory_lock, which a rollback does not free.
FreeAnyLock(s) ==
    /\ lockHolder' = NoSeeder
    /\ writes' = [writes EXCEPT ![s] = {}]
    /\ overtaken' = overtaken \ {s}

KeepLock(s) ==
    /\ UNCHANGED lockHolder
    /\ writes' = [writes EXCEPT ![s] = {}]
    /\ overtaken' = overtaken \ {s}

\* The transaction of s ends: its lock, snapshot and uncommitted rows are gone.
EndTransaction(s) ==
    /\ lockHolder' = IF lockHolder = s THEN NoSeeder ELSE lockHolder
    /\ writes' = [writes EXCEPT ![s] = {}]
    /\ overtaken' = overtaken \ {s}

Rollback(s, why) ==
    /\ Fatal(s, why)
    /\ EndTransaction(s)
    /\ missed' = [missed EXCEPT ![s] = {}]
    /\ UNCHANGED <<db, server, tries, snapshot, starts, edits>>

\* External: an INSERT meets a committed row its snapshot does not show, an
\* UPDATE one that was committed again since.
Clashes(s, row) ==
    IF snapshot[s][row] = "absent" THEN db[row] # "absent" ELSE row \in missed[s]

\* A block of main(): the queries decide from the snapshot which rows to write.
Seed(s, at, next, rows) ==
    /\ pc[s] = at
    /\ \/ /\ \E row \in rows : Clashes(s, row)
          /\ Rollback(s, "conflict")
       \/ /\ \A row \in rows : ~Clashes(s, row)
          /\ writes' = [writes EXCEPT ![s] = @ \cup rows]
          /\ pc' = [pc EXCEPT ![s] = next]
          /\ UNCHANGED <<db, server, tries, snapshot, missed, lockHolder,
                         overtaken, cause, starts, edits>>

\* Faulty variant: the account is inserted with db instead of tx.
AccountOutsideTransaction(s) ==
    /\ pc[s] = "account"
    /\ db' = [db EXCEPT !["account"] = "present"]
    /\ writes' = [writes EXCEPT ![s] = @ \cup {"credential"}]
    /\ pc' = [pc EXCEPT ![s] = "role"]
    /\ UNCHANGED <<server, tries, snapshot, missed, lockHolder, overtaken,
                   cause, starts, edits>>

SeedAccount(s) ==
    Seed(s, "account", "role",
         IF snapshot[s]["account"] = "absent" THEN {"account", "credential"} ELSE {})

\* Faulty variant: an existing role is left as it is.
RoleOnlyInserted(s) ==
    Seed(s, "role", "link", IF snapshot[s]["role"] = "absent" THEN {"role"} ELSE {})

\* Inserted with its permissions; otherwise updated unless it has admin:*.
SeedRole(s) ==
    Seed(s, "role", "link", IF snapshot[s]["role"] # "granted" THEN {"role"} ELSE {})

SeedLink(s) ==
    Seed(s, "link", "client", IF snapshot[s]["link"] = "absent" THEN {"link"} ELSE {})

\* Faulty variant: an existing client is left as it is.
ClientOnlyInserted(s) ==
    Seed(s, "client", "commit", IF snapshot[s]["client"] = "absent" THEN {"client"} ELSE {})

\* Inserted or updated: written in every run.
SeedClient(s) == Seed(s, "client", "commit", {"client"})

\* External: the writes of s become visible at once.
Publish(s) ==
    /\ db' = [row \in Rows |-> IF row \in writes[s] THEN Target(s)[row] ELSE db[row]]
    /\ missed' = [t \in Seeders |->
           IF t # s /\ pc[t] \in InTransaction THEN missed[t] \cup writes[s]
           ELSE IF t = s THEN {} ELSE missed[t]]
    /\ lockHolder' = NoSeeder
    /\ writes' = [writes EXCEPT ![s] = {}]
    /\ overtaken' = {t \in Seeders \ {s} :
           t \in overtaken \/ (writes[s] # {} /\ pc[t] \in InTransaction)}
    /\ UNCHANGED <<server, tries, snapshot, starts, edits>>

\* COMMIT succeeds; or it does and the connection breaks before the answer, so
\* that the process reports a failure.
Commit(s) ==
    /\ pc[s] = "commit"
    /\ Publish(s)
    /\ \/ pc' = [pc EXCEPT ![s] = "done"] /\ UNCHANGED cause
       \/ Fatal(s, "lost")

\* External: COMMIT may be refused when rows the transaction read have changed.
RefuseCommit(s) ==
    /\ pc[s] = "commit"
    /\ missed[s] # {}
    /\ Rollback(s, "conflict")

\* The process is killed or loses its connection.  The server rolls back.
Kill(s) ==
    /\ pc[s] \notin {"idle"} \cup Ended
    /\ Rollback(s, "killed")

\* External: the server starts, then migrates its schema.
ServerAdvances ==
    /\ \/ server = "down" /\ server' = "up"
       \/ server = "up" /\ server' = "migrated"
    /\ UNCHANGED <<db, pc, tries, snapshot, missed, writes, lockHolder,
                   overtaken, cause, starts, edits>>

\* External: an edit through the console of the role's permissions, of the role
\* link or of the client.  A row that a transaction has written is locked.
EditTo(row) ==
    CASE row = "role"   -> {"bare", "granted"}
      [] row = "link"   -> {"absent", "present"}
      [] row = "client" -> {"absent", "edited"}
      [] OTHER          -> {}

Edit(row) ==
    /\ edits < MaxEdits
    /\ db["account"] = "present" /\ db["role"] # "absent"
    /\ \A s \in Seeders : row \notin writes[s]
    /\ \E v \in EditTo(row) :
          /\ row = "client" => db[row] # "absent"
          /\ v # db[row]
          /\ db' = [db EXCEPT ![row] = v]
    /\ missed' = [s \in Seeders |->
           IF pc[s] \in InTransaction THEN missed[s] \cup {row} ELSE missed[s]]
    /\ edits' = edits + 1
    /\ UNCHANGED <<server, pc, tries, snapshot, writes, lockHolder, overtaken,
                   cause, starts>>

SeederStep(s) ==
    \/ Connect(s) \/ CheckSchema(s) \/ BeginAndRequestLock(s)
    \/ SeedAccount(s) \/ SeedRole(s) \/ SeedLink(s) \/ SeedClient(s)
    \/ Commit(s)

Next ==
    \/ \E s \in Seeders :
          Start(s) \/ SeederStep(s) \/ AcquireLock(s) \/ RefuseCommit(s) \/ Kill(s)
    \/ \E row \in Rows : Edit(row)
    \/ ServerAdvances

Spec == Init /\ [][Next]_vars

\* A started process runs on; the lock is granted in the order it was requested.
Fairness ==
    \A s \in Seeders : WF_vars(SeederStep(s)) /\ SF_vars(AcquireLock(s))

FairSpec == Spec /\ Fairness

-----------------------------------------------------------------------------

\* Only the holder of the advisory lock has written anything, and only one
\* seeder is past the lock: two runs never write the same rows side by side.
LockExcludes ==
    \A s \in Seeders :
        /\ writes[s] # {} => lockHolder = s
        /\ pc[s] \in Locked <=> lockHolder = s

\* The snapshot is older than the lock, so a seeder that waited reads a database
\* without the rows of the seeder it waited for.  Such a run does not reach its
\* COMMIT: every run writes the client row, and that write meets the other's,
\* unless an operator has deleted the client again in between.
StaleSnapshotNeverCommits ==
    \A s \in Seeders : pc[s] = "commit" /\ s \in overtaken =>
        snapshot[s]["client"] = "absent" /\ edits > 0

\* Whatever crashed or was refused, no account is ever visible without the
\* credential it was inserted with, and no link without its two ends.
NoHalfSeed == Whole(db)

\* What SeedSpec knows of the processes.
Runs ==
    [s \in Seeders |->
        CASE pc[s] \in InTransaction -> "running"
          [] pc[s] = "done"          -> "done"
          [] pc[s] = "failed"        -> IF cause[s] = "lost" THEN "lost" ELSE "failed"
          [] OTHER                   -> "waiting"]

Promise == INSTANCE SeedSpec WITH run <- Runs, changed <- missed

\* A run takes effect at one instant or not at all, as SeedSpec has it: complete but
\* for what others changed meanwhile, and with no change of theirs overwritten.
ImplementsPromise == Promise!Spec

\* The retry loops, the lock and the statements all end: a started process
\* succeeds or fails, it never waits for ever.
EveryRunEnds ==
    \A s \in Seeders : pc[s] \notin {"idle"} \cup Ended ~> pc[s] \in Ended

\* docs/BOOTSTRAP.md promises idempotent creation behind an advisory lock: when
\* no one edits the rows, a seeder does not fail because another one ran.
ConcurrentRunsSucceed == \A s \in Seeders : cause[s] # "conflict"

=============================================================================
