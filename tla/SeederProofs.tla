---------------------------- MODULE SeederProofs ----------------------------
(***************************************************************************)
(* Proofs about Seeder for any number of seeders, redirect URIs, tries,    *)
(* runs and edits: the lock admits one at a time, a transaction that was   *)
(* overtaken does not commit, and a commit leaves the database whole and   *)
(* seeded.                                                                 *)
(***************************************************************************)
EXTENDS Seeder, TLAPS

\* The types the argument needs, without the bounds of the counters.
Shape ==
    /\ db \in Databases
    /\ pc \in [Seeders -> InTransaction \cup Ended \cup {"idle", "connect", "schema", "begin"}]
    /\ snapshot \in [Seeders -> Databases]
    /\ missed \in [Seeders -> SUBSET Rows]
    /\ writes \in [Seeders -> SUBSET Rows]
    /\ lockHolder \in Seeders \cup {NoSeeder}
    /\ overtaken \subseteq Seeders
    /\ cause \in [Seeders -> Causes]
    /\ edits \in Nat

\* A snapshot was the database once; accounts and roles are never removed.
OldDatabase ==
    \A s \in Seeders :
        /\ Whole(snapshot[s])
        /\ snapshot[s]["account"] # "absent" => db["account"] # "absent"
        /\ snapshot[s]["role"] # "absent" => db["role"] # "absent"

\* A row no one else has committed is still what the transaction reads.
SnapshotCurrent ==
    \A s \in Seeders : pc[s] \in InTransaction =>
        \A row \in Rows \ missed[s] : db[row] = snapshot[s][row]

\* The transaction has dealt with a row: written it, or found it as it should be.
Settled(s, row) == row \in writes[s] \/ snapshot[s][row] = Target(s)[row]

\* How far each transaction has come.
Progress ==
    \A s \in Seeders :
        /\ "account" \in writes[s] <=> "credential" \in writes[s]
        /\ pc[s] \in {"role", "link", "client", "commit"} =>
              Settled(s, "account") /\ Settled(s, "credential")
        /\ pc[s] \in {"link", "client", "commit"} => Settled(s, "role")
        /\ pc[s] \in {"client", "commit"} => Settled(s, "link")
        /\ pc[s] = "commit" => "client" \in writes[s]

\* An overtaken transaction has missed the client row.
Overtaking ==
    \A s \in overtaken :
        /\ pc[s] \in InTransaction
        /\ "client" \in missed[s]
        /\ edits = 0 => db["client"] # "absent"

IInv ==
    /\ Shape
    /\ NoHalfSeed
    /\ LockExcludes
    /\ OldDatabase
    /\ SnapshotCurrent
    /\ Progress
    /\ Overtaking
    /\ StaleSnapshotNeverCommits

USE SeederAssumption DEF Locked, InTransaction, Ended, Rows

-----------------------------------------------------------------------------

\* What a database holds, row by row.
LEMMA DatabaseRows ==
    ASSUME NEW d
    PROVE  d \in Databases <=>
               /\ d \in [Rows -> {"absent", "present", "bare", "granted", "edited"} \cup URIs]
               /\ d["account"] \in {"absent", "present"}
               /\ d["credential"] \in {"absent", "present"}
               /\ d["role"] \in {"absent", "bare", "granted"}
               /\ d["link"] \in {"absent", "present"}
               /\ d["client"] \in {"absent", "edited"} \cup URIs
<1> DEFINE V == UNION {RowValues[row] : row \in Rows}
<1>1. /\ RowValues["account"] = {"absent", "present"}
      /\ RowValues["credential"] = {"absent", "present"}
      /\ RowValues["role"] = {"absent", "bare", "granted"}
      /\ RowValues["link"] = {"absent", "present"}
      /\ RowValues["client"] = {"absent", "edited"} \cup URIs
  BY DEF RowValues
<1>2. V = {"absent", "present", "bare", "granted", "edited"} \cup URIs
  BY <1>1
<1> QED
  BY <1>1, <1>2 DEF Databases

\* Before any seeder has started, every snapshot is the database itself.
LEMMA InitIInv == Init => IInv
<1> SUFFICES ASSUME Init PROVE IInv
  OBVIOUS
<1>1. db \in Databases /\ Whole(db)
  BY DEF Init
<1>2. Shape
  BY <1>1 DEF Init, Shape, Causes
<1>3. NoHalfSeed /\ LockExcludes
  BY <1>1 DEF Init, NoHalfSeed, LockExcludes
<1>4. OldDatabase /\ SnapshotCurrent
  BY <1>1 DEF Init, OldDatabase, SnapshotCurrent
<1>5. Progress /\ Overtaking /\ StaleSnapshotNeverCommits
  BY DEF Init, Progress, Overtaking, StaleSnapshotNeverCommits
<1> QED
  BY <1>2, <1>3, <1>4, <1>5 DEF IInv

-----------------------------------------------------------------------------

\* Steps of a process outside its transaction touch nothing but its own pc.
LEMMA OutsideStep ==
    ASSUME IInv, NEW s \in Seeders, Start(s) \/ Connect(s) \/ CheckSchema(s)
    PROVE  IInv'
<1>1. /\ UNCHANGED <<db, snapshot, missed, writes, lockHolder, overtaken, edits>>
      /\ pc[s] \notin InTransaction
      /\ \E at \in {"connect", "schema", "begin", "failed"} :
            pc' = pc \/ pc' = [pc EXCEPT ![s] = at]
      /\ \E why \in Causes : cause' = cause \/ cause' = [cause EXCEPT ![s] = why]
  BY DEF Start, Connect, CheckSchema, Attempt, Fatal, Causes
<1> USE <1>1 DEF IInv, Shape
<1>2. Shape'
  OBVIOUS
<1>3. NoHalfSeed' /\ LockExcludes'
  BY DEF NoHalfSeed, LockExcludes
<1>4. OldDatabase' /\ SnapshotCurrent'
  BY DEF OldDatabase, SnapshotCurrent
<1>5. Progress' /\ Overtaking' /\ StaleSnapshotNeverCommits'
  BY DEF Progress, Settled, Overtaking, StaleSnapshotNeverCommits
<1> QED
  BY <1>2, <1>3, <1>4, <1>5

\* A transaction begins with the database as its snapshot and nothing missed.
LEMMA BeginStep ==
    ASSUME IInv, NEW s \in Seeders, BeginAndRequestLock(s)
    PROVE  IInv'
<1> USE DEF IInv, Shape, BeginAndRequestLock
<1>2. Shape'
  OBVIOUS
<1>3. NoHalfSeed' /\ LockExcludes'
  BY DEF NoHalfSeed, LockExcludes
<1>4. OldDatabase' /\ SnapshotCurrent'
  BY DEF OldDatabase, SnapshotCurrent, NoHalfSeed
<1>5. Progress' /\ Overtaking' /\ StaleSnapshotNeverCommits'
  BY DEF Progress, Settled, Overtaking, StaleSnapshotNeverCommits, LockExcludes
<1> QED
  BY <1>2, <1>3, <1>4, <1>5

\* The lock is granted when nobody is past it.
LEMMA AcquireStep ==
    ASSUME IInv, NEW s \in Seeders, AcquireLock(s)
    PROVE  IInv'
<1> USE DEF IInv, Shape, AcquireLock
<1>2. Shape'
  OBVIOUS
<1>3. NoHalfSeed' /\ LockExcludes'
  BY DEF NoHalfSeed, LockExcludes
<1>4. OldDatabase' /\ SnapshotCurrent'
  BY DEF OldDatabase, SnapshotCurrent
<1>5. Progress' /\ Overtaking' /\ StaleSnapshotNeverCommits'
  BY DEF Progress, Settled, Overtaking, StaleSnapshotNeverCommits
<1> QED
  BY <1>2, <1>3, <1>4, <1>5

\* A rollback undoes the transaction and nothing else.
LEMMA RollbackStep ==
    ASSUME IInv, NEW s \in Seeders, NEW why \in Causes, Rollback(s, why)
    PROVE  IInv'
<1> USE DEF IInv, Shape, Rollback, Fatal, EndTransaction
<1>2. Shape'
  OBVIOUS
<1>3. NoHalfSeed' /\ LockExcludes'
  BY DEF NoHalfSeed, LockExcludes
<1>4. OldDatabase' /\ SnapshotCurrent'
  BY DEF OldDatabase, SnapshotCurrent
<1>5. Progress'
  BY DEF Progress, Settled
<1>6. Overtaking' /\ StaleSnapshotNeverCommits'
  BY DEF Overtaking, StaleSnapshotNeverCommits
<1> QED
  BY <1>2, <1>3, <1>4, <1>5, <1>6

\* What a block does for every choice of the rows it writes; what the block
\* settles, and whether it may go on to COMMIT, is for each block to show.
LEMMA SeedStep ==
    ASSUME IInv, NEW s \in Seeders, NEW rows \in SUBSET Rows,
           NEW at \in {"account", "role", "link", "client"},
           NEW next \in {"role", "link", "client", "commit"},
           Seed(s, at, next, rows),
           (\A row \in rows : ~Clashes(s, row)) => Progress' /\ StaleSnapshotNeverCommits'
    PROVE  IInv'
<1>1. CASE \E row \in rows : Clashes(s, row)
  <2>1. Rollback(s, "conflict")
    BY <1>1 DEF Seed
  <2> QED
    BY <2>1, RollbackStep DEF Causes
<1>2. CASE \A row \in rows : ~Clashes(s, row)
  <2>1. /\ pc[s] = at
        /\ writes' = [writes EXCEPT ![s] = @ \cup rows]
        /\ pc' = [pc EXCEPT ![s] = next]
        /\ UNCHANGED <<db, snapshot, missed, lockHolder, overtaken, cause, edits>>
    BY <1>2 DEF Seed
  <2> USE <2>1 DEF IInv, Shape
  <2>2. Shape'
    OBVIOUS
  <2>3. NoHalfSeed' /\ LockExcludes'
    BY DEF NoHalfSeed, LockExcludes
  <2>4. OldDatabase' /\ SnapshotCurrent'
    BY DEF OldDatabase, SnapshotCurrent
  <2>5. Overtaking'
    BY DEF Overtaking
  <2> QED
    BY <1>2, <2>2, <2>3, <2>4, <2>5
<1> QED
  BY <1>1, <1>2

\* The account and its credential are written together, or both were there.
LEMMA AccountStep ==
    ASSUME IInv, NEW s \in Seeders, SeedAccount(s)
    PROVE  IInv'
<1> DEFINE rows == IF snapshot[s]["account"] = "absent" THEN {"account", "credential"} ELSE {}
<1>1. ASSUME \A row \in rows : ~Clashes(s, row)
      PROVE  Progress' /\ StaleSnapshotNeverCommits'
  <2>1. /\ writes' = [writes EXCEPT ![s] = @ \cup rows]
        /\ pc' = [pc EXCEPT ![s] = "role"]
        /\ UNCHANGED <<snapshot, overtaken, edits>>
    BY <1>1 DEF SeedAccount, Seed
  <2>2. StaleSnapshotNeverCommits'
    BY <2>1 DEF IInv, Shape, StaleSnapshotNeverCommits
  <2>3. snapshot[s] \in Databases /\ Whole(snapshot[s])
    BY DEF IInv, Shape, OldDatabase
  <2>4. Settled(s, "account")' /\ Settled(s, "credential")'
    BY <2>1, <2>3, DatabaseRows DEF IInv, Shape, Settled, Target, Whole
  <2>5. Progress'
    BY <2>1, <2>4 DEF IInv, Shape, Progress, Settled, Target
  <2> QED
    BY <2>2, <2>5
<1> QED
  BY <1>1, SeedStep DEF SeedAccount

\* The role is written unless the snapshot has it with admin:*.
LEMMA RoleStep ==
    ASSUME IInv, NEW s \in Seeders, SeedRole(s)
    PROVE  IInv'
<1> DEFINE rows == IF snapshot[s]["role"] # "granted" THEN {"role"} ELSE {}
<1>1. ASSUME \A row \in rows : ~Clashes(s, row)
      PROVE  Progress' /\ StaleSnapshotNeverCommits'
  <2>1. /\ pc[s] = "role"
        /\ writes' = [writes EXCEPT ![s] = @ \cup rows]
        /\ pc' = [pc EXCEPT ![s] = "link"]
        /\ UNCHANGED <<snapshot, overtaken, edits>>
    BY <1>1 DEF SeedRole, Seed
  <2>2. StaleSnapshotNeverCommits'
    BY <2>1 DEF IInv, Shape, StaleSnapshotNeverCommits
  <2>3. Settled(s, "role")'
    BY <2>1 DEF IInv, Shape, Settled, Target
  <2>4. Progress'
    BY <2>1, <2>3 DEF IInv, Shape, Progress, Settled, Target
  <2> QED
    BY <2>2, <2>4
<1> QED
  BY <1>1, SeedStep DEF SeedRole

\* The link is written unless the snapshot has it.
LEMMA LinkStep ==
    ASSUME IInv, NEW s \in Seeders, SeedLink(s)
    PROVE  IInv'
<1> DEFINE rows == IF snapshot[s]["link"] = "absent" THEN {"link"} ELSE {}
<1>1. ASSUME \A row \in rows : ~Clashes(s, row)
      PROVE  Progress' /\ StaleSnapshotNeverCommits'
  <2>1. /\ pc[s] = "link"
        /\ writes' = [writes EXCEPT ![s] = @ \cup rows]
        /\ pc' = [pc EXCEPT ![s] = "client"]
        /\ UNCHANGED <<snapshot, overtaken, edits>>
    BY <1>1 DEF SeedLink, Seed
  <2>2. StaleSnapshotNeverCommits'
    BY <2>1 DEF IInv, Shape, StaleSnapshotNeverCommits
  <2>3. snapshot[s] \in Databases
    BY DEF IInv, Shape
  <2>4. Settled(s, "link")'
    BY <2>1, <2>3, DatabaseRows DEF IInv, Shape, Settled, Target
  <2>5. Progress'
    BY <2>1, <2>4 DEF IInv, Shape, Progress, Settled, Target
  <2> QED
    BY <2>2, <2>5
<1> QED
  BY <1>1, SeedStep DEF SeedLink

\* An overtaken transaction has missed the client row: an UPDATE of it clashes,
\* and an INSERT does unless the row was deleted again.
LEMMA ClientStep ==
    ASSUME IInv, NEW s \in Seeders, SeedClient(s)
    PROVE  IInv'
<1> DEFINE rows == {"client"}
<1>1. ASSUME \A row \in rows : ~Clashes(s, row)
      PROVE  Progress' /\ StaleSnapshotNeverCommits'
  <2>1. /\ pc[s] = "client"
        /\ writes' = [writes EXCEPT ![s] = @ \cup rows]
        /\ pc' = [pc EXCEPT ![s] = "commit"]
        /\ UNCHANGED <<snapshot, overtaken, edits>>
    BY <1>1 DEF SeedClient, Seed
  <2>2. s \in overtaken => snapshot[s]["client"] = "absent" /\ edits > 0
    BY <1>1 DEF IInv, Shape, Clashes, Overtaking
  <2>3. StaleSnapshotNeverCommits'
    BY <2>1, <2>2 DEF IInv, Shape, StaleSnapshotNeverCommits
  <2>4. Progress'
    BY <2>1 DEF IInv, Shape, Progress, Settled, Target
  <2> QED
    BY <2>3, <2>4
<1> QED
  BY <1>1, SeedStep DEF SeedClient

-----------------------------------------------------------------------------

\* What a transaction has settled, it publishes in its seeded state.
LEMMA Published ==
    ASSUME IInv, NEW s \in Seeders, Commit(s), NEW row \in Rows \ missed[s]
    PROVE  db'[row] = Target(s)[row]
<1>1. /\ pc[s] = "commit"
      /\ db'[row] = IF row \in writes[s] THEN Target(s)[row] ELSE db[row]
  BY DEF Commit, Publish
<1>2. db[row] = snapshot[s][row]
  BY <1>1 DEF IInv, SnapshotCurrent
<1>3. Settled(s, row)
  BY <1>1 DEF IInv, Progress, Settled
<1> QED
  BY <1>1, <1>2, <1>3 DEF Settled

\* No account or role disappears by a commit, and the client is there after it.
LEMMA PublishedRows ==
    ASSUME IInv, NEW s \in Seeders, Commit(s)
    PROVE  /\ db' \in Databases
           /\ Whole(db')
           /\ db["account"] # "absent" => db'["account"] # "absent"
           /\ db["role"] # "absent" => db'["role"] # "absent"
           /\ db'["client"] # "absent"
<1> USE DEF IInv, Shape
<1>1. /\ Target(s)["account"] = "present"
      /\ Target(s)["credential"] = "present"
      /\ Target(s)["role"] = "granted"
      /\ Target(s)["link"] = "present"
      /\ Target(s)["client"] \in URIs
  BY DEF Target
<1>2. db' = [row \in Rows |-> IF row \in writes[s] THEN Target(s)[row] ELSE db[row]]
  BY DEF Commit, Publish
<1>3. \A row \in Rows : db'[row] = IF row \in writes[s] THEN Target(s)[row] ELSE db[row]
  BY <1>2
<1>4. db' \in Databases
  BY <1>1, <1>2, DatabaseRows
<1>5. /\ pc[s] = "commit"
      /\ "account" \in writes[s] <=> "credential" \in writes[s]
      /\ "client" \in writes[s]
      /\ "account" \in writes[s] \/ snapshot[s]["account"] = "present"
      /\ "role" \in writes[s] \/ snapshot[s]["role"] = "granted"
  BY <1>1 DEF Commit, Progress, Settled
<1>6. db["account"] # "absent" \/ "account" \in writes[s]
  BY <1>5 DEF OldDatabase
<1>7. db["role"] # "absent" \/ "role" \in writes[s]
  BY <1>5 DEF OldDatabase
<1>8. Whole(db')
  BY <1>1, <1>3, <1>4, <1>5, <1>6, <1>7, DatabaseRows DEF NoHalfSeed, Whole
<1> QED
  BY <1>1, <1>3, <1>4, <1>5, <1>8, SeederAssumption

\* COMMIT: the others have missed what s wrote, the client row among it.
LEMMA CommitStep ==
    ASSUME IInv, NEW s \in Seeders, Commit(s)
    PROVE  IInv'
<1> USE DEF IInv, Shape
<1>1. /\ pc[s] = "commit"
      /\ lockHolder = s
      /\ "client" \in writes[s]
      /\ db' = [row \in Rows |-> IF row \in writes[s] THEN Target(s)[row] ELSE db[row]]
      /\ missed' = [t \in Seeders |->
             IF t # s /\ pc[t] \in InTransaction THEN missed[t] \cup writes[s]
             ELSE IF t = s THEN {} ELSE missed[t]]
      /\ lockHolder' = NoSeeder
      /\ writes' = [writes EXCEPT ![s] = {}]
      /\ overtaken' = {t \in Seeders \ {s} :
             t \in overtaken \/ (writes[s] # {} /\ pc[t] \in InTransaction)}
      /\ UNCHANGED <<snapshot, edits>>
  BY DEF Commit, Publish, Progress, LockExcludes
<1>2. /\ \E at \in Ended : pc' = [pc EXCEPT ![s] = at]
      /\ cause' \in [Seeders -> Causes]
  BY DEF Commit, Fatal, Causes
<1>3. Shape'
  BY <1>1, <1>2, PublishedRows
<1>4. NoHalfSeed'
  BY PublishedRows DEF NoHalfSeed
<1>5. LockExcludes'
  BY <1>1, <1>2 DEF LockExcludes
<1>6. OldDatabase'
  BY <1>1, PublishedRows DEF OldDatabase
<1>7. SnapshotCurrent'
  BY <1>1, <1>2 DEF SnapshotCurrent
<1>8. Progress'
  BY <1>1, <1>2 DEF Progress, Settled, Target
<1>9. Overtaking'
  BY <1>1, <1>2, PublishedRows DEF Overtaking
<1>10. StaleSnapshotNeverCommits'
  BY <1>1, <1>2 DEF LockExcludes, StaleSnapshotNeverCommits
<1> QED
  BY <1>3, <1>4, <1>5, <1>6, <1>7, <1>8, <1>9, <1>10

\* An edit is missed by every transaction under way.
LEMMA EditStep ==
    ASSUME IInv, NEW edited \in Rows, Edit(edited)
    PROVE  IInv'
<1> USE DEF IInv, Shape
<1>1. PICK v \in EditTo(edited) : db' = [db EXCEPT ![edited] = v]
  BY DEF Edit
<1>2. /\ db["account"] = "present" /\ db["role"] # "absent"
      /\ missed' = [s \in Seeders |->
             IF pc[s] \in InTransaction THEN missed[s] \cup {edited} ELSE missed[s]]
      /\ edits' = edits + 1
      /\ UNCHANGED <<pc, snapshot, writes, lockHolder, overtaken, cause>>
  BY DEF Edit
<1>3. /\ edited \in {"role", "link", "client"}
      /\ edited = "role" => v \in {"bare", "granted"}
      /\ edited = "link" => v \in {"absent", "present"}
      /\ edited = "client" => v \in {"absent", "edited"}
  BY DEF EditTo
<1>4. /\ db \in [Rows -> {"absent", "present", "bare", "granted", "edited"} \cup URIs]
      /\ db["account"] \in {"absent", "present"}
      /\ db["credential"] \in {"absent", "present"}
      /\ db["role"] \in {"absent", "bare", "granted"}
      /\ db["link"] \in {"absent", "present"}
      /\ db["client"] \in {"absent", "edited"} \cup URIs
  BY DatabaseRows
<1>5. db' \in Databases
  <2>1. db' \in [Rows -> {"absent", "present", "bare", "granted", "edited"} \cup URIs]
    BY <1>1, <1>3, <1>4
  <2>2. \A row \in Rows : db'[row] = IF row = edited THEN v ELSE db[row]
    BY <1>1, <1>4
  <2> QED
    BY <1>3, <1>4, <2>1, <2>2, DatabaseRows
<1>6. Shape'
  BY <1>2, <1>5
<1>7. NoHalfSeed'
  BY <1>1, <1>2, <1>3, <1>4 DEF NoHalfSeed, Whole
<1>8. LockExcludes' /\ Progress'
  BY <1>2 DEF LockExcludes, Progress, Settled, Target
<1>9. OldDatabase'
  BY <1>1, <1>2, <1>3, <1>4 DEF OldDatabase
<1>10. SnapshotCurrent'
  BY <1>1, <1>2, <1>4 DEF SnapshotCurrent
<1>11. Overtaking' /\ StaleSnapshotNeverCommits'
  BY <1>2 DEF Overtaking, StaleSnapshotNeverCommits
<1> QED
  BY <1>6, <1>7, <1>8, <1>9, <1>10, <1>11

\* Steps of the server, and steps that change nothing.
LEMMA QuietStep ==
    ASSUME IInv, ServerAdvances \/ UNCHANGED vars
    PROVE  IInv'
<1>1. UNCHANGED <<db, pc, snapshot, missed, writes, lockHolder, overtaken, cause, edits>>
  BY DEF ServerAdvances, vars
<1> QED
  BY <1>1 DEF IInv, Shape, NoHalfSeed, LockExcludes, OldDatabase, SnapshotCurrent,
              Progress, Settled, Target, Overtaking, StaleSnapshotNeverCommits

-----------------------------------------------------------------------------

\* The inductive invariant holds in every reachable state.
THEOREM Invariance == Spec => []IInv
<1>1. ASSUME IInv, [Next]_vars
      PROVE  IInv'
  <2>1. ASSUME NEW s \in Seeders, RefuseCommit(s) \/ Kill(s)
        PROVE  IInv'
    BY <1>1, <2>1, RollbackStep DEF RefuseCommit, Kill, Causes
  <2>2. ASSUME NEW s \in Seeders, SeederStep(s)
        PROVE  IInv'
    BY <1>1, <2>2, OutsideStep, BeginStep, AccountStep, RoleStep, LinkStep, ClientStep,
       CommitStep DEF SeederStep
  <2> QED
    BY <1>1, <2>1, <2>2, OutsideStep, AcquireStep, EditStep, QuietStep DEF Next
<1> QED
  BY InitIInv, <1>1, PTL DEF Spec

\* Only the holder of the advisory lock is past it or has written anything.
THEOREM LockIsExclusive == Spec => []LockExcludes
BY Invariance, PTL DEF IInv

\* A run whose snapshot predates another run's writes does not reach COMMIT.
THEOREM OvertakenFails == Spec => []StaleSnapshotNeverCommits
BY Invariance, PTL DEF IInv

\* No account is visible without its credential, no link without its ends.
THEOREM AllOrNothing == Spec => []NoHalfSeed
BY Invariance, PTL DEF IInv

\* A commit leaves every row that nobody edited during the transaction in its
\* seeded state, the rows it found in place and did not write included.
CommitLeavesSeeded ==
    [][\A s \in Seeders :
          pc[s] = "commit" /\ pc'[s] # "commit" /\ cause'[s] \notin {"conflict", "killed"} =>
             \A row \in Rows \ missed[s] : db'[row] = Target(s)[row]]_vars

\* A commit leaves every row nobody else touched in its seeded state.
THEOREM CommitsAreComplete == Spec => CommitLeavesSeeded
<1>1. ASSUME IInv, [Next]_vars, NEW s \in Seeders,
             pc[s] = "commit", pc'[s] # "commit", cause'[s] \notin {"conflict", "killed"}
      PROVE  Commit(s)
  <2> USE <1>1 DEF IInv, Shape
  <2>1. ASSUME NEW t \in Seeders, NEW why \in {"conflict", "killed"}, Rollback(t, why)
        PROVE  FALSE
    BY <2>1 DEF Rollback, Fatal
  <2>2. ASSUME NEW t \in Seeders, RefuseCommit(t) \/ Kill(t)
        PROVE  FALSE
    BY <2>1, <2>2 DEF RefuseCommit, Kill
  <2>3. ASSUME NEW t \in Seeders,
               SeedAccount(t) \/ SeedRole(t) \/ SeedLink(t) \/ SeedClient(t)
        PROVE  FALSE
    BY <2>1, <2>3 DEF SeedAccount, SeedRole, SeedLink, SeedClient, Seed
  <2>4. ASSUME NEW t \in Seeders,
               \/ Start(t) \/ Connect(t) \/ CheckSchema(t)
               \/ BeginAndRequestLock(t) \/ AcquireLock(t)
        PROVE  FALSE
    BY <2>4 DEF Start, Connect, CheckSchema, Attempt, Fatal, BeginAndRequestLock, AcquireLock
  <2>5. ASSUME NEW t \in Seeders, Commit(t)
        PROVE  t = s
    BY <2>5 DEF Commit, LockExcludes
  <2>6. CASE (\E row \in Rows : Edit(row)) \/ ServerAdvances \/ UNCHANGED vars
    BY <2>6 DEF Edit, ServerAdvances, vars
  <2> QED
    BY <2>2, <2>3, <2>4, <2>5, <2>6 DEF Next, SeederStep
<1>2. IInv /\ [Next]_vars =>
        [\A s \in Seeders :
           pc[s] = "commit" /\ pc'[s] # "commit" /\ cause'[s] \notin {"conflict", "killed"} =>
              \A row \in Rows \ missed[s] : db'[row] = Target(s)[row]]_vars
  BY <1>1, Published
<1> QED
  BY Invariance, <1>2, PTL DEF Spec, CommitLeavesSeeded

-----------------------------------------------------------------------------

\* The counters stay within their bounds: a loop that goes on has a try left.
Counters ==
    /\ server \in {"down", "up", "migrated"}
    /\ tries \in [Seeders -> 0..MaxTries]
    /\ starts \in [Seeders -> 0..MaxRuns]
    /\ edits \in 0..MaxEdits
    /\ \A s \in Seeders : pc[s] \in {"connect", "schema"} => tries[s] < MaxTries

\* Each loop and each guard keeps its counter within its bound.
LEMMA CountersStep ==
    ASSUME IInv, Counters, [Next]_vars
    PROVE  Counters'
<1> USE SeederAssumption DEF IInv, Shape, Counters
<1>1. ASSUME NEW s \in Seeders, Start(s) PROVE Counters'
  BY <1>1 DEF Start, Fatal
<1>2. ASSUME NEW s \in Seeders, Connect(s) \/ CheckSchema(s) PROVE Counters'
  <2>1. \/ Attempt(s, "connect", "schema", server # "down")
        \/ Attempt(s, "schema", "begin", server = "migrated")
    BY <1>2 DEF Connect, CheckSchema
  <2>2. CASE tries[s] + 1 = MaxTries
    BY <2>1, <2>2 DEF Attempt, Fatal
  <2>3. CASE tries[s] + 1 # MaxTries
    <3>1. tries[s] \in Nat /\ tries[s] < MaxTries
      BY <2>1 DEF Attempt
    <3>2. tries[s] + 1 \in 0..MaxTries /\ tries[s] + 1 < MaxTries
      BY <2>3, <3>1
    <3> QED
      BY <2>1, <2>3, <3>2 DEF Attempt
  <2> QED
    BY <2>2, <2>3
<1>3. ASSUME NEW s \in Seeders, BeginAndRequestLock(s) \/ AcquireLock(s) PROVE Counters'
  BY <1>3 DEF BeginAndRequestLock, AcquireLock
<1>4. ASSUME NEW s \in Seeders, NEW why, Rollback(s, why) PROVE Counters'
  BY <1>4 DEF Rollback, Fatal
<1>5. ASSUME NEW s \in Seeders, RefuseCommit(s) \/ Kill(s) PROVE Counters'
  BY <1>4, <1>5 DEF RefuseCommit, Kill
<1>6. ASSUME NEW s \in Seeders, NEW at, NEW next \in {"role", "link", "client", "commit"},
             NEW rows, Seed(s, at, next, rows)
      PROVE  Counters'
  BY <1>4, <1>6 DEF Seed
<1>7. ASSUME NEW s \in Seeders,
             SeedAccount(s) \/ SeedRole(s) \/ SeedLink(s) \/ SeedClient(s)
      PROVE  Counters'
  BY <1>6, <1>7 DEF SeedAccount, SeedRole, SeedLink, SeedClient
<1>8. ASSUME NEW s \in Seeders, Commit(s) PROVE Counters'
  BY <1>8 DEF Commit, Publish, Fatal
<1>9. ASSUME NEW row \in Rows, Edit(row) PROVE Counters'
  BY <1>9 DEF Edit
<1>10. CASE ServerAdvances \/ UNCHANGED vars
  BY <1>10 DEF ServerAdvances, vars
<1> QED
  BY <1>1, <1>2, <1>3, <1>5, <1>7, <1>8, <1>9, <1>10 DEF Next, SeederStep

\* Every reachable state is well formed; no retry loop exceeds its tries.
THEOREM TypeCorrect == Spec => []TypeOK
<1>1. Init => Counters
  BY SeederAssumption DEF Init, Counters
<1>2. IInv /\ Counters /\ [Next]_vars => Counters'
  BY CountersStep
<1>3. IInv /\ Counters => TypeOK
  BY DEF IInv, Shape, Counters, TypeOK
<1> QED
  BY Invariance, <1>1, <1>2, <1>3, PTL DEF Spec

-----------------------------------------------------------------------------
(* The seeder implements SeedSpec. *)

\* What a transaction has written over was absent, if it was not what it had read;
\* and only a transaction misses anything.
NothingLost ==
    \A s \in Seeders :
        /\ \A row \in writes[s] \cap missed[s] : db[row] = "absent"
        /\ pc[s] \notin InTransaction => missed[s] = {}

\* An insert clashes with a row that is there, an update with one that was changed;
\* what is written is locked until the transaction ends.
LEMMA NothingLostStep ==
    ASSUME IInv, NothingLost, [Next]_vars
    PROVE  NothingLost'
<1> USE DEF IInv, Shape, NothingLost
<1>1. ASSUME NEW s \in Seeders,
             \/ Start(s) \/ Connect(s) \/ CheckSchema(s)
             \/ BeginAndRequestLock(s) \/ AcquireLock(s)
      PROVE  NothingLost'
  BY <1>1 DEF Start, Connect, CheckSchema, Attempt, Fatal, BeginAndRequestLock, AcquireLock
<1>2. ASSUME NEW s \in Seeders, NEW why, Rollback(s, why) PROVE NothingLost'
  BY <1>2 DEF Rollback, EndTransaction, Fatal
<1>3. ASSUME NEW s \in Seeders, RefuseCommit(s) \/ Kill(s) PROVE NothingLost'
  BY <1>2, <1>3 DEF RefuseCommit, Kill
<1>4. ASSUME NEW s \in Seeders, NEW at \in InTransaction, NEW next \in InTransaction,
             NEW rows \in SUBSET Rows, Seed(s, at, next, rows)
      PROVE  NothingLost'
  <2>1. CASE \A row \in rows : ~Clashes(s, row)
    <3>1. /\ writes' = [writes EXCEPT ![s] = @ \cup rows]
          /\ pc[s] = at /\ pc' = [pc EXCEPT ![s] = next]
          /\ UNCHANGED <<db, missed>>
      BY <1>2, <1>4, <2>1 DEF Seed
    <3>2. \A row \in rows \cap missed[s] : db[row] = "absent"
      BY <2>1 DEF Clashes
    <3> QED
      BY <3>1, <3>2
  <2>2. CASE \E row \in rows : Clashes(s, row)
    BY <1>2, <1>4, <2>2 DEF Seed
  <2> QED
    BY <2>1, <2>2
<1>5. ASSUME NEW s \in Seeders,
             SeedAccount(s) \/ SeedRole(s) \/ SeedLink(s) \/ SeedClient(s)
      PROVE  NothingLost'
  BY <1>4, <1>5 DEF SeedAccount, SeedRole, SeedLink, SeedClient
<1>6. ASSUME NEW s \in Seeders, Commit(s) PROVE NothingLost'
  <2>1. writes' = [writes EXCEPT ![s] = {}] /\ lockHolder = s
    BY <1>6 DEF Commit, Publish, LockExcludes
  <2>2. \A t \in Seeders : writes'[t] = {}
    BY <2>1 DEF LockExcludes
  <2>3. \A t \in Seeders : pc'[t] \notin InTransaction => missed'[t] = {}
    BY <1>6 DEF Commit, Publish, Fatal
  <2> QED
    BY <2>2, <2>3
<1>7. ASSUME NEW row \in Rows, Edit(row) PROVE NothingLost'
  <2>1. /\ \A s \in Seeders : row \notin writes[s] /\ missed'[s] \subseteq missed[s] \cup {row}
        /\ \A other \in Rows \ {row} : db'[other] = db[other]
        /\ \A s \in Seeders : pc[s] \notin InTransaction => missed'[s] = missed[s]
        /\ writes' = writes /\ pc' = pc
    BY <1>7, DatabaseRows DEF Edit
  <2> QED
    BY <2>1
<1>8. CASE ServerAdvances \/ UNCHANGED vars
  BY <1>8 DEF ServerAdvances, vars
<1> QED
  BY <1>1, <1>3, <1>5, <1>6, <1>7, <1>8 DEF Next, SeederStep

\* A step of one process is seen as a step of its run.
LEMMA OneRun ==
    ASSUME IInv, NEW s \in Seeders, NEW at,
           pc' = [pc EXCEPT ![s] = at],
           cause' = cause \/ \E why : cause' = [cause EXCEPT ![s] = why]
    PROVE  /\ Runs' = [Runs EXCEPT ![s] = Runs'[s]]
           /\ at \in InTransaction => Runs'[s] = "running"
           /\ at = "done" => Runs'[s] = "done"
           /\ at = "failed" => Runs'[s] = IF cause'[s] = "lost" THEN "lost" ELSE "failed"
           /\ at \in {"connect", "schema", "begin"} => Runs'[s] = "waiting"
BY DEF IInv, Shape, Runs

\* What a run is as SeedSpec sees it.
LEMMA RunsAre ==
    ASSUME IInv, NEW s \in Seeders
    PROVE  /\ Runs \in [Seeders -> {"waiting", "running", "done", "lost", "failed"}]
           /\ Runs[s] = "running" <=> pc[s] \in InTransaction
           /\ pc[s] \in {"idle", "connect", "schema", "begin"} => Runs[s] = "waiting"
BY DEF IInv, Shape, Runs

\* A step within a transaction is not seen.
LEMMA RunGoesOn ==
    ASSUME IInv, NEW s \in Seeders, pc[s] \in InTransaction, NEW next \in InTransaction,
           pc' = [pc EXCEPT ![s] = next], cause' = cause
    PROVE  Runs' = Runs
<1>1. \A t \in Seeders : (pc'[t] \in InTransaction /\ pc[t] \in InTransaction) \/ pc'[t] = pc[t]
  BY DEF IInv, Shape
<1>2. \A t \in Seeders : pc[t] \in InTransaction => pc[t] \notin Ended
  OBVIOUS
<1> QED
  BY <1>1, <1>2 DEF Runs

\* Outside its transaction a process starts, waits, gives up or begins.
LEMMA OutsideImplements ==
    ASSUME IInv, NEW s \in Seeders,
           Start(s) \/ Connect(s) \/ CheckSchema(s) \/ BeginAndRequestLock(s) \/ AcquireLock(s)
    PROVE  [Promise!Next]_(Promise!vars)
<1> USE DEF IInv, Shape
<1>1. UNCHANGED <<db, missed>>
  BY DEF Start, Connect, CheckSchema, Attempt, BeginAndRequestLock, AcquireLock
<1>2. CASE Start(s)
  <2>1. Runs[s] # "running" /\ Runs' \in {[Runs EXCEPT ![s] = "waiting"], [Runs EXCEPT ![s] = "failed"]}
    BY <1>2, OneRun, RunsAre DEF Start, Fatal
  <2> QED
    BY <1>1, <2>1 DEF Promise!Start, Promise!Next
<1>3. CASE Connect(s) \/ CheckSchema(s)
  <2>1. Runs[s] = "waiting"
    BY <1>3, RunsAre DEF Connect, CheckSchema, Attempt
  <2>2. \/ Runs' = Runs
        \/ Runs' = [Runs EXCEPT ![s] = "waiting"]
        \/ Runs' = [Runs EXCEPT ![s] = "failed"]
    <3>1. CASE pc' = pc /\ cause' = cause
      BY <3>1 DEF Runs
    <3>2. CASE \E next \in {"schema", "begin"} : pc' = [pc EXCEPT ![s] = next] /\ cause' = cause
      BY <3>2, OneRun
    <3>3. CASE Fatal(s, "timeout")
      BY <3>3, OneRun DEF Fatal
    <3> QED
      BY <1>3, <3>1, <3>2, <3>3 DEF Connect, CheckSchema, Attempt
  <2> QED
    BY <1>1, <2>1, <2>2 DEF Promise!Start, Promise!Next, Promise!vars
<1>4. CASE BeginAndRequestLock(s)
  <2>1. Runs[s] = "waiting" /\ Runs' = [Runs EXCEPT ![s] = "running"]
    BY <1>4, OneRun, RunsAre DEF BeginAndRequestLock
  <2> QED
    BY <1>1, <2>1 DEF Promise!Begin, Promise!Next
<1>5. CASE AcquireLock(s)
  <2>1. Runs' = Runs
    BY <1>5, RunGoesOn DEF AcquireLock
  <2> QED
    BY <1>1, <2>1 DEF Promise!vars
<1> QED
  BY <1>2, <1>3, <1>4, <1>5

\* A rollback is a run that fails; a run that was waiting is given up.
LEMMA RollbackImplements ==
    ASSUME IInv, NothingLost, NEW s \in Seeders, NEW why \in Causes \ {"lost"}, Rollback(s, why),
           pc[s] \notin {"idle"} \cup Ended
    PROVE  [Promise!Next]_(Promise!vars)
<1> USE DEF IInv, Shape
<1>1. Runs' = [Runs EXCEPT ![s] = "failed"]
  BY OneRun DEF Rollback, Fatal
<1>2. db' = db /\ missed' = [missed EXCEPT ![s] = {}]
  BY DEF Rollback
<1>3. CASE Runs[s] = "running"
  BY <1>1, <1>2, <1>3 DEF Promise!Fail, Promise!Next
<1>4. CASE Runs[s] # "running"
  <2>1. missed[s] = {}
    BY <1>4, RunsAre DEF NothingLost
  <2>2. missed' = missed
    BY <1>2, <2>1
  <2> QED
    BY <1>1, <1>2, <1>4, <2>2 DEF Promise!Start, Promise!Next
<1> QED
  BY <1>3, <1>4

\* A block either goes on, which SeedSpec does not see, or is rolled back.
LEMMA BlockImplements ==
    ASSUME IInv, NothingLost, NEW s \in Seeders,
           SeedAccount(s) \/ SeedRole(s) \/ SeedLink(s) \/ SeedClient(s)
    PROVE  [Promise!Next]_(Promise!vars)
<1> USE DEF IInv, Shape
<1>1. PICK at \in InTransaction, next \in InTransaction, rows \in SUBSET Rows :
          Seed(s, at, next, rows)
  BY DEF SeedAccount, SeedRole, SeedLink, SeedClient
<1>2. CASE Rollback(s, "conflict")
  BY <1>1, <1>2, RollbackImplements DEF Seed, Causes
<1>3. CASE ~Rollback(s, "conflict")
  <2>1. pc[s] = at /\ pc' = [pc EXCEPT ![s] = next] /\ UNCHANGED <<db, missed, cause>>
    BY <1>1, <1>3 DEF Seed
  <2>2. Runs' = Runs
    BY <2>1, RunGoesOn
  <2> QED
    BY <2>1, <2>2 DEF Promise!vars
<1> QED
  BY <1>2, <1>3

\* COMMIT is the instant at which a run takes effect.
LEMMA CommitImplements ==
    ASSUME IInv, NothingLost, NEW s \in Seeders, Commit(s)
    PROVE  Promise!Seed(s)
<1> USE DEF IInv, Shape
<1>1. /\ pc[s] = "commit"
      /\ db' = [row \in Rows |-> IF row \in writes[s] THEN Target(s)[row] ELSE db[row]]
      /\ missed' = [t \in Seeders |->
             IF t # s /\ pc[t] \in InTransaction THEN missed[t] \cup writes[s]
             ELSE IF t = s THEN {} ELSE missed[t]]
  BY DEF Commit, Publish
<1>2. \A row \in Rows : Promise!Wanted(s, row) = Target(s)[row]
  BY DEF Promise!Wanted, Target
<1>3. Runs[s] = "running"
  BY <1>1, RunsAre
<1>4. Runs' \in {[Runs EXCEPT ![s] = "done"], [Runs EXCEPT ![s] = "lost"]}
  <2>1. CASE pc' = [pc EXCEPT ![s] = "done"] /\ cause' = cause
    BY <2>1, OneRun
  <2>2. CASE Fatal(s, "lost")
    BY <2>2, OneRun DEF Fatal
  <2> QED
    BY <2>1, <2>2 DEF Commit
<1>5. "client" \in writes[s] /\ writes[s] \in SUBSET Rows
  BY <1>1 DEF Progress
<1>6. \A row \in Rows \ writes[s] : row \in missed[s] \/ db[row] = Promise!Wanted(s, row)
  <2>1. ASSUME NEW row \in Rows \ writes[s], row \notin missed[s]
        PROVE  db[row] = Promise!Wanted(s, row)
    BY <1>1, <1>2, <2>1 DEF SnapshotCurrent, Progress, Settled
  <2> QED
    BY <2>1
<1>7. \A row \in writes[s] : row \in missed[s] => db[row] = "absent"
  BY DEF NothingLost
<1>8. db' = [row \in Rows |-> IF row \in writes[s] THEN Promise!Wanted(s, row) ELSE db[row]]
  BY <1>1, <1>2
<1>9. Promise!Notice(s, writes[s])
  BY <1>1, RunsAre DEF Promise!Notice
<1> QED
  BY <1>3, <1>4, <1>5, <1>6, <1>7, <1>8, <1>9 DEF Promise!Seed, Promise!Rows

\* An edit is one.
LEMMA EditImplements ==
    ASSUME IInv, NEW row \in Rows, Edit(row)
    PROVE  Promise!Edit(row)
<1>1. /\ db["account"] = "present" /\ db["role"] # "absent"
      /\ \E v \in EditTo(row) : db' = [db EXCEPT ![row] = v]
      /\ missed' = [s \in Seeders |->
             IF pc[s] \in InTransaction THEN missed[s] \cup {row} ELSE missed[s]]
      /\ UNCHANGED <<pc, cause>>
  BY DEF Edit
<1>2. Promise!EditTo(row) = EditTo(row)
  BY DEF Promise!EditTo, EditTo
<1>3. Runs' = Runs
  BY <1>1 DEF Runs
<1>4. missed' = [s \in Seeders |->
          IF Runs[s] = "running" THEN missed[s] \cup {row} ELSE missed[s]]
  BY <1>1, RunsAre
<1> QED
  BY <1>1, <1>2, <1>3, <1>4 DEF Promise!Edit

\* The seeder, with its retries, its lock and its stale snapshots, implements SeedSpec:
\* each run takes effect at one instant or not at all, complete but for what others
\* changed meanwhile, and no change of theirs is overwritten.
THEOREM Implementation == Spec => ImplementsPromise
<1>1. Init => Promise!Init /\ NothingLost
  BY DEF Init, Whole, Runs, NothingLost, Promise!Init, Promise!Whole
<1>2. IInv /\ NothingLost /\ [Next]_vars => [Promise!Next]_(Promise!vars)
  <2> SUFFICES ASSUME IInv, NothingLost, [Next]_vars PROVE [Promise!Next]_(Promise!vars)
    OBVIOUS
  <2>1. ASSUME NEW s \in Seeders, RefuseCommit(s) \/ Kill(s)
        PROVE  [Promise!Next]_(Promise!vars)
    BY <2>1, RollbackImplements DEF RefuseCommit, Kill, Causes
  <2>2. ASSUME NEW s \in Seeders, Start(s) \/ SeederStep(s) \/ AcquireLock(s)
        PROVE  [Promise!Next]_(Promise!vars)
    BY <2>2, OutsideImplements, BlockImplements, CommitImplements DEF SeederStep, Promise!Next
  <2>3. ASSUME NEW row \in Rows, Edit(row)
        PROVE  [Promise!Next]_(Promise!vars)
    BY <2>3, EditImplements DEF Promise!Next, Promise!Rows
  <2>4. CASE ServerAdvances \/ UNCHANGED vars
    BY <2>4 DEF ServerAdvances, vars, Runs, Promise!vars
  <2> QED
    BY <2>1, <2>2, <2>3, <2>4 DEF Next
<1> QED
  BY Invariance, NothingLostStep, <1>1, <1>2, PTL DEF Spec, ImplementsPromise, Promise!Spec

-----------------------------------------------------------------------------
(* Runs end *)

\* How many steps a run can still take, from where it is and after how many failures.
StepsLeft(at, failed) ==
    CASE at = "connect" -> MaxTries - failed + MaxTries + 7
      [] at = "schema"  -> MaxTries - failed + 7
      [] at = "begin"   -> 7
      [] at = "lock"    -> 6
      [] at = "account" -> 5
      [] at = "role"    -> 4
      [] at = "link"    -> 3
      [] at = "client"  -> 2
      [] at = "commit"  -> 1
      [] OTHER          -> 0

\* A run that was started comes closer to its end with each of its steps, whatever the
\* database, the other seeders and the operator do; nobody takes it back.  It ends after
\* 2 * MaxTries + 7 steps at the latest.  Together with Fairness this is why EveryRunEnds.
RunsAdvance ==
    [][\A s \in Seeders : pc[s] \notin {"idle"} \cup Ended =>
          \/ pc'[s] = pc[s] /\ tries'[s] = tries[s]
          \/ StepsLeft(pc'[s], tries'[s]) < StepsLeft(pc[s], tries[s])]_vars

\* The steps that are left in each place.
LEMMA StepsLeftAre ==
    /\ \A n : StepsLeft("connect", n) = MaxTries - n + MaxTries + 7
    /\ \A n : StepsLeft("schema", n) = MaxTries - n + 7
    /\ \A n : /\ StepsLeft("begin", n) = 7 /\ StepsLeft("lock", n) = 6
              /\ StepsLeft("account", n) = 5 /\ StepsLeft("role", n) = 4
              /\ StepsLeft("link", n) = 3 /\ StepsLeft("client", n) = 2
              /\ StepsLeft("commit", n) = 1
              /\ StepsLeft("done", n) = 0 /\ StepsLeft("failed", n) = 0
BY DEF StepsLeft

\* A run that fails has no step left.
LEMMA NoStepsAfterFatal ==
    ASSUME IInv, Counters, NEW s \in Seeders, NEW why, Fatal(s, why),
           pc[s] \notin {"idle"} \cup Ended
    PROVE  StepsLeft(pc'[s], tries'[s]) < StepsLeft(pc[s], tries[s])
<1>1. StepsLeft(pc'[s], tries'[s]) = 0
  BY StepsLeftAre DEF Fatal, IInv, Shape
<1>2. MaxTries \in Nat /\ tries[s] \in Nat /\ tries[s] <= MaxTries
  BY DEF Counters
<1>3. StepsLeft("connect", tries[s]) > 0 /\ StepsLeft("schema", tries[s]) > 0
  BY <1>2, StepsLeftAre
<1>4. pc[s] \in InTransaction \cup {"connect", "schema", "begin"}
  BY DEF IInv, Shape
<1> QED
  BY <1>1, <1>3, <1>4, StepsLeftAre

\* The retry loops count, and the second one starts over.
LEMMA LoopsAdvance ==
    ASSUME IInv, Counters, NEW s \in Seeders, Connect(s) \/ CheckSchema(s)
    PROVE  StepsLeft(pc'[s], tries'[s]) < StepsLeft(pc[s], tries[s])
<1>1. /\ MaxTries \in Nat /\ tries[s] \in Nat
      /\ pc[s] \in {"connect", "schema"} /\ tries[s] < MaxTries
  BY DEF Counters, Connect, CheckSchema, Attempt
<1>2. CASE \E why : Fatal(s, why)
  BY <1>1, <1>2, NoStepsAfterFatal
<1>3. CASE pc' = pc /\ tries' = [tries EXCEPT ![s] = @ + 1]
  <2>1. pc'[s] = pc[s] /\ tries'[s] = tries[s] + 1
    BY <1>3 DEF Counters
  <2> QED
    BY <1>1, <2>1, StepsLeftAre
<1>4. CASE \E next \in {"schema", "begin"} :
          /\ pc' = [pc EXCEPT ![s] = next] /\ tries' = [tries EXCEPT ![s] = 0]
          /\ pc[s] = IF next = "schema" THEN "connect" ELSE "schema"
  <2>1. tries'[s] = 0 /\ \/ pc[s] = "connect" /\ pc'[s] = "schema"
                         \/ pc[s] = "schema" /\ pc'[s] = "begin"
    BY <1>4 DEF Counters, IInv, Shape
  <2> QED
    BY <1>1, <2>1, StepsLeftAre
<1> QED
  BY <1>2, <1>3, <1>4 DEF Connect, CheckSchema, Attempt

\* In its transaction a run goes from statement to statement, or it fails.
LEMMA StatementsAdvance ==
    ASSUME IInv, Counters, NEW s \in Seeders,
           \/ BeginAndRequestLock(s) \/ AcquireLock(s)
           \/ SeedAccount(s) \/ SeedRole(s) \/ SeedLink(s) \/ SeedClient(s)
           \/ Commit(s) \/ RefuseCommit(s) \/ Kill(s)
    PROVE  StepsLeft(pc'[s], tries'[s]) < StepsLeft(pc[s], tries[s])
<1>1. pc[s] \notin {"idle"} \cup Ended
  BY DEF BeginAndRequestLock, AcquireLock, SeedAccount, SeedRole, SeedLink, SeedClient, Seed,
         Commit, RefuseCommit, Kill
<1>2. CASE \E why : Fatal(s, why)
  BY <1>1, <1>2, NoStepsAfterFatal
<1>3. CASE ~\E why : Fatal(s, why)
  <2>1. \/ pc[s] = "begin" /\ pc' = [pc EXCEPT ![s] = "lock"]
        \/ pc[s] = "lock" /\ pc' = [pc EXCEPT ![s] = "account"]
        \/ pc[s] = "account" /\ pc' = [pc EXCEPT ![s] = "role"]
        \/ pc[s] = "role" /\ pc' = [pc EXCEPT ![s] = "link"]
        \/ pc[s] = "link" /\ pc' = [pc EXCEPT ![s] = "client"]
        \/ pc[s] = "client" /\ pc' = [pc EXCEPT ![s] = "commit"]
        \/ pc[s] = "commit" /\ pc' = [pc EXCEPT ![s] = "done"]
    BY <1>3 DEF BeginAndRequestLock, AcquireLock, SeedAccount, SeedRole, SeedLink, SeedClient, Seed,
                Commit, RefuseCommit, Kill, Rollback
  <2> QED
    BY <2>1, StepsLeftAre DEF IInv, Shape
<1> QED
  BY <1>2, <1>3

\* Nobody takes a run back, and each of its steps is one of finitely many.
THEOREM EachRunAdvances == Spec => RunsAdvance
<1>1. Init => Counters
  BY SeederAssumption DEF Init, Counters
<1>2. IInv /\ Counters /\ [Next]_vars => Counters'
  BY CountersStep
<1>3. IInv /\ Counters /\ [Next]_vars =>
        [\A s \in Seeders : pc[s] \notin {"idle"} \cup Ended =>
           \/ pc'[s] = pc[s] /\ tries'[s] = tries[s]
           \/ StepsLeft(pc'[s], tries'[s]) < StepsLeft(pc[s], tries[s])]_vars
  <2> SUFFICES ASSUME IInv, Counters, Next, NEW s \in Seeders, pc[s] \notin {"idle"} \cup Ended
               PROVE  \/ pc'[s] = pc[s] /\ tries'[s] = tries[s]
                      \/ StepsLeft(pc'[s], tries'[s]) < StepsLeft(pc[s], tries[s])
    OBVIOUS
  <2>1. ASSUME NEW t \in Seeders, Start(t) \/ SeederStep(t) \/ AcquireLock(t) \/ RefuseCommit(t) \/ Kill(t)
        PROVE  \/ pc'[s] = pc[s] /\ tries'[s] = tries[s]
               \/ StepsLeft(pc'[s], tries'[s]) < StepsLeft(pc[s], tries[s])
    <3>1. CASE t = s
      <4>1. ~Start(s)
        BY DEF Start
      <4> QED
        BY <2>1, <3>1, <4>1, LoopsAdvance, StatementsAdvance DEF SeederStep
    <3>2. CASE t # s
      <4>1. \E at : pc' = pc \/ pc' = [pc EXCEPT ![t] = at]
        BY <2>1 DEF SeederStep, Start, Fatal, Connect, CheckSchema, Attempt, BeginAndRequestLock,
           AcquireLock, SeedAccount, SeedRole, SeedLink, SeedClient, Seed, Rollback, Commit,
           RefuseCommit, Kill
      <4>2. \E n : tries' = tries \/ tries' = [tries EXCEPT ![t] = n]
        BY <2>1 DEF SeederStep, Start, Fatal, Connect, CheckSchema, Attempt, BeginAndRequestLock,
           AcquireLock, SeedAccount, SeedRole, SeedLink, SeedClient, Seed, Rollback, Commit,
           Publish, RefuseCommit, Kill
      <4> QED
        BY <3>2, <4>1, <4>2 DEF IInv, Shape, Counters
    <3> QED
      BY <3>1, <3>2
  <2>2. CASE (\E row \in Rows : Edit(row)) \/ ServerAdvances
    BY <2>2 DEF Edit, ServerAdvances
  <2> QED
    BY <2>1, <2>2 DEF Next
<1> QED
  BY Invariance, <1>1, <1>2, <1>3, PTL DEF Spec, RunsAdvance

=============================================================================
