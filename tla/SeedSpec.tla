------------------------------ MODULE SeedSpec ------------------------------
(***************************************************************************)
(* What the seeder promises, without retries, transactions, snapshots and  *)
(* the lock: a run takes effect at one instant or not at all.  It leaves   *)
(* the rows as it would have them, those excepted that others changed      *)
(* while it ran; of these it writes only what they removed, so no change   *)
(* of another seeder or of an operator is lost.                            *)
(***************************************************************************)
CONSTANTS
    Seeders,        \* processes that may run main()
    RedirectURIs    \* RedirectURIs[s]: the value seeder s is started with

VARIABLES
    db,        \* the rows everyone sees
    run,       \* how far each seeder's run has come
    changed    \* rows that others changed while it was running

vars == <<db, run, changed>>

Rows == {"account", "credential", "role", "link", "client"}

\* No account without its credential, no link without its two ends.
Whole ==
    /\ db["account"] = db["credential"]
    /\ db["link"] = "present" => db["account"] = "present" /\ db["role"] # "absent"

Init ==
    /\ Whole
    /\ run = [s \in Seeders |-> "waiting"]
    /\ changed = [s \in Seeders |-> {}]

\* The row as a run of s would have it.
Wanted(s, row) ==
    CASE row = "role"   -> "granted"
      [] row = "client" -> RedirectURIs[s]
      [] OTHER          -> "present"

\* The runs under way, but for s, see that rows changed.
Notice(s, rows) ==
    changed' = [t \in Seeders |->
        IF t = s THEN {} ELSE IF run[t] = "running" THEN changed[t] \cup rows ELSE changed[t]]

\* Started, again or for the first time; or given up before anything was read.
Start(s) ==
    /\ run[s] # "running"
    /\ run' \in {[run EXCEPT ![s] = "waiting"], [run EXCEPT ![s] = "failed"]}
    /\ UNCHANGED <<db, changed>>

Begin(s) ==
    /\ run[s] = "waiting"
    /\ run' = [run EXCEPT ![s] = "running"]
    /\ UNCHANGED <<db, changed>>

\* The run takes effect.  Its answer may be lost, so that it seems to have failed.
Seed(s) ==
    /\ run[s] = "running"
    /\ \E written \in SUBSET Rows :
           /\ "client" \in written
           /\ \A row \in Rows \ written : row \in changed[s] \/ db[row] = Wanted(s, row)
           /\ \A row \in written : row \in changed[s] => db[row] = "absent"
           /\ db' = [row \in Rows |-> IF row \in written THEN Wanted(s, row) ELSE db[row]]
           /\ Notice(s, written)
    /\ run' \in {[run EXCEPT ![s] = "done"], [run EXCEPT ![s] = "lost"]}

\* It fails, or is stopped, without a trace.
Fail(s) ==
    /\ run[s] = "running"
    /\ run' = [run EXCEPT ![s] = "failed"]
    /\ changed' = [changed EXCEPT ![s] = {}]
    /\ UNCHANGED db

\* An operator changes the role's permissions, the link or the client.
EditTo(row) ==
    CASE row = "role"   -> {"bare", "granted"}
      [] row = "link"   -> {"absent", "present"}
      [] row = "client" -> {"absent", "edited"}
      [] OTHER          -> {}

Edit(row) ==
    /\ db["account"] = "present" /\ db["role"] # "absent"
    /\ \E v \in EditTo(row) : db' = [db EXCEPT ![row] = v]
    /\ changed' = [s \in Seeders |->
           IF run[s] = "running" THEN changed[s] \cup {row} ELSE changed[s]]
    /\ UNCHANGED run

Next ==
    \/ \E s \in Seeders : Start(s) \/ Begin(s) \/ Seed(s) \/ Fail(s)
    \/ \E row \in Rows : Edit(row)

Spec == Init /\ [][Next]_vars

=============================================================================
