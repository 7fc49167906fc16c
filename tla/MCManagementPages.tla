------------------------- MODULE MCManagementPages -------------------------
(***************************************************************************)
(* Instances of ManagementPages for TLC.  The server starts empty: Record, *)
(* ForeignSave, ForeignChange and ServerChanges reach every other state of *)
(* it before the first request of the mounted section is answered.         *)
(***************************************************************************)
EXTENDS ManagementPages

Any == CHOOSE s \in Slots : TRUE

MCInit ==
    /\ Init
    /\ section # "clients" => kind = [c \in Clients |-> "absent"]
    /\ granted = [a \in Accounts |-> {}]
    /\ entries = [f \in Filters |-> 0]
    /\ stored = [f \in Fields |-> Default]
    /\ ready \in Healthy
    /\ \A s \in Slots : auditCalls[s] = Free <=> s # Any
    /\ \A s \in Slots : clientCalls[s] = Free <=> s # Any
    /\ \A s \in Slots : refreshes[s] = Free <=> s # Any

MCSpec == MCInit /\ [][Next]_vars
=============================================================================
