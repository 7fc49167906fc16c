--------------------------- MODULE MCUserDialogs ---------------------------
(***************************************************************************)
(* Instances of UserDialogs for TLC.  The own account starts without       *)
(* roles: no operation is asked for it.  The others start with none or     *)
(* with all: the first operations assign, or remove.                       *)
(***************************************************************************)
EXTENDS UserDialogs

MCInit ==
    /\ Init
    /\ roles[Self] = {}
    /\ \A a \in Accounts \ {Self} : roles[a] \in {{}, Roles}

MCSpec == MCInit /\ [][Next]_vars /\ Fairness
=============================================================================
