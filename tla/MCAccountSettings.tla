------------------------- MODULE MCAccountSettings -------------------------
(***************************************************************************)
(* Instances of AccountSettings for TLC: the first visit uses one slot, to *)
(* which every other initial state is the same up to a renaming of slots.  *)
(***************************************************************************)
EXTENDS AccountSettings

Any == CHOOSE s \in Slots : TRUE

MCInit ==
    /\ Init
    /\ \A s \in Slots : mfaTasks[s] = Free <=> s # Any
    /\ \A s \in Slots : keyTasks[s] = Free <=> s # Any
    /\ \A s \in Slots : sessionTasks[s] = Free <=> s # Any
    \* What does not belong to the tab has one value.
    /\ activeTab # "profile" => profile = CHOOSE e \in Emails : TRUE
    /\ activeTab # "mfa" => ~enabled
    /\ activeTab # "passkeys" => keys = {} /\ ~strong /\ ~sudoActive
    /\ activeTab # "sessions" => signedIn = Sessions

MCSpec == MCInit /\ [][Next]_vars /\ Fairness
=============================================================================
