----------------------------- MODULE MCUserTable -----------------------------
(* Instances of UserTable for TLC. *)
EXTENDS UserTable, TLC

CONSTANTS self, a, b, r1, r2, w1, w2

MCListed == <<self, a>>

Slots == Permutations(Reads) \cup Permutations(Writes)
=============================================================================
