----------------------------- MODULE MCSudoGate -----------------------------
(* Instances of SudoGate for TLC; the constants are given in the .cfg files. *)
EXTENDS SudoGate
=============================================================================
