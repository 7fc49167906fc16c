------------------------------ MODULE MCLogin ------------------------------
(* Instance of Login for TLC. *)
EXTENDS Login
=============================================================================
