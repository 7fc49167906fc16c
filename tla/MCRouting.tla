----------------------------- MODULE MCRouting -----------------------------
(* Instances of Routing for TLC: at the root, and below /identity-admin. *)
EXTENDS Routing

MCBases == {<<>>, <<"identity-admin">>}
=============================================================================
