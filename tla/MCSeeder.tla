------------------------------ MODULE MCSeeder ------------------------------
(* Instances of Seeder for TLC. *)
EXTENDS Seeder

CONSTANTS s1, s2, s3

\* The first two seeders are started with different redirect URIs; a third, if
\* there is one, is misconfigured.
MCRedirectURIs == [s \in Seeders |-> IF s = s1 THEN "one" ELSE "two"]
=============================================================================
