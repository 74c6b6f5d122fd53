---------------------------- MODULE MCMigrations ----------------------------
(* Small instances of Migrations for TLC. *)
EXTENDS Migrations

CONSTANTS r1, r2, r3, a, b

Symmetry == Permutations(Overlapping) \cup Permutations(Scripts)
=============================================================================
