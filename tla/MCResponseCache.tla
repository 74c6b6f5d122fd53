-------------------------- MODULE MCResponseCache --------------------------
(* Small instances of ResponseCache for TLC. *)
EXTENDS ResponseCache, TLC

CONSTANTS q1, q2, q3, k1, k2

Symmetry == Permutations(Requests) \cup Permutations(Keys)
============================================================================
