------------------------- MODULE MCMessageDispatch -------------------------
(* Small instances of MessageDispatch for TLC. *)
EXTENDS MessageDispatch

CONSTANTS c1, c2, k1, p1, p2, alice, bob
============================================================================
