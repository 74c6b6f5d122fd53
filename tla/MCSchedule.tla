----------------------------- MODULE MCSchedule -----------------------------
(* Small instances of Schedule for TLC. *)
EXTENDS Schedule

CONSTANTS c1, c2, tick, once
=============================================================================
