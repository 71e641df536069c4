----------------------------- MODULE MCSampleSeed -----------------------------
(* Instances of SampleSeed for TLC. *)
EXTENDS SampleSeed

CONSTANTS c1, c2, c3   \* clicks
===============================================================================
