---------------------------- MODULE MCLaneRunner ----------------------------
(* Instances of the lane runner small enough for TLC. *)
EXTENDS LaneRunner

CONSTANTS a, b

Chain == [r \in {a, b} |-> IF r = b THEN {a} ELSE {}]
=============================================================================
