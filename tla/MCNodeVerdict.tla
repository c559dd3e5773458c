---------------------------- MODULE MCNodeVerdict ----------------------------
(* Instances of the coordinator's verdicts small enough for TLC. *)
EXTENDS NodeVerdict

CONSTANTS n1, n2, l1

OneLane == [n \in Nodes |-> l1]
=============================================================================
