-------------------------- MODULE MCLaneResurrection --------------------------
(* Instances of the lanes of a run small enough for TLC. *)
EXTENDS LaneResurrection, TLC

CONSTANTS p, q, a, b, c

\* A task that needs another, and a second platform.
TwoPlatforms == (a :> p) @@ (b :> p) @@ (c :> q)

\* A task that needs another, and one that needs none.
OnePlatform == [t \in Tasks |-> p]

BNeedsA == [t \in Tasks |-> IF t = b THEN {a} ELSE {}]
=============================================================================
