--------------------------- MODULE MCStatusPoster ---------------------------
(* Small instances of StatusPoster for TLC. *)
EXTENDS StatusPoster, TLC

CONSTANTS c1, c2

OneContext == {c1}
TwoContexts == {c1, c2}
=============================================================================
