----------------------------- MODULE OneEffect -----------------------------
(***************************************************************************)
(* What an idempotent request promises, whatever is lost on the way        *)
(* (run-history/src/receipts.ts, recovery.ts): of its two possible effects *)
(* - nodes of the live run are reset, or a new run is started - at most    *)
(* one ever happens, and an answer that speaks of the effect is true when  *)
(* it is given and stays true.                                             *)
(***************************************************************************)
VARIABLES effect,   \* "none", "live" or "run"
          told      \* the kinds of answers that callers were given

vars == <<effect, told>>

Kinds == {"live", "partial", "relaunched", "moved", "refused", "nothing"}

\* Answers after which the request must not act at all: nothing happened,
\* it was refused.  After "moved" (a stale guard) no run may be started.
Closing == {"nothing", "refused"}

TypeOK == effect \in {"none", "live", "run"} /\ told \subseteq Kinds

Init == effect = "none" /\ told = {}

Act ==
    /\ effect = "none" /\ told \cap Closing = {}
    /\ \/ effect' = "live"
       \/ effect' = "run" /\ "moved" \notin told
    /\ UNCHANGED told

True(k) ==
    CASE k \in {"live", "partial"} -> effect = "live"
      [] k = "relaunched" -> effect = "run"
      [] k = "moved" -> effect \in {"none", "live"}
      [] k \in Closing -> effect = "none"

Answer(k) ==
    /\ True(k)
    /\ told' = told \cup {k}
    /\ UNCHANGED effect

Next == Act \/ \E k \in Kinds : Answer(k)

Spec == Init /\ [][Next]_vars
=============================================================================
