------------------------------ MODULE LaneNode ------------------------------
(***************************************************************************)
(* What a coordinator may hear of the tasks of a lane, whatever the lane   *)
(* is made of: of each its execution, the status the lane gives it,        *)
(* whether the execution has said a line, and whether its log has ended.   *)
(* LaneRunner implements it; NodeVerdict hears lanes that do.              *)
(*                                                                         *)
(* A move is one call that sends a frame or changes a status (runner.ts    *)
(* setNode, logTail.ts append, end, reset).  A turn of the lane's event    *)
(* loop makes up to three of one task: a child that never came to be is    *)
(* said so, failed and ended in one; a task that is reset starts again.    *)
(***************************************************************************)
EXTENDS Naturals

CONSTANT Nodes   \* the tasks

VARIABLE node    \* what there is to hear of each

Fresh(e) == [exec |-> e, did |-> "pending", said |-> FALSE, closed |-> FALSE]

(* What each move makes of a task that is v: nothing, where it cannot be made. *)

Start(v) == {w \in {[v EXCEPT !.did = "running"]} : v.did = "pending"}

Skip(v) == {w \in {[v EXCEPT !.did = "skipped", !.closed = TRUE]} : v.did = "pending"}

Write(v) == {w \in {[v EXCEPT !.said = TRUE]} : v.did \in {"running", "done"} /\ ~v.closed}

Exit(v) == {w \in {[v EXCEPT !.did = "done"]} : v.did = "running"}

EndLog(v) == {w \in {[v EXCEPT !.closed = TRUE]} : v.did = "done"}

\* An operator's cancel has the last word on the log.
Cancel(v) == {w \in {[v EXCEPT !.did = "done", !.said = TRUE, !.closed = TRUE]} :
                  v.did \in {"pending", "running"}}

\* A reset, of the task or of what it needs, in whatever state it is.
Rerun(v) == {Fresh(v.exec + 1)}

Moves(v) == Start(v) \cup Skip(v) \cup Write(v) \cup Exit(v) \cup EndLog(v)
            \cup Cancel(v) \cup Rerun(v)

After(v) == {v} \cup Moves(v)

Turn(v, w) == \E a \in After(v) : \E b \in After(a) : w \in After(b)

-----------------------------------------------------------------------------
Init == node = [n \in Nodes |-> Fresh(0)]

Next ==
    /\ node' = [n \in Nodes |-> node'[n]]
    /\ \A n \in Nodes : Turn(node[n], node'[n])

Spec == Init /\ [][Next]_node
=============================================================================
