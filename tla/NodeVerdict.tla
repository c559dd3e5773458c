----------------------------- MODULE NodeVerdict -----------------------------
(***************************************************************************)
(* What the coordinator of a run makes of its lanes: a node's status and   *)
(* its log reach it on two streams that are not ordered with one another.  *)
(* The verdict gate (coordinator/verdictGate.ts) holds a verdict until the *)
(* log has ended, the drain (lane.ts, run.ts) bounds the wait, and the     *)
(* history (history.ts) records one attempt after another.                 *)
(*                                                                         *)
(* A step is one turn of the event loop: a frame, a drain's answer, an     *)
(* operator's call.  A handler runs to its end, with every release,        *)
(* publication and seal in it.  An execution of a recipe writes one line,  *)
(* and a cancel one; a node's push log, which holds no verdict, is left    *)
(* out.  Of each node the lane makes the moves that LaneNode lists.        *)
(***************************************************************************)
EXTENDS Naturals, Sequences, FiniteSets

CONSTANTS
    Nodes,      \* the recipe nodes of the run
    Lanes,      \* the lanes that run them
    LaneOf,     \* the lane of each node
    MaxReruns,  \* bound: nodes are reset until one has been reset so often
    MaxFlight   \* bound: status frames a lane has on the wire

ASSUME LaneAssumption == LaneOf \in [Nodes -> Lanes] /\ MaxReruns \in Nat

VARIABLES
    exec,    \* the lane's execution of each node; a reset begins another
    did,     \* the status the lane gives it
    wrote,   \* the executions that have written their line
    closed,  \* the lane has ended the node's log
    wire,    \* status frames on their way from each lane
    out,     \* log frames on their way for each node
    alive,   \* the lanes that still send
    lost,    \* the lanes that died or were dropped by the operator
    pub,     \* the status the run has published
    held,    \* the verdict the gate withholds
    sink,    \* the node's log as the coordinator serves it
    drained, \* nodes whose log the lane has delivered to its end
    drain,   \* the lanes the drain in flight still waits for
    over,    \* "no", then "stopping" on an interrupt, then "yes"
    att      \* the attempts the history records

laneVars == <<exec, did, wrote, closed>>
coordVars == <<alive, lost, pub, held, sink, drained, drain, over, att>>
vars == <<laneVars, wire, out, coordVars>>

Verdicts == {"done", "skipped"}
Terminal == Verdicts \cup {"stopped"}
InFlight == {"pending", "running"}
NoVerdict == [st |-> "none", exec |-> 0]
Of(l) == {n \in Nodes : LaneOf[n] = l}

-----------------------------------------------------------------------------
(* The history of one node: h is its sequence of attempts                  *)

NewAttempt == [outcome |-> "none", said |-> "unsaid", by |-> {}, open |-> TRUE]

IsOpen(h) == h # <<>> /\ h[Len(h)].open
Last(h, rec) == [h EXCEPT ![Len(h)] = rec]

Begin(h) == IF IsOpen(h) THEN h ELSE Append(h, NewAttempt)

\* The barrier: both halves have arrived.
Sealed(rec) == [rec EXCEPT !.open = @ /\ (rec.outcome = "none" \/ rec.said = "unsaid")]

NodeStatus(h, st) ==
    IF st = "pending" THEN h
    ELSE IF st = "running" THEN Begin(h)
    ELSE LET b == Begin(h) IN Last(b, Sealed([b[Len(b)] EXCEPT !.outcome = st]))

Line(h, e) == LET b == Begin(h) IN Last(b, [b[Len(b)] EXCEPT !.by = @ \cup {e}])

\* The first word about an attempt's log wins, sealed or not.
LogFinalized(h, word) ==
    IF h = <<>> \/ h[Len(h)].said # "unsaid" THEN h
    ELSE Last(h, Sealed([h[Len(h)] EXCEPT !.said = word]))

\* finalize: whatever is open is sealed before the run's own verdict.
Finalized(h) == IF h = <<>> THEN h ELSE Last(h, [h[Len(h)] EXCEPT !.open = FALSE])

-----------------------------------------------------------------------------
(* The log of one node: s is its state in the sink                         *)

EmptyLog == [of |-> 0, ended |-> FALSE, text |-> {}]
IsNoopReset(s) == s.text = {} /\ ~s.ended

\* appendLocal of a sentence of the coordinator's own.
Noticed(s) == IF s.ended THEN s ELSE [s EXCEPT !.text = @ \cup {"notice"}]

Stamped(h, s) == LogFinalized(IF s.ended THEN h ELSE Begin(h), "short")

-----------------------------------------------------------------------------
(* The gate                                                                *)

IsTerminal(v) == v.st \in Terminal

OnlyLogsOutstanding(p, w) ==
    /\ \E n \in Nodes : w[n] # NoVerdict
    /\ \A n \in Nodes : w[n] # NoVerdict \/ IsTerminal(p[n])

\* boundIfOnlyLogsOutstanding: a drain over every lane of the roster, unless
\* one is in flight.
Bounded(p, w) == IF drain = {} /\ OnlyLogsOutstanding(p, w) THEN Lanes ELSE drain

\* The bound as checkSettled asks for it: not in a run being torn down.
BoundedBySettle(p, w) == IF over = "no" THEN Bounded(p, w) ELSE drain

Settled == over = "no" /\ \A n \in Nodes : IsTerminal(pub[n])

\* updateNode: the history hears of it when the status changes.
Told(h, n, v) == IF v.st = pub[n].st THEN h ELSE NodeStatus(h, v.st)

Publish(n, v) ==
    LET p == [pub EXCEPT ![n] = v]
        w == [held EXCEPT ![n] = NoVerdict] IN
    /\ pub' = p
    /\ held' = w
    /\ drain' = BoundedBySettle(p, w)

\* Mutant: a verdict is held though it has been published.
Offer_Again(n, v) ==
    \/ /\ v.st \in Terminal /\ ~sink[n].ended
       /\ held' = [held EXCEPT ![n] = v]
       /\ drain' = Bounded(pub, held')
       /\ UNCHANGED <<pub, att>>
    \/ /\ v.st \in InFlight \/ sink[n].ended
       /\ Publish(n, v)
       /\ att' = [att EXCEPT ![n] = Told(@, n, v)]

\* Mutant: nothing bounds the wait when a verdict is held.
Offer_Unbounded(n, v) ==
    \/ /\ v.st \in Terminal /\ ~IsTerminal(pub[n]) /\ ~sink[n].ended
       /\ held' = [held EXCEPT ![n] = v]
       /\ UNCHANGED <<pub, att, drain>>
    \/ /\ v.st \in InFlight \/ IsTerminal(pub[n]) \/ sink[n].ended
       /\ Publish(n, v)
       /\ att' = [att EXCEPT ![n] = Told(@, n, v)]

\* Mutant: no verdict is held.
Offer_AtOnce(n, v) == Publish(n, v) /\ att' = [att EXCEPT ![n] = Told(@, n, v)]

Offer(n, v) ==
    \/ /\ v.st \in Terminal /\ ~IsTerminal(pub[n]) /\ ~sink[n].ended
       /\ held' = [held EXCEPT ![n] = v]
       /\ drain' = Bounded(pub, held')
       /\ UNCHANGED <<pub, att>>
    \/ /\ v.st \in InFlight \/ IsTerminal(pub[n]) \/ sink[n].ended
       /\ Publish(n, v)
       /\ att' = [att EXCEPT ![n] = Told(@, n, v)]

\* releaseAll over the nodes S: what is published, and what the history hears.
ReleasedPub(S) == [n \in Nodes |-> IF n \in S /\ held[n] # NoVerdict THEN held[n] ELSE pub[n]]
ReleasedHeld(S) == [n \in Nodes |-> IF n \in S THEN NoVerdict ELSE held[n]]
ReleasedAtt(h, n) == IF held[n] # NoVerdict THEN Told(h, n, held[n]) ELSE h

-----------------------------------------------------------------------------
Init ==
    /\ exec = [n \in Nodes |-> 0]
    /\ did = [n \in Nodes |-> "pending"]
    /\ wrote = [n \in Nodes |-> {}]
    /\ closed = [n \in Nodes |-> FALSE]
    /\ wire = [l \in Lanes |-> <<>>]
    /\ out = [n \in Nodes |-> <<>>]
    /\ alive = Lanes
    /\ lost = {}
    /\ pub = [n \in Nodes |-> [st |-> "pending", exec |-> 0]]
    /\ held = [n \in Nodes |-> NoVerdict]
    /\ sink = [n \in Nodes |-> EmptyLog]
    /\ drained = {}
    /\ drain = {}
    /\ over = "no"
    /\ att = [n \in Nodes |-> <<>>]

(* The lane: its handlers as far as they send frames *)

\* The lane sets the status of n, in an execution of it, and says so.
Says(n, st, e) ==
    LET l == LaneOf[n] IN
    /\ l \in alive
    /\ Len(wire[l]) < MaxFlight
    /\ did' = [did EXCEPT ![n] = st]
    /\ wire' = [wire EXCEPT ![l] = Append(@, [node |-> n, st |-> st, exec |-> e])]

Sends(n, kind, e) == out' = [out EXCEPT ![n] = Append(@, [kind |-> kind, exec |-> e])]

Start(n) ==
    /\ did[n] = "pending"
    /\ Says(n, "running", exec[n])
    /\ UNCHANGED <<exec, wrote, closed, out, coordVars>>

Skip(n) ==
    /\ did[n] = "pending"
    /\ Says(n, "skipped", exec[n])
    /\ closed' = [closed EXCEPT ![n] = TRUE]
    /\ Sends(n, "end", exec[n])
    /\ UNCHANGED <<exec, wrote, coordVars>>

Write(n) ==
    /\ LaneOf[n] \in alive
    /\ did[n] \in {"running", "done"} /\ ~closed[n]
    /\ exec[n] \notin wrote[n]
    /\ wrote' = [wrote EXCEPT ![n] = @ \cup {exec[n]}]
    /\ Sends(n, "append", exec[n])
    /\ UNCHANGED <<exec, did, closed, wire, coordVars>>

Exit(n) ==
    /\ did[n] = "running"
    /\ Says(n, "done", exec[n])
    /\ UNCHANGED <<exec, wrote, closed, out, coordVars>>

EndLog(n) ==
    /\ LaneOf[n] \in alive
    /\ did[n] = "done" /\ ~closed[n]
    /\ closed' = [closed EXCEPT ![n] = TRUE]
    /\ Sends(n, "end", exec[n])
    /\ UNCHANGED <<exec, did, wrote, wire, coordVars>>

\* An operator's cancel: the lane says so on the log, and has the last word there.
Cancel(n) ==
    /\ did[n] \in InFlight
    /\ Says(n, "done", exec[n])
    /\ wrote' = [wrote EXCEPT ![n] = @ \cup {exec[n]}]
    /\ closed' = [closed EXCEPT ![n] = TRUE]
    /\ out' = [out EXCEPT ![n] = Append(Append(@, [kind |-> "append", exec |-> exec[n]]),
                                       [kind |-> "end", exec |-> exec[n]])]
    /\ UNCHANGED <<exec, coordVars>>

\* rerunNode and the lane's reset of a node, or of one that depends on it, in
\* whatever state that is: nothing of the coordinator's own moves.
Rerun(n) ==
    /\ \A m \in Nodes : exec[m] < MaxReruns
    /\ Says(n, "pending", exec[n] + 1)
    /\ exec' = [exec EXCEPT ![n] = @ + 1]
    /\ closed' = [closed EXCEPT ![n] = FALSE]
    /\ Sends(n, "snapshot", exec[n] + 1)
    /\ UNCHANGED <<wrote, coordVars>>

-----------------------------------------------------------------------------
(* Frames                                                                  *)

OnNodes(l) ==
    /\ l \in alive /\ wire[l] # <<>>
    /\ wire' = [wire EXCEPT ![l] = Tail(@)]
    /\ Offer(Head(wire[l]).node, [st |-> Head(wire[l]).st, exec |-> Head(wire[l]).exec])
    /\ UNCHANGED <<laneVars, out, alive, lost, sink, drained, over>>

\* A lane publishes its whole state in every frame: what was heard of n comes again.
OnNodesAgain(n) ==
    /\ LaneOf[n] \in alive
    /\ Offer(n, IF held[n] # NoVerdict THEN held[n] ELSE pub[n])
    /\ UNCHANGED <<laneVars, wire, out, alive, lost, sink, drained, over>>

OnAppend(n, e) ==
    /\ sink' = IF sink[n].ended THEN sink ELSE [sink EXCEPT ![n].text = @ \cup {"line"}]
    /\ att' = IF sink[n].ended THEN att ELSE [att EXCEPT ![n] = Line(@, e)]
    /\ UNCHANGED <<pub, held, drained, drain>>

\* The verdict the gate holds for n, published: it was waiting for this frame.
OnEnd(n) ==
    LET h == LogFinalized(att[n], "whole") IN
    /\ drained' = drained \cup {n}
    /\ sink' = [sink EXCEPT ![n].ended = TRUE]
    /\ att' = [att EXCEPT ![n] = ReleasedAtt(h, n)]
    /\ IF held[n] = NoVerdict THEN UNCHANGED <<pub, held, drain>>
       ELSE Publish(n, held[n])

\* A lane's snapshot withdraws the end of the log it re-opens; the attempt
\* that is open stays open, and keeps its bytes.
OnSnapshot(n, e) ==
    /\ drained' = drained \ {n}
    /\ sink' = [sink EXCEPT ![n] = [EmptyLog EXCEPT !.of = e]]
    /\ att' = IF IsNoopReset(sink[n]) THEN att ELSE [att EXCEPT ![n] = Begin(@)]
    /\ UNCHANGED <<pub, held, drain>>

OnLogFrame(n) ==
    LET frame == Head(out[n]) IN
    /\ LaneOf[n] \in alive /\ out[n] # <<>>
    /\ out' = [out EXCEPT ![n] = Tail(@)]
    /\ \/ frame.kind = "append" /\ OnAppend(n, frame.exec)
       \/ frame.kind = "end" /\ OnEnd(n)
       \/ frame.kind = "snapshot" /\ OnSnapshot(n, frame.exec)
    /\ UNCHANGED <<laneVars, wire, alive, lost, over>>

-----------------------------------------------------------------------------
(* The drain, lane by lane                                                 *)

Undrained(l) == Of(l) \ drained

\* What the drain of l stamps: nothing if it was complete, else, whether the
\* lane is gone or has been silent for the bound, every node that owes.
ToStamp(l) == Undrained(l)

\* drainLaneLogs, the answer of l; the last one releases every verdict.  The
\* releases may find only logs outstanding once more, and bound that.
DrainLane(l) ==
    LET S == ToStamp(l)
        last == drain = {l}
        stamped(n) == IF n \in S THEN Stamped(att[n], sink[n]) ELSE att[n]
        again == /\ over = "no" /\ OnlyLogsOutstanding(pub, held)
                 /\ Cardinality({n \in Nodes : held[n] # NoVerdict}) > 1
    IN /\ l \in drain
       /\ sink' = [n \in Nodes |-> IF n \in S THEN Noticed(sink[n]) ELSE sink[n]]
       /\ att' = [n \in Nodes |-> IF last THEN ReleasedAtt(stamped(n), n) ELSE stamped(n)]
       /\ pub' = IF last THEN ReleasedPub(Nodes) ELSE pub
       /\ held' = IF last THEN ReleasedHeld(Nodes) ELSE held
       /\ drain' = IF last /\ again THEN Lanes ELSE drain \ {l}
       /\ UNCHANGED <<laneVars, wire, out, alive, lost, drained, over>>

-----------------------------------------------------------------------------
(* The ends of a lane and of the run                                       *)

\* Mutant: a stopped lane's verdicts are overlaid without being released.
LetGo_None(l) == {}

\* The verdicts a stopped lane's nodes are released with, before the overlay.
LetGo(l) == Of(l)

\* cancelPlatform, and laneDied of a lane that is not rebuilt: the lane falls
\* silent, terminalizePlatformNodes overlays what it left unfinished.
StopLane(l) ==
    LET S == LetGo(l)
        freed == ReleasedPub(S)
        cut == {n \in Of(l) : freed[n].st \in InFlight}
        p == [n \in Nodes |-> IF n \in cut THEN [freed[n] EXCEPT !.st = "stopped"] ELSE freed[n]]
        noted(n) == IF pub[n].st = "running" /\ ~sink[n].ended THEN Begin(att[n]) ELSE att[n]
    IN /\ l \in alive /\ over # "yes"
       /\ alive' = alive \ {l}
       /\ lost' = lost \cup {l}
       /\ wire' = [wire EXCEPT ![l] = <<>>]
       /\ out' = [n \in Nodes |-> IF n \in Of(l) THEN <<>> ELSE out[n]]
       /\ pub' = p
       /\ held' = ReleasedHeld(S)
       /\ sink' = [n \in Nodes |->
                      IF n \notin cut THEN sink[n]
                      ELSE [(IF pub[n].st = "running" THEN Noticed(sink[n]) ELSE sink[n])
                                EXCEPT !.ended = TRUE]]
       /\ att' = [n \in Nodes |->
                     IF n \in cut
                     THEN LogFinalized(NodeStatus(noted(n), "stopped"), "whole")
                     ELSE IF n \in S THEN ReleasedAtt(att[n], n) ELSE att[n]]
       /\ drain' = BoundedBySettle(p, ReleasedHeld(S))
       /\ UNCHANGED <<laneVars, drained, over>>

\* endRunLogs and finalize, over the logs and attempts a run leaves.
RunEnds(logs, h) ==
    /\ over' = "yes"
    /\ alive' = {}
    /\ sink' = [n \in Nodes |-> [logs[n] EXCEPT !.ended = TRUE]]
    /\ att' = [n \in Nodes |-> Finalized(LogFinalized(h[n], "whole"))]
    /\ UNCHANGED <<laneVars, wire, out, lost, pub, held, drained, drain>>

\* The run has settled: it follows at once.
Complete == Settled /\ RunEnds(sink, att)

Shutdown ==
    /\ over = "no"
    /\ over' = "stopping"
    /\ pub' = ReleasedPub(Nodes)
    /\ held' = ReleasedHeld(Nodes)
    /\ att' = [n \in Nodes |-> ReleasedAtt(att[n], n)]
    /\ UNCHANGED <<laneVars, wire, out, alive, lost, sink, drained, drain>>

\* Mutant: an interrupted run does not say what its logs lost.
Unfinished_None == {}

\* stampUnfinishedLogs: the nodes that were owed output.
Unfinished == {n \in Nodes : pub[n].st \notin {"pending", "skipped"}}

StopWork ==
    LET S == Unfinished IN
    /\ over = "stopping"
    /\ RunEnds([n \in Nodes |-> IF n \in S THEN Noticed(sink[n]) ELSE sink[n]],
               [n \in Nodes |-> IF n \in S THEN Stamped(att[n], sink[n]) ELSE att[n]])

-----------------------------------------------------------------------------
LaneStep(n) == Start(n) \/ Skip(n) \/ Write(n) \/ Exit(n) \/ EndLog(n) \/ Cancel(n) \/ Rerun(n)

Next ==
    \/ Complete
    \/ over # "yes" /\ \E l \in Lanes : DrainLane(l)
    \/ /\ ~Settled /\ over # "yes"
       /\ \/ \E n \in Nodes : LaneStep(n) \/ OnNodesAgain(n) \/ OnLogFrame(n)
          \/ \E l \in Lanes : OnNodes(l) \/ StopLane(l)
          \/ Shutdown
          \/ StopWork

Spec == Init /\ [][Next]_vars

\* Status frames arrive, a drain's wait ends, a settled run completes.
Moves ==
    \/ Complete
    \/ ~Settled /\ over = "no" /\ \E l \in Lanes : OnNodes(l)
    \/ over = "no" /\ \E l \in Lanes : DrainLane(l)

FairSpec == Spec /\ WF_vars(Moves)

-----------------------------------------------------------------------------
(* Properties                                                              *)

Execs == 0 .. MaxReruns
Verdict == [st : Verdicts, exec : Execs] \cup {NoVerdict}
Attempt == [outcome : Terminal \cup {"none"}, said : {"unsaid", "whole", "short"},
            by : SUBSET Execs, open : BOOLEAN]

\* Types, and that only a node's last attempt is ever open.
TypeOK ==
    /\ exec \in [Nodes -> Execs]
    /\ did \in [Nodes -> InFlight \cup Verdicts]
    /\ wrote \in [Nodes -> SUBSET Execs]
    /\ closed \in [Nodes -> BOOLEAN]
    /\ alive \subseteq Lanes /\ lost \subseteq Lanes /\ drain \subseteq Lanes
    /\ pub \in [Nodes -> [st : InFlight \cup Terminal, exec : Execs]]
    /\ held \in [Nodes -> Verdict]
    /\ sink \in [Nodes -> [of : Execs, ended : BOOLEAN, text : SUBSET {"line", "notice"}]]
    /\ drained \subseteq Nodes
    /\ over \in {"no", "stopping", "yes"}
    /\ att \in [Nodes -> Seq(Attempt)]
    /\ \A n \in Nodes : \A i \in DOMAIN att[n] : att[n][i].open => i = Len(att[n])

\* The log of execution e of n has ended, says that it is short, or belongs to
\* a later execution.
Accounted(n, e) ==
    \/ sink[n].of > e
    \/ sink[n].of = e /\ (sink[n].ended \/ "notice" \in sink[n].text)

\* A verdict of a node's execution e is published once its log is accounted
\* for, or its lane is gone, or the run is being torn down.
Behind(n, e) ==
    over = "no" /\ LaneOf[n] \notin lost /\ pub[n] = [st |-> "done", exec |-> e]
        => Accounted(n, e)

\* verdictGate.ts, of a node's first execution: its verdict is withheld until
\* its log has ended, whatever the order its two streams are heard in.
FirstVerdictBehindLog == \A n \in Nodes : Behind(n, 0)

\* The same of every execution, a rerun's included.
VerdictBehindLog == \A n \in Nodes, e \in Execs : Behind(n, e)

\* A held verdict is one that is not out yet, and waits for a log that has not
\* ended: a frame heard twice does not put a published verdict back on hold.
HeldMeansUnpublished ==
    over = "no" =>
        \A n \in Nodes : held[n] # NoVerdict => ~IsTerminal(pub[n]) /\ ~sink[n].ended

\* When nothing but output stands between the run and its end, a drain is
\* bounding the wait: no held verdict keeps a run from settling for ever.
NeverStuck == over = "no" /\ OnlyLogsOutstanding(pub, held) => drain # {}

\* What is published over a held verdict is that verdict, or the restart that
\* replaced it: a lane's death does not redden a node that had finished.
HeldTruthFirst ==
    [][\A n \in Nodes :
          held[n] # NoVerdict /\ IsTerminal(pub'[n]) => pub'[n] = held[n]]_vars

\* A log that has ended takes no more bytes until it is re-opened: logTail's
\* append throws there, and the throw ends the coordinator.
EndedLogTakesNothing ==
    [][\A n \in Nodes :
          sink[n].ended /\ sink'[n].ended => sink'[n].text = sink[n].text]_vars

\* The record of an attempt once said to be short is never called whole.
ShortStaysShort ==
    [][\A n \in Nodes : \A i \in DOMAIN att[n] :
          att[n][i].said = "short" => att'[n][i].said = "short"]_vars

\* The line execution e of n wrote is missing from attempt i of its record.
Missing(n, i, e) == e \in wrote[n] /\ e \notin att[n][i].by

\* An attempt of a node that ran once and got its verdict from a lane that
\* was not lost is called whole only if it holds all that was written.
WholeUnlessLost ==
    \A n \in Nodes : \A i \in DOMAIN att[n] :
        exec[n] = 0 /\ LaneOf[n] \notin lost /\ att[n][i].outcome # "none"
            /\ att[n][i].said = "whole" => ~Missing(n, i, 0)

\* When the lanes have said every verdict they will say and are not asked for
\* more, the run settles, though a log should never end.
Said == \A n \in Nodes : did[n] \in Verdicts
Settles == Said ~> over # "no" \/ lost # {} \/ ~Said

\* The gate is sound: typed, what it holds is not out yet and waits for a log that
\* has not ended, and a drain bounds every wait for output alone.
Inv == TypeOK /\ HeldMeansUnpublished /\ NeverStuck

\* What has been heard is kept: over a held verdict only that verdict is
\* published, an ended log takes nothing, a log said to be short stays short.
HeardIsKept == HeldTruthFirst /\ EndedLogTakesNothing /\ ShortStaysShort
=============================================================================
