------------------------------ MODULE NodeVerdict_proofs ------------------------------
(***************************************************************************)
(* For every run, whatever its nodes, lanes and reruns: a held verdict is  *)
(* one that is not out and waits for a log; a drain bounds every wait for  *)
(* output; what has been heard is kept; the first verdict of a node is out *)
(* only behind its log; and no attempt is called whole that lost its line. *)
(* The lanes it hears are LaneNode's, as LaneRunner is shown to be.        *)
(***************************************************************************)
EXTENDS NodeVerdict, SequenceTheorems, TLAPS

Statuses == InFlight \cup Verdicts
Frames == [node : Nodes, st : Statuses, exec : Execs]
LogFrames == [kind : {"append", "end", "snapshot"}, exec : Execs]
Logs == [of : Execs, ended : BOOLEAN, text : SUBSET {"line", "notice"}]
Published == [st : InFlight \cup Terminal, exec : Execs]

\* A history: attempts of which only the last is ever open.
Histories == {h \in Seq(Attempt) : \A i \in DOMAIN h : h[i].open => i = Len(h)}

LaneTypes ==
    /\ exec \in [Nodes -> Execs] /\ did \in [Nodes -> Statuses]
    /\ wrote \in [Nodes -> SUBSET Execs] /\ closed \in [Nodes -> BOOLEAN]
    /\ wire \in [Lanes -> Seq(Frames)] /\ out \in [Nodes -> Seq(LogFrames)]

CoordTypes ==
    /\ alive \subseteq Lanes /\ lost \subseteq Lanes /\ drain \subseteq Lanes
    /\ pub \in [Nodes -> Published] /\ held \in [Nodes -> Verdict]
    /\ sink \in [Nodes -> Logs] /\ drained \subseteq Nodes
    /\ over \in {"no", "stopping", "yes"} /\ att \in [Nodes -> Histories]

\* HeldMeansUnpublished, of a run that is being torn down as well.
Withheld ==
    over # "yes" =>
        \A n \in Nodes : held[n] # NoVerdict => ~IsTerminal(pub[n]) /\ ~sink[n].ended

Gate == LaneTypes /\ CoordTypes /\ Withheld /\ NeverStuck

\* What was heard last of a node, and what its lane would say of it now.
Heard(n) == IF held[n] # NoVerdict THEN held[n] ELSE pub[n]
Now(n) == [st |-> did[n], exec |-> exec[n]]

\* y can be said after x: of a later execution, or of one with no verdict yet.
Follows(x, y) == x.exec < y.exec \/ (x.exec = y.exec /\ x.st \in InFlight)
UpTo(x, y) == (x.st = y.st /\ x.exec = y.exec) \/ Follows(x, y)

\* A lane's frames are in the order of what they say, after what was heard.
FramesInOrder ==
    \A l \in Lanes : \A i \in DOMAIN wire[l] :
        LET f == wire[l][i]
        IN  /\ LaneOf[f.node] = l /\ UpTo(f, Now(f.node)) /\ Follows(Heard(f.node), f)
            /\ \A j \in DOMAIN wire[l] :
                  i < j /\ f.node = wire[l][j].node => Follows(f, wire[l][j])

HeardInOrder ==
    /\ alive \cap lost = {}
    /\ \A n \in Nodes : LaneOf[n] \notin lost =>
          UpTo(Heard(n), Now(n)) /\ UpTo(pub[n], Now(n))

InOrder == FramesInOrder /\ HeardInOrder

\* A lane that has answered the drain in flight owes no verdict of its nodes'
\* first execution; a log that was drained has ended.
Answered ==
    /\ \A n \in Nodes : drain # {} /\ LaneOf[n] \notin drain => Accounted(n, 0)
    /\ \A n \in drained : sink[n].ended
    /\ \A n \in Nodes : \A i \in DOMAIN out[n] :
          out[n][i].kind = "snapshot" => out[n][i].exec > 0

\* The first execution of a node that is not rerun, on a lane that is not lost.
Once(n) == exec[n] = 0 /\ LaneOf[n] \notin lost

\* Its log: its lines, then the end.
LogOf(n) ==
    /\ closed[n] => did[n] \in Verdicts
    /\ exec[n] = 0 =>
          /\ did[n] \in {"pending", "skipped"} => 0 \notin wrote[n]
          /\ sink[n].of = 0
          /\ \A i \in DOMAIN out[n] :
                /\ out[n][i].kind # "snapshot" /\ out[n][i].exec = 0
                /\ out[n][i].kind = "end" => i = Len(out[n]) /\ closed[n]
    /\ Once(n) /\ sink[n].ended /\ over # "yes" => out[n] = <<>> /\ closed[n]

OneLog == \A n \in Nodes : LogOf(n)

\* It has written its line, which is no longer on its way.
Delivered(n) == 0 \in wrote[n] /\ \A i \in DOMAIN out[n] : out[n][i].kind # "append"

\* Its record h, when the run says st of it and its log is s: the first attempt
\* is the one that gets a verdict, and it takes the line if that is delivered.
Recorded(h, st, s, delivered) ==
    /\ \A i \in DOMAIN h : i > 1 => h[i].outcome = "none"
    /\ h # <<>> =>
          /\ ~h[1].open => h[1].outcome # "none" /\ h[1].said # "unsaid"
          /\ h[1].outcome # "none" => st \in Verdicts
          /\ h[1].said = "whole" => s.ended
    /\ "notice" \in s.text => h # <<>> /\ h[1].said # "unsaid"
    /\ delivered => h # <<>> /\ (0 \in h[1].by \/ h[1].said = "short")

RecordOf(n) == Once(n) /\ over # "yes" => Recorded(att[n], pub[n].st, sink[n], Delivered(n))

OneRecord == \A n \in Nodes : RecordOf(n)

\* A run that is over has called no attempt whole that lost its line.
EndedWhole == over = "yes" => WholeUnlessLost

IInv == Gate /\ InOrder /\ Answered /\ FirstVerdictBehindLog /\ OneLog /\ OneRecord /\ EndedWhole

-----------------------------------------------------------------------------
(* Histories.                                                              *)

LEMMA LastEffect ==
    ASSUME NEW h \in Seq(Attempt), h # <<>>, NEW rec \in Attempt
    PROVE  /\ Last(h, rec) \in Seq(Attempt) /\ Len(Last(h, rec)) = Len(h)
           /\ Len(h) \in Nat \ {0} /\ Last(h, rec)[Len(h)] = rec
           /\ \A i \in 1 .. Len(h) : i # Len(h) => Last(h, rec)[i] = h[i]
  <1>1. Len(h) \in 1 .. Len(h) /\ Len(h) \in Nat \ {0}
    BY EmptySeq, LenProperties
  <1>. QED BY <1>1, ExceptSeq DEF Last

LEMMA BeginEffect ==
    ASSUME NEW h \in Histories
    PROVE  /\ h \in Seq(Attempt) /\ Len(h) \in Nat /\ DOMAIN h = 1 .. Len(h)
           /\ Begin(h) \in Histories /\ Begin(h) # <<>> /\ Begin(h)[Len(Begin(h))].open
           /\ Begin(h)[Len(Begin(h))] \in Attempt
           /\ \A i \in 1 .. Len(h) : h[i] \in Attempt /\ Begin(h)[i] = h[i]
           /\ \/ Begin(h) = h /\ h # <<>> /\ h[Len(h)].open
              \/ /\ h = <<>> \/ ~h[Len(h)].open
                 /\ Len(Begin(h)) = Len(h) + 1 /\ Begin(h)[Len(h) + 1] = NewAttempt
  <1>1. h \in Seq(Attempt) /\ \A i \in DOMAIN h : h[i].open => i = Len(h)
    BY DEF Histories
  <1>2. Len(h) \in Nat /\ DOMAIN h = 1 .. Len(h) /\ \A i \in 1 .. Len(h) : h[i] \in Attempt
    BY <1>1, LenProperties, ElementOfSeq
  <1>3. h # <<>> => Len(h) \in 1 .. Len(h)
    BY SMTT(60), <1>1, <1>2, EmptySeq
  <1>4. CASE IsOpen(h)
    BY ZenonT(90), <1>1, <1>2, <1>3, <1>4 DEF Begin, IsOpen
  <1>5. CASE ~IsOpen(h)
    <2>1. Begin(h) = Append(h, NewAttempt) /\ NewAttempt \in Attempt /\ NewAttempt.open
      BY <1>5 DEF Begin, NewAttempt, Attempt
    <2>2. /\ Begin(h) \in Seq(Attempt) /\ Begin(h) # <<>> /\ Len(Begin(h)) = Len(h) + 1
          /\ \A i \in 1 .. Len(h) : Begin(h)[i] = h[i]
          /\ Begin(h)[Len(h) + 1] = NewAttempt
      BY <1>1, <1>2, <2>1, AppendProperties
    <2>3. DOMAIN Begin(h) = 1 .. Len(h) + 1
      BY <2>2, LenProperties
    <2>4. \A i \in 1 .. Len(h) : ~h[i].open
      BY <1>1, <1>2, <1>5 DEF IsOpen
    <2>5. Begin(h) \in Histories
      <3>1. ASSUME NEW i \in 1 .. Len(h) + 1, i # Len(h) + 1 PROVE ~Begin(h)[i].open
        BY SMTT(60), <1>2, <2>2, <2>4, <3>1
      <3>. QED BY <2>2, <2>3, <3>1 DEF Histories
    <2>. QED BY <1>1, <1>2, <1>5, <2>1, <2>2, <2>5 DEF IsOpen
  <1>. QED BY <1>4, <1>5

\* A record that is closed, or open where the history is.
LEMMA LastHistory ==
    ASSUME NEW h \in Histories, h # <<>>, NEW rec \in Attempt
    PROVE  /\ Last(h, rec) \in Histories /\ Len(Last(h, rec)) = Len(h)
           /\ Len(h) \in Nat \ {0} /\ Last(h, rec)[Len(h)] = rec
           /\ \A i \in 1 .. Len(h) : i # Len(h) => Last(h, rec)[i] = h[i]
  <1>1. h \in Seq(Attempt) /\ \A i \in DOMAIN h : h[i].open => i = Len(h)
    BY DEF Histories
  <1>2. /\ Last(h, rec) \in Seq(Attempt) /\ Len(Last(h, rec)) = Len(h)
        /\ Len(h) \in Nat \ {0} /\ Last(h, rec)[Len(h)] = rec
        /\ \A i \in 1 .. Len(h) : i # Len(h) => Last(h, rec)[i] = h[i]
    BY SMTT(60), <1>1, LastEffect
  <1>3. DOMAIN Last(h, rec) = 1 .. Len(h) /\ DOMAIN h = 1 .. Len(h)
    <2>1. DOMAIN Last(h, rec) = 1 .. Len(Last(h, rec))
      BY <1>2, LenProperties
    <2>2. DOMAIN h = 1 .. Len(h)
      BY <1>1, LenProperties
    <2>. QED BY <1>2, <2>1, <2>2
  <1>. QED BY <1>1, <1>2, <1>3 DEF Histories

\* Nothing that was said to be short is unsaid.
Keeps(h, g) ==
    Len(h) <= Len(g) /\ \A i \in 1 .. Len(h) : h[i].said = "short" => g[i].said = "short"

LEMMA KeepsOn ==
    ASSUME NEW h \in Histories, NEW g \in Histories, NEW k \in Histories, Keeps(h, g), Keeps(g, k)
    PROVE  Keeps(h, k)
  <1>1. Len(h) \in Nat /\ Len(g) \in Nat /\ Len(k) \in Nat
    BY BeginEffect
  <1>2. Len(h) <= Len(g) /\ Len(g) <= Len(k) /\ \A i \in 1 .. Len(h) : i \in 1 .. Len(g)
    BY <1>1 DEF Keeps
  <1>. QED BY <1>1, <1>2 DEF Keeps

LEMMA BeginKeeps ==
    ASSUME NEW h \in Histories
    PROVE  Begin(h) \in Histories /\ Keeps(h, Begin(h)) /\ Keeps(h, h)
  BY BeginEffect DEF Keeps

LEMMA LastKeeps ==
    ASSUME NEW h \in Histories, h # <<>>, NEW rec \in Attempt,
           h[Len(h)].said = "short" => rec.said = "short"
    PROVE  Last(h, rec) \in Histories /\ Keeps(h, Last(h, rec))
  <1>1. /\ Last(h, rec) \in Histories /\ Len(Last(h, rec)) = Len(h)
        /\ Len(h) \in Nat \ {0} /\ Last(h, rec)[Len(h)] = rec
        /\ \A i \in 1 .. Len(h) : i # Len(h) => Last(h, rec)[i] = h[i]
    BY LastHistory
  <1>. QED BY <1>1 DEF Keeps

LEMMA SealedType ==
    ASSUME NEW rec \in Attempt
    PROVE  /\ Sealed(rec) \in Attempt /\ Sealed(rec).said = rec.said
           /\ Sealed(rec).outcome = rec.outcome /\ Sealed(rec).by = rec.by
           /\ Sealed(rec).open = (rec.open /\ (rec.outcome = "none" \/ rec.said = "unsaid"))
  BY DEF Sealed, Attempt

LEMMA NodeStatusKeeps ==
    ASSUME NEW h \in Histories, NEW st \in InFlight \cup Terminal
    PROVE  NodeStatus(h, st) \in Histories /\ Keeps(h, NodeStatus(h, st))
  <1>1. CASE st = "pending"
    BY <1>1, BeginKeeps DEF NodeStatus
  <1>2. CASE st = "running"
    BY <1>2, BeginKeeps DEF NodeStatus
  <1>3. CASE st \in Terminal
    <2>. DEFINE b == Begin(h)
                rec == Sealed([b[Len(b)] EXCEPT !.outcome = st])
    <2>1. b \in Histories /\ b # <<>> /\ b[Len(b)] \in Attempt /\ Keeps(h, b)
      BY BeginEffect, BeginKeeps
    <2>2. [b[Len(b)] EXCEPT !.outcome = st] \in Attempt
      BY <1>3, <2>1 DEF Attempt
    <2>3. rec \in Attempt /\ rec.said = b[Len(b)].said
      BY <2>1, <2>2, SealedType DEF Attempt
    <2>4. NodeStatus(h, st) = Last(b, rec)
      BY <1>3 DEF NodeStatus, Terminal, Verdicts
    <2>. HIDE DEF b, rec
    <2>5. Last(b, rec) \in Histories /\ Keeps(b, Last(b, rec))
      BY <2>1, <2>3, LastKeeps
    <2>. QED BY <2>1, <2>4, <2>5, KeepsOn
  <1>. QED BY <1>1, <1>2, <1>3 DEF InFlight

LEMMA LineKeeps ==
    ASSUME NEW h \in Histories, NEW e \in Execs
    PROVE  Line(h, e) \in Histories /\ Keeps(h, Line(h, e))
  <1>. DEFINE b == Begin(h)
              rec == [b[Len(b)] EXCEPT !.by = @ \cup {e}]
  <1>1. b \in Histories /\ b # <<>> /\ b[Len(b)] \in Attempt /\ Keeps(h, b)
    BY BeginEffect, BeginKeeps
  <1>2. rec \in Attempt /\ rec.said = b[Len(b)].said
    BY <1>1 DEF Attempt
  <1>3. Line(h, e) = Last(b, rec)
    BY DEF Line
  <1>. HIDE DEF b, rec
  <1>4. Last(b, rec) \in Histories /\ Keeps(b, Last(b, rec))
    BY <1>1, <1>2, LastKeeps
  <1>. QED BY <1>1, <1>3, <1>4, KeepsOn

LEMMA LogFinalizedKeeps ==
    ASSUME NEW h \in Histories, NEW word \in {"whole", "short"}
    PROVE  LogFinalized(h, word) \in Histories /\ Keeps(h, LogFinalized(h, word))
  <1>1. CASE h = <<>> \/ h[Len(h)].said # "unsaid"
    BY <1>1, BeginKeeps DEF LogFinalized
  <1>2. CASE h # <<>> /\ h[Len(h)].said = "unsaid"
    <2>. DEFINE rec == Sealed([h[Len(h)] EXCEPT !.said = word])
    <2>1. h[Len(h)] \in Attempt
      BY <1>2, BeginEffect, EmptySeq
    <2>2. rec \in Attempt
      BY <2>1, SealedType DEF Attempt
    <2>3. LogFinalized(h, word) = Last(h, rec)
      BY <1>2 DEF LogFinalized
    <2>. HIDE DEF rec
    <2>. QED BY <1>2, <2>2, <2>3, LastKeeps
  <1>. QED BY <1>1, <1>2

LEMMA FinalizedKeeps ==
    ASSUME NEW h \in Histories
    PROVE  Finalized(h) \in Histories /\ Keeps(h, Finalized(h))
  <1>1. CASE h = <<>>
    BY <1>1, BeginKeeps DEF Finalized
  <1>2. CASE h # <<>>
    <2>. DEFINE rec == [h[Len(h)] EXCEPT !.open = FALSE]
    <2>1. h[Len(h)] \in Attempt
      BY <1>2, BeginEffect, EmptySeq
    <2>2. rec \in Attempt /\ rec.said = h[Len(h)].said
      BY <2>1 DEF Attempt
    <2>3. Finalized(h) = Last(h, rec)
      BY <1>2 DEF Finalized
    <2>. HIDE DEF rec
    <2>. QED BY <1>2, <2>2, <2>3, LastKeeps
  <1>. QED BY <1>1, <1>2

LEMMA StampedKeeps ==
    ASSUME NEW h \in Histories, NEW s
    PROVE  Stamped(h, s) \in Histories /\ Keeps(h, Stamped(h, s))
  <1>1. CASE s.ended
    BY <1>1, LogFinalizedKeeps DEF Stamped
  <1>2. CASE ~s.ended
    BY <1>2, LogFinalizedKeeps, BeginKeeps, KeepsOn DEF Stamped
  <1>. QED BY <1>1, <1>2

LEMMA ToldKeeps ==
    ASSUME NEW h \in Histories, NEW n \in Nodes, NEW v, v.st \in InFlight \cup Terminal
    PROVE  Told(h, n, v) \in Histories /\ Keeps(h, Told(h, n, v))
  BY NodeStatusKeeps, BeginKeeps DEF Told

LEMMA VerdictTypes ==
    /\ \A v \in Verdict : v # NoVerdict => v.st \in Verdicts /\ v \in Published
    /\ NoVerdict \in Verdict /\ Verdicts \subseteq Terminal
    /\ \A v \in Published : v.st \in Verdicts => v \in Verdict /\ v # NoVerdict
    /\ Terminal \cap InFlight = {} /\ Statuses \subseteq InFlight \cup Terminal
  <1>1. \A v \in Verdict : v # NoVerdict => v \in [st : Verdicts, exec : Execs]
    BY DEF Verdict
  <1>2. \A v \in [st : Verdicts, exec : Execs] : v \in Published /\ v # NoVerdict
    BY DEF Published, NoVerdict, Terminal, Verdicts, InFlight
  <1>3. \A v \in Published : v.st \in Verdicts => v \in [st : Verdicts, exec : Execs]
    BY DEF Published
  <1>. QED BY <1>1, <1>2, <1>3 DEF Verdict, Terminal, Verdicts, InFlight, Statuses

LEMMA ReleasedKeeps ==
    ASSUME CoordTypes, NEW h \in Histories, NEW n \in Nodes
    PROVE  ReleasedAtt(h, n) \in Histories /\ Keeps(h, ReleasedAtt(h, n))
  <1>1. held[n] # NoVerdict => held[n].st \in InFlight \cup Terminal
    BY VerdictTypes DEF CoordTypes
  <1>. QED BY <1>1, ToldKeeps, BeginKeeps DEF ReleasedAtt

-----------------------------------------------------------------------------
(* The gate.                                                               *)

\* What the run has published once nothing is held back of the nodes S.
LEMMA ReleasedTypes ==
    ASSUME CoordTypes, NEW S \in SUBSET Nodes
    PROVE  /\ ReleasedPub(S) \in [Nodes -> Published] /\ ReleasedHeld(S) \in [Nodes -> Verdict]
           /\ \A n \in Nodes : /\ n \in S => ReleasedHeld(S)[n] = NoVerdict
                               /\ n \notin S => /\ ReleasedHeld(S)[n] = held[n]
                                                /\ ReleasedPub(S)[n] = pub[n]
  BY VerdictTypes DEF ReleasedPub, ReleasedHeld, CoordTypes

LEMMA BoundedTypes ==
    ASSUME CoordTypes, NEW p, NEW w
    PROVE  Bounded(p, w) \subseteq Lanes /\ BoundedBySettle(p, w) \subseteq Lanes
  BY DEF Bounded, BoundedBySettle, CoordTypes

\* Whatever waits for output alone is bounded by the drain it asks for.
LEMMA BoundedBounds ==
    ASSUME NEW p, NEW w, OnlyLogsOutstanding(p, w)
    PROVE  Bounded(p, w) # {} /\ (over = "no" => BoundedBySettle(p, w) # {})
  <1>1. Lanes # {}
    BY LaneAssumption DEF OnlyLogsOutstanding
  <1>. QED BY <1>1 DEF Bounded, BoundedBySettle

\* What may be offered: what a lane says, or what has been heard.
Offered(n, v) == v \in Published /\ (v.st \in Statuses \/ IsTerminal(pub[n]))

LEMMA OfferTypes ==
    ASSUME CoordTypes, NEW n \in Nodes, NEW v, Offered(n, v), Offer(n, v)
    PROVE  /\ pub' \in [Nodes -> Published] /\ held' \in [Nodes -> Verdict]
           /\ drain' \subseteq Lanes /\ att' \in [Nodes -> Histories]
           /\ \A m \in Nodes : Keeps(att[m], att'[m])
           /\ \A m \in Nodes \ {n} : pub'[m] = pub[m] /\ held'[m] = held[m] /\ att'[m] = att[m]
           /\ \/ /\ v.st \in Verdicts /\ ~IsTerminal(pub[n]) /\ ~sink[n].ended
                 /\ pub' = pub /\ att' = att /\ held'[n] = v /\ drain' = Bounded(pub', held')
              \/ /\ v.st \in InFlight \/ IsTerminal(pub[n]) \/ sink[n].ended
                 /\ pub'[n] = v /\ held'[n] = NoVerdict /\ att'[n] = Told(att[n], n, v)
                 /\ drain' = BoundedBySettle(pub', held')
  <1>1. v \in Published /\ v.st \in InFlight \cup Terminal
    BY DEF Offered, Published
  <1>2. \A m \in Nodes : att[m] \in Histories /\ Keeps(att[m], att[m])
    BY BeginKeeps DEF CoordTypes
  <1>3. CASE v.st \in Terminal /\ ~IsTerminal(pub[n]) /\ ~sink[n].ended
    <2>1. v.st \in Verdicts /\ v \in Verdict
      BY <1>1, <1>3, VerdictTypes DEF Offered, Statuses
    <2>2. held' = [held EXCEPT ![n] = v] /\ drain' = Bounded(pub, held') /\ UNCHANGED <<pub, att>>
      BY <1>3, VerdictTypes DEF Offer
    <2>. QED BY <1>2, <1>3, <2>1, <2>2, BoundedTypes DEF CoordTypes
  <1>4. CASE v.st \in InFlight \/ IsTerminal(pub[n]) \/ sink[n].ended
    <2>1. /\ pub' = [pub EXCEPT ![n] = v] /\ held' = [held EXCEPT ![n] = NoVerdict]
          /\ drain' = BoundedBySettle(pub', held')
          /\ att' = [att EXCEPT ![n] = Told(@, n, v)]
      BY <1>4, VerdictTypes DEF Offer, Publish
    <2>2. Told(att[n], n, v) \in Histories /\ Keeps(att[n], Told(att[n], n, v))
      BY <1>1, <1>2, ToldKeeps
    <2>. QED BY <1>1, <1>2, <1>4, <2>1, <2>2, BoundedTypes, VerdictTypes DEF CoordTypes
  <1>. QED BY <1>1, <1>3, <1>4

LEMMA FramesOffered ==
    ASSUME LaneTypes, CoordTypes
    PROVE  /\ \A l \in Lanes : wire[l] # <<>> =>
                 /\ Head(wire[l]) \in Frames /\ Tail(wire[l]) \in Seq(Frames)
                 /\ Offered(Head(wire[l]).node,
                            [st |-> Head(wire[l]).st, exec |-> Head(wire[l]).exec])
           /\ \A n \in Nodes : Offered(n, IF held[n] # NoVerdict THEN held[n] ELSE pub[n])
           /\ \A n \in Nodes : out[n] # <<>> =>
                 Head(out[n]) \in LogFrames /\ Tail(out[n]) \in Seq(LogFrames)
  <1>1. ASSUME NEW l \in Lanes, wire[l] # <<>>
        PROVE  Head(wire[l]) \in Frames /\ Tail(wire[l]) \in Seq(Frames)
    BY <1>1, HeadTailProperties DEF LaneTypes
  <1>2. ASSUME NEW n \in Nodes, out[n] # <<>>
        PROVE  Head(out[n]) \in LogFrames /\ Tail(out[n]) \in Seq(LogFrames)
    BY <1>2, HeadTailProperties DEF LaneTypes
  <1>3. ASSUME NEW f \in Frames PROVE Offered(f.node, [st |-> f.st, exec |-> f.exec])
    BY VerdictTypes DEF Offered, Frames, Published
  <1>4. ASSUME NEW n \in Nodes PROVE Offered(n, IF held[n] # NoVerdict THEN held[n] ELSE pub[n])
    <2>1. pub[n] \in Published /\ (pub[n].st \in Statuses \/ IsTerminal(pub[n]))
      BY DEF CoordTypes, Published, IsTerminal, Statuses, Verdicts, Terminal
    <2>2. held[n] # NoVerdict => held[n] \in Published /\ held[n].st \in Statuses
      BY VerdictTypes DEF CoordTypes, Statuses
    <2>. QED BY <2>1, <2>2 DEF Offered
  <1>. QED BY <1>1, <1>2, <1>3, <1>4

\* What the log of a cancelled node holds: what it held, a line and the end.
Cancelled(n) ==
    LET len == Len(out[n]) IN
    /\ len \in Nat /\ DOMAIN out[n] = 1 .. len
    /\ DOMAIN out'[n] = 1 .. len + 2 /\ Len(out'[n]) = len + 2
    /\ out'[n][len + 1].kind = "append" /\ out'[n][len + 1].exec = exec[n]
    /\ out'[n][len + 2].kind = "end" /\ out'[n][len + 2].exec = exec[n]
    /\ \A i \in 1 .. len : out'[n][i] = out[n][i]

LEMMA CancelSends ==
    ASSUME LaneTypes, NEW n \in Nodes, Cancel(n)
    PROVE  /\ out' \in [Nodes -> Seq(LogFrames)] /\ Cancelled(n)
           /\ \A m \in Nodes \ {n} : out'[m] = out[m]
  <1>. DEFINE x == [kind |-> "append", exec |-> exec[n]]
              y == [kind |-> "end", exec |-> exec[n]]
              mid == Append(out[n], x)
              new == Append(mid, y)
  <1>1. x \in LogFrames /\ y \in LogFrames /\ out[n] \in Seq(LogFrames)
    BY DEF LogFrames, LaneTypes
  <1>2. /\ mid \in Seq(LogFrames) /\ Len(mid) = Len(out[n]) + 1
        /\ mid[Len(out[n]) + 1] = x /\ \A i \in 1 .. Len(out[n]) : mid[i] = out[n][i]
    BY <1>1, AppendProperties
  <1>3. Len(out[n]) \in Nat /\ DOMAIN out[n] = 1 .. Len(out[n])
    BY <1>1, LenProperties
  <1>. HIDE DEF mid
  <1>4. /\ new \in Seq(LogFrames) /\ Len(new) = Len(mid) + 1 /\ new[Len(mid) + 1] = y
        /\ \A i \in 1 .. Len(mid) : new[i] = mid[i]
    BY <1>1, <1>2, AppendProperties
  <1>5. DOMAIN new = 1 .. Len(out[n]) + 2
    <2>1. DOMAIN new = 1 .. Len(new)
      BY <1>4, LenProperties
    <2>. QED BY <1>2, <1>3, <1>4, <2>1
  <1>6. out' = [out EXCEPT ![n] = new]
    BY DEF Cancel, mid
  <1>. HIDE DEF new
  <1>7. /\ Len(new) = Len(out[n]) + 2 /\ new[Len(out[n]) + 2] = y
        /\ \A i \in 1 .. Len(out[n]) + 1 : new[i] = mid[i]
    <2>1. Len(mid) + 1 = Len(out[n]) + 2
      BY <1>2, <1>3
    <2>. QED BY <1>2, <1>4, <2>1
  <1>8. /\ new[Len(out[n]) + 1] = x
        /\ \A i \in 1 .. Len(out[n]) : new[i] = out[n][i]
    BY <1>2, <1>3, <1>7
  <1>9. out' \in [Nodes -> Seq(LogFrames)] /\ out'[n] = new /\ \A m \in Nodes \ {n} : out'[m] = out[m]
    BY <1>4, <1>6 DEF LaneTypes
  <1>. QED BY <1>3, <1>5, <1>7, <1>8, <1>9 DEF Cancelled

LEMMA LaneTypesKept ==
    ASSUME LaneTypes, CoordTypes, [Next]_vars
    PROVE  LaneTypes'
  <1>1. ASSUME NEW n \in Nodes, NEW st \in Statuses, NEW e \in Execs, Says(n, st, e)
        PROVE  did' \in [Nodes -> Statuses] /\ wire' \in [Lanes -> Seq(Frames)]
    <2>1. [node |-> n, st |-> st, exec |-> e] \in Frames /\ LaneOf[n] \in Lanes
      BY LaneAssumption DEF Frames
    <2>2. wire[LaneOf[n]] \in Seq(Frames)
      BY <2>1 DEF LaneTypes
    <2>3. Append(wire[LaneOf[n]], [node |-> n, st |-> st, exec |-> e]) \in Seq(Frames)
      BY <2>1, <2>2, AppendProperties
    <2>. QED BY <1>1, <2>1, <2>3 DEF Says, LaneTypes
  <1>2. ASSUME NEW n \in Nodes, NEW kind \in {"append", "end", "snapshot"}, NEW e \in Execs,
               Sends(n, kind, e)
        PROVE  out' \in [Nodes -> Seq(LogFrames)]
    <2>1. [kind |-> kind, exec |-> e] \in LogFrames /\ out[n] \in Seq(LogFrames)
      BY DEF LogFrames, LaneTypes
    <2>2. Append(out[n], [kind |-> kind, exec |-> e]) \in Seq(LogFrames)
      BY <2>1, AppendProperties
    <2>. QED BY <1>2, <2>2 DEF Sends, LaneTypes
  <1>3. ASSUME NEW n \in Nodes, LaneStep(n) PROVE LaneTypes'
    <2>1. exec[n] \in Execs /\ (exec[n] < MaxReruns => exec[n] + 1 \in Execs)
      BY LaneAssumption DEF LaneTypes, Execs
    <2>2. {"pending", "running", "done", "skipped"} = Statuses
      BY DEF Statuses, InFlight, Verdicts
    <2>3. CASE Start(n)
      <3>1. did' \in [Nodes -> Statuses] /\ wire' \in [Lanes -> Seq(Frames)]
        BY <1>1, <2>1, <2>2, <2>3 DEF Start
      <3>. QED BY <2>3, <3>1 DEF Start, LaneTypes
    <2>4. CASE Skip(n)
      <3>1. did' \in [Nodes -> Statuses] /\ wire' \in [Lanes -> Seq(Frames)]
        BY <1>1, <2>1, <2>2, <2>4 DEF Skip
      <3>2. out' \in [Nodes -> Seq(LogFrames)]
        BY <1>2, <2>1, <2>4 DEF Skip
      <3>. QED BY <2>4, <3>1, <3>2 DEF Skip, LaneTypes
    <2>5. CASE Write(n)
      <3>2. out' \in [Nodes -> Seq(LogFrames)]
        BY <1>2, <2>1, <2>5 DEF Write
      <3>. QED BY <2>1, <2>5, <3>2 DEF Write, LaneTypes
    <2>6. CASE Exit(n)
      <3>1. did' \in [Nodes -> Statuses] /\ wire' \in [Lanes -> Seq(Frames)]
        BY <1>1, <2>1, <2>2, <2>6 DEF Exit
      <3>. QED BY <2>6, <3>1 DEF Exit, LaneTypes
    <2>7. CASE EndLog(n)
      <3>2. out' \in [Nodes -> Seq(LogFrames)]
        BY <1>2, <2>1, <2>7 DEF EndLog
      <3>. QED BY <2>7, <3>2 DEF EndLog, LaneTypes
    <2>8. CASE Rerun(n)
      <3>0. exec[n] + 1 \in Execs
        BY <2>1, <2>8 DEF Rerun
      <3>1. did' \in [Nodes -> Statuses] /\ wire' \in [Lanes -> Seq(Frames)]
        BY <1>1, <3>0, <2>2, <2>8 DEF Rerun
      <3>2. out' \in [Nodes -> Seq(LogFrames)]
        BY <1>2, <3>0, <2>8 DEF Rerun
      <3>. QED BY <2>8, <3>0, <3>1, <3>2 DEF Rerun, LaneTypes
    <2>9. CASE Cancel(n)
      <3>1. did' \in [Nodes -> Statuses] /\ wire' \in [Lanes -> Seq(Frames)]
        BY <1>1, <2>1, <2>2, <2>9 DEF Cancel
      <3>2. out' \in [Nodes -> Seq(LogFrames)]
        BY <2>9, CancelSends
      <3>. QED BY <2>1, <2>9, <3>1, <3>2 DEF Cancel, LaneTypes
    <2>. QED BY <1>3, <2>3, <2>4, <2>5, <2>6, <2>7, <2>8, <2>9 DEF LaneStep
  <1>4. ASSUME NEW l \in Lanes, OnNodes(l) PROVE LaneTypes'
    BY <1>4, FramesOffered DEF OnNodes, LaneTypes, laneVars
  <1>5. ASSUME NEW n \in Nodes, OnLogFrame(n) PROVE LaneTypes'
    BY <1>5, FramesOffered DEF OnLogFrame, LaneTypes, laneVars
  <1>6. ASSUME NEW l \in Lanes, StopLane(l) PROVE LaneTypes'
    <2>1. <<>> \in Seq(Frames) /\ <<>> \in Seq(LogFrames)
      BY EmptySeq
    <2>. QED BY <1>6, <2>1 DEF StopLane, LaneTypes, laneVars
  <1>7. CASE UNCHANGED <<laneVars, wire, out>>
    BY <1>7 DEF laneVars, LaneTypes
  <1>8. CASE \/ Complete \/ Shutdown \/ StopWork \/ UNCHANGED vars
             \/ \E l \in Lanes : DrainLane(l)
             \/ \E n \in Nodes : OnNodesAgain(n)
    BY <1>7, <1>8 DEF Complete, Shutdown, StopWork, RunEnds, DrainLane, OnNodesAgain, vars
  <1>. QED BY <1>3, <1>4, <1>5, <1>6, <1>8 DEF Next

ShortStays == \A n \in Nodes : Keeps(att[n], att'[n])

LEMMA RunEndsTypes ==
    ASSUME CoordTypes, NEW logs \in [Nodes -> Logs], NEW h \in [Nodes -> Histories],
           \A n \in Nodes : Keeps(att[n], h[n]), RunEnds(logs, h)
    PROVE  CoordTypes' /\ ShortStays
  <1>1. ASSUME NEW n \in Nodes
        PROVE  /\ att'[n] \in Histories /\ Keeps(att[n], att'[n])
               /\ sink'[n] \in Logs
    <2>. DEFINE g == LogFinalized(h[n], "whole")
    <2>1. g \in Histories /\ Keeps(h[n], g)
      BY LogFinalizedKeeps
    <2>2. Finalized(g) \in Histories /\ Keeps(g, Finalized(g))
      BY <2>1, FinalizedKeeps
    <2>3. Keeps(att[n], Finalized(g))
      BY <2>1, <2>2, KeepsOn DEF CoordTypes
    <2>4. att'[n] = Finalized(g) /\ sink'[n] = [logs[n] EXCEPT !.ended = TRUE]
      BY DEF RunEnds
    <2>. QED BY <2>2, <2>3, <2>4 DEF Logs
  <1>2. att' \in [Nodes -> Histories] /\ sink' \in [Nodes -> Logs]
    <2>1. att' = [n \in Nodes |-> att'[n]] /\ sink' = [n \in Nodes |-> sink'[n]]
      BY DEF RunEnds
    <2>. QED BY <1>1, <2>1
  <1>. QED BY <1>1, <1>2 DEF RunEnds, CoordTypes, ShortStays

LEMMA NoticedType ==
    ASSUME NEW s \in Logs
    PROVE  /\ Noticed(s) \in Logs /\ Noticed(s).ended = s.ended /\ Noticed(s).of = s.of
           /\ s.ended => Noticed(s) = s
           /\ ~s.ended => Noticed(s).text = s.text \cup {"notice"}
  BY DEF Noticed, Logs

LEMMA CoordTypesKept ==
    ASSUME LaneTypes, CoordTypes, [Next]_vars
    PROVE  CoordTypes' /\ ShortStays
  <1>0. \A n \in Nodes : att[n] \in Histories /\ Keeps(att[n], att[n])
    BY BeginKeeps DEF CoordTypes
  <1>1. ASSUME UNCHANGED coordVars PROVE CoordTypes' /\ ShortStays
    BY <1>0, <1>1 DEF coordVars, CoordTypes, ShortStays
  <1>2. ASSUME NEW n \in Nodes, LaneStep(n) PROVE CoordTypes' /\ ShortStays
    BY <1>1, <1>2 DEF LaneStep, Start, Skip, Write, Exit, EndLog, Cancel, Rerun
  <1>3. ASSUME NEW n \in Nodes, NEW v, Offered(n, v), Offer(n, v),
               UNCHANGED <<alive, lost, sink, drained, over>>
        PROVE  CoordTypes' /\ ShortStays
    BY <1>3, OfferTypes DEF CoordTypes, ShortStays
  <1>4. ASSUME NEW l \in Lanes, OnNodes(l) PROVE CoordTypes' /\ ShortStays
    BY <1>3, <1>4, FramesOffered DEF OnNodes, Frames
  <1>5. ASSUME NEW n \in Nodes, OnNodesAgain(n) PROVE CoordTypes' /\ ShortStays
    BY <1>3, <1>5, FramesOffered DEF OnNodesAgain
  <1>6. ASSUME NEW n \in Nodes, NEW e \in Execs, OnAppend(n, e), UNCHANGED <<alive, lost, over>>
        PROVE  CoordTypes' /\ ShortStays
    <2>1. sink' \in [Nodes -> Logs]
      BY <1>6 DEF OnAppend, CoordTypes, Logs
    <2>2. Line(att[n], e) \in Histories /\ Keeps(att[n], Line(att[n], e))
      BY <1>0, LineKeeps
    <2>3. att' \in [Nodes -> Histories] /\ ShortStays
      BY <1>0, <1>6, <2>2 DEF OnAppend, CoordTypes, ShortStays
    <2>. QED BY <1>6, <2>1, <2>3 DEF OnAppend, CoordTypes
  <1>7. ASSUME NEW n \in Nodes, OnEnd(n), UNCHANGED <<alive, lost, over>>
        PROVE  CoordTypes' /\ ShortStays
    <2>. DEFINE h == LogFinalized(att[n], "whole")
                g == ReleasedAtt(h, n)
    <2>1. h \in Histories /\ Keeps(att[n], h)
      BY <1>0, LogFinalizedKeeps
    <2>2. g \in Histories /\ Keeps(att[n], g)
      BY <1>0, <2>1, ReleasedKeeps, KeepsOn
    <2>3. att' = [att EXCEPT ![n] = g] /\ sink' = [sink EXCEPT ![n].ended = TRUE]
          /\ drained' = drained \cup {n}
      BY <1>7 DEF OnEnd
    <2>. HIDE DEF h, g
    <2>4. att' \in [Nodes -> Histories] /\ ShortStays /\ sink' \in [Nodes -> Logs]
      BY <1>0, <2>2, <2>3 DEF CoordTypes, ShortStays, Logs
    <2>5. pub' \in [Nodes -> Published] /\ held' \in [Nodes -> Verdict] /\ drain' \subseteq Lanes
      BY <1>7, VerdictTypes, BoundedTypes DEF OnEnd, Publish, CoordTypes
    <2>. QED BY <1>7, <2>3, <2>4, <2>5 DEF CoordTypes
  <1>8. ASSUME NEW n \in Nodes, NEW e \in Execs, OnSnapshot(n, e), UNCHANGED <<alive, lost, over>>
        PROVE  CoordTypes' /\ ShortStays
    <2>1. sink' \in [Nodes -> Logs]
      BY <1>8 DEF OnSnapshot, CoordTypes, EmptyLog, Logs
    <2>2. Begin(att[n]) \in Histories /\ Keeps(att[n], Begin(att[n]))
      BY <1>0, BeginKeeps
    <2>3. att' \in [Nodes -> Histories] /\ ShortStays
      BY <1>0, <1>8, <2>2 DEF OnSnapshot, CoordTypes, ShortStays
    <2>. QED BY <1>8, <2>1, <2>3 DEF OnSnapshot, CoordTypes
  <1>9. ASSUME NEW n \in Nodes, OnLogFrame(n) PROVE CoordTypes' /\ ShortStays
    BY <1>6, <1>7, <1>8, <1>9, FramesOffered DEF OnLogFrame, LogFrames
  <1>10. ASSUME NEW l \in Lanes, DrainLane(l) PROVE CoordTypes' /\ ShortStays
    <2>. DEFINE S == ToStamp(l)
                stamped(n) == IF n \in S THEN Stamped(att[n], sink[n]) ELSE att[n]
    <2>1. ASSUME NEW n \in Nodes
          PROVE  att'[n] \in Histories /\ Keeps(att[n], att'[n]) /\ sink'[n] \in Logs
      <3>1. stamped(n) \in Histories /\ Keeps(att[n], stamped(n))
        BY <1>0, StampedKeeps
      <3>2. ReleasedAtt(stamped(n), n) \in Histories /\ Keeps(att[n], ReleasedAtt(stamped(n), n))
        BY <1>0, <3>1, ReleasedKeeps, KeepsOn
      <3>3. att'[n] = stamped(n) \/ att'[n] = ReleasedAtt(stamped(n), n)
        BY <1>10 DEF DrainLane
      <3>4. sink'[n] = sink[n] \/ sink'[n] = Noticed(sink[n])
        BY <1>10 DEF DrainLane
      <3>. QED BY <3>1, <3>2, <3>3, <3>4, NoticedType DEF CoordTypes
    <2>2. att' = [n \in Nodes |-> att'[n]] /\ sink' = [n \in Nodes |-> sink'[n]]
      BY <1>10 DEF DrainLane
    <2>3. att' \in [Nodes -> Histories] /\ sink' \in [Nodes -> Logs]
      BY <2>1, <2>2
    <2>4. /\ pub' \in [Nodes -> Published] /\ held' \in [Nodes -> Verdict] /\ drain' \subseteq Lanes
          /\ UNCHANGED <<alive, lost, drained, over>>
      BY <1>10, ReleasedTypes DEF DrainLane, CoordTypes
    <2>. QED BY <2>1, <2>3, <2>4 DEF CoordTypes, ShortStays
  <1>11. ASSUME NEW l \in Lanes, StopLane(l) PROVE CoordTypes' /\ ShortStays
    <2>. DEFINE S == LetGo(l)
                freed == ReleasedPub(S)
                noted(n) == IF pub[n].st = "running" /\ ~sink[n].ended THEN Begin(att[n]) ELSE att[n]
                p == [n \in Nodes |-> IF n \in Of(l) /\ freed[n].st \in InFlight
                                      THEN [freed[n] EXCEPT !.st = "stopped"] ELSE freed[n]]
    <2>1. ASSUME NEW n \in Nodes
          PROVE  att'[n] \in Histories /\ Keeps(att[n], att'[n]) /\ sink'[n] \in Logs
      <3>1. noted(n) \in Histories /\ Keeps(att[n], noted(n))
        BY <1>0, BeginKeeps
      <3>2. NodeStatus(noted(n), "stopped") \in Histories
            /\ Keeps(att[n], NodeStatus(noted(n), "stopped"))
        BY <1>0, <3>1, NodeStatusKeeps, KeepsOn DEF Terminal
      <3>3. LogFinalized(NodeStatus(noted(n), "stopped"), "whole") \in Histories
            /\ Keeps(att[n], LogFinalized(NodeStatus(noted(n), "stopped"), "whole"))
        BY <1>0, <3>2, LogFinalizedKeeps, KeepsOn
      <3>4. \/ att'[n] = att[n] \/ att'[n] = ReleasedAtt(att[n], n)
            \/ att'[n] = LogFinalized(NodeStatus(noted(n), "stopped"), "whole")
        BY <1>11 DEF StopLane
      <3>5. \/ sink'[n] = sink[n] \/ sink'[n] = [sink[n] EXCEPT !.ended = TRUE]
            \/ sink'[n] = [Noticed(sink[n]) EXCEPT !.ended = TRUE]
        BY <1>11 DEF StopLane
      <3>6. sink'[n] \in Logs
        <4>1. sink[n] \in Logs /\ Noticed(sink[n]) \in Logs
          BY NoticedType DEF CoordTypes
        <4>2. \A s \in Logs : [s EXCEPT !.ended = TRUE] \in Logs
          BY DEF Logs
        <4>. QED BY <3>5, <4>1, <4>2
      <3>. QED BY <1>0, <3>3, <3>4, <3>6, ReleasedKeeps
    <2>2. att' = [n \in Nodes |-> att'[n]] /\ sink' = [n \in Nodes |-> sink'[n]]
      BY <1>11 DEF StopLane
    <2>3. att' \in [Nodes -> Histories] /\ sink' \in [Nodes -> Logs]
      BY <2>1, <2>2
    <2>4. S \in SUBSET Nodes
      BY DEF LetGo, Of
    <2>5. freed \in [Nodes -> Published] /\ ReleasedHeld(S) \in [Nodes -> Verdict]
      BY <2>4, ReleasedTypes
    <2>6. pub' = p /\ held' = ReleasedHeld(S)
      BY <1>11 DEF StopLane
    <2>7. drain' \subseteq Lanes
      BY <1>11, BoundedTypes DEF StopLane
    <2>8. p \in [Nodes -> Published]
      BY <2>5 DEF Published, Terminal
    <2>9. alive' \subseteq Lanes /\ lost' \subseteq Lanes /\ UNCHANGED <<drained, over>>
      BY <1>11 DEF StopLane, CoordTypes
    <2>. QED BY <2>1, <2>3, <2>5, <2>6, <2>7, <2>8, <2>9 DEF CoordTypes, ShortStays
  <1>12. CASE Complete
    BY <1>0, <1>12, RunEndsTypes DEF Complete, CoordTypes
  <1>13. CASE Shutdown
    <2>1. \A n \in Nodes : att'[n] \in Histories /\ Keeps(att[n], att'[n])
      BY <1>0, <1>13, ReleasedKeeps DEF Shutdown
    <2>2. att' = [n \in Nodes |-> att'[n]]
      BY <1>13 DEF Shutdown
    <2>3. att' \in [Nodes -> Histories]
      BY <2>1, <2>2
    <2>. QED BY <1>13, <2>1, <2>3, ReleasedTypes DEF Shutdown, CoordTypes, ShortStays
  <1>14. CASE StopWork
    <2>. DEFINE logs == [n \in Nodes |-> IF n \in Unfinished THEN Noticed(sink[n]) ELSE sink[n]]
                h == [n \in Nodes |-> IF n \in Unfinished THEN Stamped(att[n], sink[n]) ELSE att[n]]
    <2>1. logs \in [Nodes -> Logs]
      BY NoticedType DEF CoordTypes
    <2>2. h \in [Nodes -> Histories] /\ \A n \in Nodes : Keeps(att[n], h[n])
      BY <1>0, StampedKeeps
    <2>3. RunEnds(logs, h)
      BY <1>14 DEF StopWork
    <2>. HIDE DEF logs, h
    <2>. QED BY <2>1, <2>2, <2>3, RunEndsTypes
  <1>15. CASE UNCHANGED vars
    BY <1>1, <1>15 DEF vars
  <1>. QED BY <1>2, <1>4, <1>5, <1>9, <1>10, <1>11, <1>12, <1>13, <1>14, <1>15 DEF Next

-----------------------------------------------------------------------------
(* What is held, and what bounds the wait.                                 *)

TruthFirst == \A n \in Nodes : held[n] # NoVerdict /\ IsTerminal(pub'[n]) => pub'[n] = held[n]

LEMMA WithheldKept ==
    ASSUME LaneTypes, CoordTypes, Withheld, [Next]_vars
    PROVE  Withheld' /\ (TruthFirst \/ UNCHANGED vars)
  <1>0. over # "yes" => \A n \in Nodes : held[n] # NoVerdict => ~IsTerminal(pub[n]) /\ ~sink[n].ended
    BY DEF Withheld
  <1>00. ASSUME NEW n \in Nodes, held[n] # NoVerdict PROVE IsTerminal(held[n])
    BY <1>00, VerdictTypes DEF CoordTypes, IsTerminal
  <1>1. ASSUME UNCHANGED <<pub, held, over>>, over # "yes",
               \A n \in Nodes : sink'[n].ended => sink[n].ended
        PROVE  Withheld' /\ TruthFirst
    BY <1>0, <1>1 DEF Withheld, TruthFirst, IsTerminal
  <1>2. ASSUME NEW n \in Nodes, NEW v, Offered(n, v), Offer(n, v), UNCHANGED <<sink, over>>,
               over # "yes"
        PROVE  Withheld' /\ TruthFirst
    <2>1. \A m \in Nodes \ {n} : pub'[m] = pub[m] /\ held'[m] = held[m]
      BY <1>2, OfferTypes
    <2>2. \/ ~IsTerminal(pub[n]) /\ ~sink[n].ended /\ pub'[n] = pub[n]
          \/ /\ v.st \in InFlight \/ IsTerminal(pub[n]) \/ sink[n].ended
             /\ pub'[n] = v /\ held'[n] = NoVerdict
      BY <1>2, OfferTypes
    <2>3. v.st \in InFlight => ~IsTerminal(v)
      BY VerdictTypes DEF IsTerminal
    <2>4. held[n] # NoVerdict /\ IsTerminal(pub'[n]) => pub'[n] = held[n]
      BY <1>0, <1>2, <2>2, <2>3
    <2>5. held'[n] # NoVerdict => ~IsTerminal(pub'[n]) /\ ~sink'[n].ended
      BY <1>2, <2>2
    <2>6. \A m \in Nodes \ {n} : held[m] # NoVerdict => ~IsTerminal(pub'[m]) /\ ~sink'[m].ended
      BY <1>0, <1>2, <2>1
    <2>. QED BY <2>1, <2>4, <2>5, <2>6 DEF Withheld, TruthFirst, IsTerminal
  <1>3. ASSUME NEW S \in SUBSET Nodes, over # "yes", held' = ReleasedHeld(S),
               \A n \in S : held[n] # NoVerdict => pub'[n] = held[n],
               \A n \in Nodes \ S : pub'[n] = pub[n] /\ (sink'[n].ended => sink[n].ended)
        PROVE  Withheld' /\ TruthFirst
    BY <1>0, <1>3, ReleasedTypes DEF Withheld, TruthFirst, IsTerminal
  <1>4. ASSUME over # "yes", over' = "yes", UNCHANGED <<pub, held>>
        PROVE  Withheld' /\ TruthFirst
    BY <1>0, <1>4 DEF Withheld, TruthFirst
  <1>5. ASSUME NEW n \in Nodes, LaneStep(n), over # "yes" PROVE Withheld' /\ TruthFirst
    BY <1>1, <1>5 DEF LaneStep, Start, Skip, Write, Exit, EndLog, Cancel, Rerun, coordVars
  <1>6. ASSUME NEW l \in Lanes, OnNodes(l), over # "yes" PROVE Withheld' /\ TruthFirst
    BY <1>2, <1>6, FramesOffered DEF OnNodes, Frames
  <1>7. ASSUME NEW n \in Nodes, OnNodesAgain(n), over # "yes" PROVE Withheld' /\ TruthFirst
    BY <1>2, <1>7, FramesOffered DEF OnNodesAgain
  <1>8. ASSUME NEW n \in Nodes, OnLogFrame(n), over # "yes" PROVE Withheld' /\ TruthFirst
    <2>1. CASE OnAppend(n, Head(out[n]).exec)
      <3>1. \A m \in Nodes : sink'[m].ended = sink[m].ended
        BY <2>1 DEF OnAppend, CoordTypes, Logs
      <3>. QED BY <1>1, <1>8, <2>1, <3>1 DEF OnLogFrame, OnAppend
    <2>2. CASE OnSnapshot(n, Head(out[n]).exec)
      <3>1. \A m \in Nodes : sink'[m].ended => sink[m].ended
        BY <2>2 DEF OnSnapshot, CoordTypes, Logs, EmptyLog
      <3>. QED BY <1>1, <1>8, <2>2, <3>1 DEF OnLogFrame, OnSnapshot
    <2>3. CASE OnEnd(n)
      <3>1. \A m \in Nodes \ {n} : sink'[m] = sink[m]
        BY <2>3 DEF OnEnd, CoordTypes
      <3>2. UNCHANGED over
        BY <1>8 DEF OnLogFrame
      <3>3. CASE held[n] = NoVerdict
        BY <1>0, <1>8, <2>3, <3>1, <3>2, <3>3 DEF OnEnd, Withheld, TruthFirst, IsTerminal
      <3>4. CASE held[n] # NoVerdict
        <4>1. pub' = [pub EXCEPT ![n] = held[n]] /\ held' = [held EXCEPT ![n] = NoVerdict]
          BY <2>3, <3>4 DEF OnEnd, Publish
        <4>. QED BY <1>0, <1>8, <3>1, <3>2, <4>1 DEF Withheld, TruthFirst, IsTerminal, CoordTypes
      <3>. QED BY <3>3, <3>4
    <2>. QED BY <1>8, <2>1, <2>2, <2>3 DEF OnLogFrame
  <1>9. ASSUME NEW l \in Lanes, DrainLane(l), over # "yes" PROVE Withheld' /\ TruthFirst
    <2>1. \A n \in Nodes : sink'[n].ended = sink[n].ended
      BY <1>9, NoticedType DEF DrainLane, CoordTypes
    <2>2. CASE drain = {l}
      <3>1. held' = ReleasedHeld(Nodes) /\ pub' = ReleasedPub(Nodes)
        BY <1>9, <2>2 DEF DrainLane
      <3>2. \A n \in Nodes : held[n] # NoVerdict => pub'[n] = held[n]
        BY <3>1 DEF ReleasedPub
      <3>. QED BY <1>3, <1>9, <3>1, <3>2
    <2>3. CASE drain # {l}
      <3>1. UNCHANGED <<pub, held, over>>
        BY <1>9, <2>3 DEF DrainLane
      <3>. QED BY <1>1, <1>9, <2>1, <3>1
    <2>. QED BY <2>2, <2>3
  <1>10. ASSUME NEW l \in Lanes, StopLane(l) PROVE Withheld' /\ TruthFirst
    <2>1. LetGo(l) = Of(l) /\ Of(l) \in SUBSET Nodes /\ over # "yes"
      BY <1>10 DEF LetGo, Of, StopLane
    <2>2. held' = ReleasedHeld(Of(l))
      BY <1>10, <2>1 DEF StopLane
    <2>3. ASSUME NEW n \in Nodes \ Of(l)
          PROVE  pub'[n] = pub[n] /\ (sink'[n].ended => sink[n].ended)
      BY <1>10, <2>1 DEF StopLane, ReleasedPub
    <2>4. ASSUME NEW n \in Of(l), held[n] # NoVerdict PROVE pub'[n] = held[n]
      <3>1. n \in Nodes /\ ReleasedPub(Of(l))[n] = held[n]
        BY <2>1, <2>4 DEF ReleasedPub
      <3>2. held[n].st \notin InFlight
        BY <1>00, <2>4, <3>1, VerdictTypes DEF IsTerminal
      <3>. QED BY <1>10, <2>1, <3>1, <3>2 DEF StopLane
    <2>. QED BY <1>3, <2>1, <2>2, <2>3, <2>4
  <1>11. CASE Complete
    BY <1>4, <1>11 DEF Complete, Settled, RunEnds
  <1>12. CASE StopWork
    BY <1>4, <1>12 DEF StopWork, RunEnds
  <1>13. CASE Shutdown
    <2>1. /\ over # "yes" /\ held' = ReleasedHeld(Nodes)
          /\ \A n \in Nodes : held[n] # NoVerdict => pub'[n] = held[n]
      BY <1>13 DEF Shutdown, ReleasedPub
    <2>. QED BY <1>3, <2>1
  <1>14. ASSUME UNCHANGED vars PROVE Withheld'
    BY <1>0, <1>14 DEF vars, coordVars, Withheld, IsTerminal
  <1>. QED BY <1>5, <1>6, <1>7, <1>8, <1>9, <1>10, <1>11, <1>12, <1>13, <1>14 DEF Next

LEMMA NeverStuckKept ==
    ASSUME LaneTypes, CoordTypes, NeverStuck, [Next]_vars
    PROVE  NeverStuck'
  <1>1. SUFFICES ASSUME over' = "no", OnlyLogsOutstanding(pub', held')
                 PROVE  drain' # {}
    BY DEF NeverStuck, OnlyLogsOutstanding, IsTerminal
  <1>2. over = "no"
    BY <1>1 DEF Next, Complete, RunEnds, DrainLane, OnNodes, OnNodesAgain, OnLogFrame, StopLane,
                Shutdown, StopWork, LaneStep, Start, Skip, Write, Exit, EndLog, Cancel, Rerun, vars,
                coordVars
  <1>3. ASSUME UNCHANGED <<pub, held, drain>> PROVE drain' # {}
    BY <1>1, <1>2, <1>3 DEF NeverStuck, OnlyLogsOutstanding
  <1>4. ASSUME drain' = Bounded(pub', held') \/ drain' = BoundedBySettle(pub', held')
        PROVE  drain' # {}
    BY <1>1, <1>2, <1>4, BoundedBounds
  <1>5. ASSUME NEW n \in Nodes, LaneStep(n) PROVE drain' # {}
    BY <1>3, <1>5 DEF LaneStep, Start, Skip, Write, Exit, EndLog, Cancel, Rerun, coordVars
  <1>6. ASSUME NEW l \in Lanes, OnNodes(l) PROVE drain' # {}
    BY <1>4, <1>6, FramesOffered, OfferTypes DEF OnNodes, Frames
  <1>7. ASSUME NEW n \in Nodes, OnNodesAgain(n) PROVE drain' # {}
    BY <1>4, <1>7, FramesOffered, OfferTypes DEF OnNodesAgain
  <1>8. ASSUME NEW n \in Nodes, OnLogFrame(n) PROVE drain' # {}
    <2>1. UNCHANGED <<pub, held, drain>> \/ drain' = BoundedBySettle(pub', held')
      BY <1>8 DEF OnLogFrame, OnAppend, OnSnapshot, OnEnd, Publish
    <2>. QED BY <1>3, <1>4, <2>1
  <1>9. ASSUME NEW l \in Lanes, DrainLane(l) PROVE drain' # {}
    <2>1. CASE drain = {l}
      <3>1. held' = ReleasedHeld(Nodes)
        BY <1>9, <2>1 DEF DrainLane
      <3>. QED BY <1>1, <3>1, ReleasedTypes DEF OnlyLogsOutstanding
    <2>2. CASE drain # {l}
      BY <1>9, <2>2 DEF DrainLane
    <2>. QED BY <2>1, <2>2
  <1>10. ASSUME NEW l \in Lanes, StopLane(l) PROVE drain' # {}
    BY <1>4, <1>10 DEF StopLane
  <1>11. CASE Complete \/ Shutdown \/ StopWork
    BY <1>1, <1>11 DEF Complete, RunEnds, Shutdown, StopWork
  <1>12. CASE UNCHANGED vars
    BY <1>3, <1>12 DEF vars, coordVars
  <1>. QED BY <1>5, <1>6, <1>7, <1>8, <1>9, <1>10, <1>11, <1>12 DEF Next

TakesNothing == \A n \in Nodes : sink[n].ended /\ sink'[n].ended => sink'[n].text = sink[n].text

LEMMA NothingTaken ==
    ASSUME LaneTypes, CoordTypes, [Next]_vars
    PROVE  TakesNothing
  <1>1. ASSUME sink' = sink PROVE TakesNothing
    BY <1>1 DEF TakesNothing
  <1>2. ASSUME \A n \in Nodes : sink[n].ended => sink'[n].text \in {sink[n].text, Noticed(sink[n]).text}
        PROVE  TakesNothing
    BY <1>2, NoticedType DEF TakesNothing, CoordTypes
  <1>3. ASSUME NEW n \in Nodes, LaneStep(n) PROVE TakesNothing
    BY <1>1, <1>3 DEF LaneStep, Start, Skip, Write, Exit, EndLog, Cancel, Rerun, coordVars
  <1>4. ASSUME NEW n \in Nodes, OnLogFrame(n) PROVE TakesNothing
    BY <1>4 DEF OnLogFrame, OnAppend, OnEnd, OnSnapshot, TakesNothing, CoordTypes, EmptyLog, Logs
  <1>5. ASSUME NEW l \in Lanes, DrainLane(l) PROVE TakesNothing
    BY <1>2, <1>5 DEF DrainLane
  <1>6. ASSUME NEW l \in Lanes, StopLane(l) PROVE TakesNothing
    <2>1. ASSUME NEW n \in Nodes, sink[n].ended
          PROVE  sink'[n].text \in {sink[n].text, Noticed(sink[n]).text}
      <3>1. \/ sink'[n] = sink[n] \/ sink'[n] = [sink[n] EXCEPT !.ended = TRUE]
            \/ sink'[n] = [Noticed(sink[n]) EXCEPT !.ended = TRUE]
        BY <1>6 DEF StopLane
      <3>2. sink[n] \in Logs /\ Noticed(sink[n]) \in Logs
        BY NoticedType DEF CoordTypes
      <3>3. \A s \in Logs : [s EXCEPT !.ended = TRUE].text = s.text
        BY DEF Logs
      <3>. QED BY <3>1, <3>2, <3>3
    <2>. QED BY <1>2, <2>1
  <1>7. ASSUME NEW logs, NEW h, RunEnds(logs, h),
               \A n \in Nodes : logs[n] = sink[n] \/ logs[n] = Noticed(sink[n])
        PROVE  TakesNothing
    <2>1. ASSUME NEW n \in Nodes, sink[n].ended
          PROVE  sink'[n].text \in {sink[n].text, Noticed(sink[n]).text}
      <3>1. sink'[n] = [logs[n] EXCEPT !.ended = TRUE] /\ logs[n] \in Logs
        BY <1>7, NoticedType DEF RunEnds, CoordTypes
      <3>2. sink'[n].text = logs[n].text
        BY <3>1 DEF Logs
      <3>. QED BY <1>7, <3>2
    <2>. QED BY <1>2, <2>1
  <1>8. CASE Complete
    BY <1>7, <1>8 DEF Complete
  <1>9. CASE StopWork
    <2>. DEFINE logs == [n \in Nodes |-> IF n \in Unfinished THEN Noticed(sink[n]) ELSE sink[n]]
    <2>1. \A n \in Nodes : logs[n] = sink[n] \/ logs[n] = Noticed(sink[n])
      OBVIOUS
    <2>2. \E h : RunEnds(logs, h)
      BY <1>9 DEF StopWork
    <2>. HIDE DEF logs
    <2>. QED BY <1>7, <2>1, <2>2
  <1>10. CASE Shutdown \/ UNCHANGED vars \/ (\E l \in Lanes : OnNodes(l))
              \/ \E n \in Nodes : OnNodesAgain(n)
    BY <1>1, <1>10 DEF Shutdown, OnNodes, OnNodesAgain, vars, coordVars
  <1>. QED BY <1>3, <1>4, <1>5, <1>6, <1>8, <1>9, <1>10 DEF Next

LEMMA InitGate == Init => Gate
  <1>. SUFFICES ASSUME Init PROVE Gate
    OBVIOUS
  <1>1. 0 \in Execs
    BY LaneAssumption DEF Execs
  <1>2. <<>> \in Seq(Frames) /\ <<>> \in Seq(LogFrames) /\ <<>> \in Histories
    BY EmptySeq DEF Histories
  <1>3. LaneTypes
    BY <1>1, <1>2 DEF Init, LaneTypes, Statuses, InFlight
  <1>4. CoordTypes
    BY <1>1, <1>2, VerdictTypes DEF Init, CoordTypes, Published, InFlight, Logs, EmptyLog
  <1>5. Withheld /\ NeverStuck
    BY DEF Init, Withheld, NeverStuck, OnlyLogsOutstanding
  <1>. QED BY <1>3, <1>4, <1>5 DEF Gate

LEMMA NextGate == Gate /\ [Next]_vars => Gate'
  BY LaneTypesKept, CoordTypesKept, WithheldKept, NeverStuckKept DEF Gate

\* The gate is sound: typed, what it holds is not out yet and waits for a log
\* that has not ended, and a drain bounds every wait for output alone
\* (verdictGate.ts, drainLaneLogs), whatever the run's lanes, frames and reruns.
THEOREM GateIsSound == Spec => []Inv
  <1>1. Gate => Inv
    <2>. SUFFICES ASSUME Gate PROVE TypeOK /\ HeldMeansUnpublished /\ NeverStuck
      BY DEF Inv
    <2>1. TypeOK
      BY DEF Gate, LaneTypes, CoordTypes, TypeOK, Statuses, Published, Logs, Histories
    <2>. QED BY <2>1 DEF Gate, Withheld, HeldMeansUnpublished
  <1>. QED BY <1>1, InitGate, NextGate, PTL DEF Spec

\* What has been heard is kept: over a held verdict only that verdict is
\* published, an ended log takes nothing, a log said to be short stays short
\* (terminalizePlatformNodes, logTail's append, history.logFinalized).
THEOREM WhatWasHeardIsKept == Spec => HeardIsKept
  <1>. DEFINE Stays == \A n \in Nodes : \A i \in DOMAIN att[n] :
                          att[n][i].said = "short" => att'[n][i].said = "short"
  <1>1. Gate /\ [Next]_vars => [TruthFirst]_vars /\ [TakesNothing]_vars
    BY WithheldKept, NothingTaken DEF Gate
  <1>2. Gate /\ [Next]_vars => [Stays]_vars
    <2>. SUFFICES ASSUME Gate, [Next]_vars, NEW n \in Nodes PROVE
           \A i \in DOMAIN att[n] : att[n][i].said = "short" => att'[n][i].said = "short"
      OBVIOUS
    <2>1. att[n] \in Histories /\ Keeps(att[n], att'[n])
      BY CoordTypesKept DEF Gate, CoordTypes, ShortStays
    <2>. QED BY SMTT(60), <2>1, BeginEffect DEF Keeps
  <1>3. [][TruthFirst]_vars /\ [][TakesNothing]_vars /\ [][Stays]_vars => HeardIsKept
    BY PTL DEF HeardIsKept, HeldTruthFirst, EndedLogTakesNothing, ShortStaysShort, TruthFirst,
               TakesNothing
  <1>. QED BY <1>1, <1>2, <1>3, InitGate, NextGate, PTL DEF Spec

-----------------------------------------------------------------------------
(* The order of what a lane says and what is heard of it.                  *)

LEMMA FollowsOn ==
    ASSUME NEW x, NEW y, NEW z, x.exec \in Int, y.exec \in Int, z.exec \in Int,
           Follows(x, y), Follows(y, z)
    PROVE  Follows(x, z)
  BY DEF Follows

\* The lane's state of n moves on, and everything said so far comes before it.
Advances(n) == Follows(Now(n), Now(n)')

LEMMA AdvanceOrders ==
    ASSUME LaneTypes, LaneTypes', NEW n \in Nodes, Advances(n), NEW x, x.exec \in Execs,
           UpTo(x, Now(n))
    PROVE  Follows(x, Now(n)')
  <1>1. exec[n] \in Int /\ exec'[n] \in Int /\ x.exec \in Int
    BY DEF LaneTypes, Execs
  <1>. QED BY <1>1 DEF Advances, Follows, UpTo, Now

\* Release and repetition: the same is heard of each node, and nothing else is out.
HeardAgain ==
    \A n \in Nodes : Heard(n)' = Heard(n) /\ pub'[n] \in {pub[n], Heard(n)}

LEMMA SameOrder ==
    ASSUME InOrder, HeardAgain, UNCHANGED <<did, exec, wire>>, alive' \subseteq alive, lost' = lost,
           LaneTypes
    PROVE  InOrder'
  <1>0. \A l \in Lanes : \A i \in DOMAIN wire[l] : wire[l][i] \in Frames
    BY ElementOfSeq, LenProperties DEF LaneTypes
  <1>1. \A n : Now(n)' = Now(n)
    BY DEF Now
  <1>2. FramesInOrder'
    BY <1>0, <1>1 DEF InOrder, FramesInOrder, HeardAgain, Frames
  <1>3. HeardInOrder'
    BY <1>1 DEF InOrder, HeardInOrder, HeardAgain
  <1>. QED BY <1>2, <1>3 DEF InOrder

LEMMA SaysOrder ==
    ASSUME Gate, LaneTypes', InOrder, NEW n \in Nodes, NEW st \in Statuses, NEW e \in Execs,
           Says(n, st, e), Now(n)' = [st |-> st, exec |-> e], Advances(n),
           \A m \in Nodes \ {n} : exec'[m] = exec[m] /\ did'[m] = did[m], UNCHANGED coordVars
    PROVE  InOrder'
  <1>. DEFINE f == [node |-> n, st |-> st, exec |-> e]
              l == LaneOf[n]
  <1>0. LaneTypes /\ CoordTypes /\ l \in Lanes /\ f \in Frames /\ f.node = n
    BY LaneAssumption DEF Gate, Frames
  <1>1. wire[l] \in Seq(Frames) /\ wire' = [wire EXCEPT ![l] = Append(wire[l], f)]
        /\ l \in alive /\ l \notin lost
    BY <1>0 DEF Says, LaneTypes, InOrder, HeardInOrder
  <1>2. /\ DOMAIN wire[l] = 1 .. Len(wire[l]) /\ Len(wire[l]) \in Nat
        /\ wire'[l] = Append(wire[l], f) /\ DOMAIN wire'[l] = 1 .. Len(wire[l]) + 1
        /\ \A i \in 1 .. Len(wire[l]) : wire'[l][i] = wire[l][i] /\ wire[l][i] \in Frames
        /\ wire'[l][Len(wire[l]) + 1] = f
    <2>1. wire'[l] = Append(wire[l], f)
      BY <1>0, <1>1 DEF LaneTypes
    <2>2. /\ Append(wire[l], f) \in Seq(Frames) /\ Len(Append(wire[l], f)) = Len(wire[l]) + 1
          /\ Append(wire[l], f)[Len(wire[l]) + 1] = f
          /\ \A i \in 1 .. Len(wire[l]) : Append(wire[l], f)[i] = wire[l][i]
      BY <1>0, <1>1, AppendProperties
    <2>3. /\ DOMAIN wire[l] = 1 .. Len(wire[l]) /\ Len(wire[l]) \in Nat
          /\ \A i \in 1 .. Len(wire[l]) : wire[l][i] \in Frames
      BY <1>1, LenProperties, ElementOfSeq
    <2>4. DOMAIN Append(wire[l], f) = 1 .. Len(wire[l]) + 1
      BY <2>2, LenProperties
    <2>. QED BY <2>1, <2>2, <2>3, <2>4
  <1>3. \A m \in Nodes : Heard(m)' = Heard(m) /\ Heard(m).exec \in Execs
    BY <1>0, VerdictTypes DEF Heard, coordVars, CoordTypes, Published
  <1>4. Now(n)' = [st |-> st, exec |-> e] /\ \A m \in Nodes \ {n} : Now(m)' = Now(m)
    BY DEF Now
  <1>5. ASSUME NEW x, x.exec \in Execs, UpTo(x, Now(n)) PROVE UpTo(x, Now(n)') /\ Follows(x, f)
    <2>1. Follows(x, Now(n)')
      BY <1>0, <1>5, AdvanceOrders
    <2>. QED BY <1>4, <2>1 DEF UpTo, Follows
  <1>6. UpTo(f, Now(n)')
    BY <1>4 DEF UpTo
  <1>7. HeardInOrder'
    <2>1. ASSUME NEW m \in Nodes, LaneOf[m] \notin lost
          PROVE  UpTo(Heard(m), Now(m)') /\ UpTo(pub[m], Now(m)')
      <3>1. UpTo(Heard(m), Now(m)) /\ UpTo(pub[m], Now(m))
        BY <2>1 DEF InOrder, HeardInOrder
      <3>2. pub[m].exec \in Execs /\ Heard(m).exec \in Execs
        BY <1>0, <1>3 DEF CoordTypes, Published
      <3>. QED BY <1>4, <1>5, <3>1, <3>2
    <2>. QED BY <1>3, <2>1 DEF InOrder, HeardInOrder, coordVars
  <1>8. FramesInOrder'
    <2>. SUFFICES ASSUME NEW k \in Lanes, NEW i \in DOMAIN wire'[k], NEW g, g = wire'[k][i]
                  PROVE  /\ LaneOf[g.node] = k /\ UpTo(g, Now(g.node)') /\ Follows(Heard(g.node)', g)
                         /\ \A j \in DOMAIN wire'[k] :
                               i < j /\ g.node = wire'[k][j].node => Follows(g, wire'[k][j])
      BY DEF FramesInOrder
    <2>1. CASE k # l
      <3>1. wire'[k] = wire[k]
        BY <1>1, <2>1
      <3>2. g \in Frames
        BY <1>0, <3>1, LenProperties, ElementOfSeq DEF LaneTypes
      <3>3. /\ LaneOf[g.node] = k /\ UpTo(g, Now(g.node)) /\ Follows(Heard(g.node), g)
            /\ \A j \in DOMAIN wire[k] :
                  i < j /\ g.node = wire[k][j].node => Follows(g, wire[k][j])
        BY <3>1 DEF InOrder, FramesInOrder
      <3>4. g.node \in Nodes \ {n}
        BY <2>1, <3>2, <3>3 DEF Frames
      <3>. QED BY <1>3, <1>4, <3>1, <3>3, <3>4
    <2>2. CASE k = l /\ i = Len(wire[l]) + 1
      <3>1. g = f
        BY <1>2, <2>2
      <3>2. UpTo(Heard(n), Now(n)) /\ Heard(n).exec \in Execs
        BY <1>1, <1>3 DEF InOrder, HeardInOrder
      <3>3. Follows(Heard(n), f)
        BY <1>5, <3>2
      <3>4. \A j \in DOMAIN wire'[k] : ~(i < j)
        BY SMTT(60), <1>2, <2>2
      <3>. QED BY <1>0, <1>3, <1>6, <2>2, <3>1, <3>3, <3>4
    <2>3. CASE k = l /\ i # Len(wire[l]) + 1
      <3>1. i \in 1 .. Len(wire[l]) /\ g = wire[l][i] /\ g \in Frames
        BY <1>2, <2>3
      <3>2. /\ LaneOf[g.node] = l /\ UpTo(g, Now(g.node)) /\ Follows(Heard(g.node), g)
            /\ \A j \in 1 .. Len(wire[l]) :
                  i < j /\ g.node = wire[l][j].node => Follows(g, wire[l][j])
        BY <1>0, <1>2, <3>1 DEF InOrder, FramesInOrder
      <3>3. g.node \in Nodes /\ g.exec \in Execs
        BY <3>1 DEF Frames
      <3>4. UpTo(g, Now(g.node)') /\ (g.node = n => Follows(g, f))
        BY <1>4, <1>5, <3>2, <3>3
      <3>5. ASSUME NEW j \in 1 .. Len(wire[l]) + 1, i < j, g.node = wire'[k][j].node
            PROVE  Follows(g, wire'[k][j])
        <4>1. CASE j = Len(wire[l]) + 1
          BY <1>0, <1>2, <2>3, <3>4, <3>5, <4>1
        <4>2. CASE j # Len(wire[l]) + 1
          <5>1. j \in 1 .. Len(wire[l])
            BY <1>2, <4>2
          <5>. QED BY <1>2, <2>3, <3>2, <3>5, <5>1
        <4>. QED BY <4>1, <4>2
      <3>. QED BY <1>2, <1>3, <2>3, <3>2, <3>3, <3>4, <3>5
    <2>. QED BY <2>1, <2>2, <2>3
  <1>. QED BY <1>7, <1>8 DEF InOrder

\* What an offer leaves to be heard.
LEMMA OfferHeard ==
    ASSUME CoordTypes, NEW n \in Nodes, NEW v, Offered(n, v), Offer(n, v)
    PROVE  /\ Heard(n)' = v /\ pub'[n] \in {pub[n], v}
           /\ \A m \in Nodes \ {n} : Heard(m)' = Heard(m) /\ pub'[m] = pub[m]
  <1>1. v.st \in Verdicts => v # NoVerdict
    BY VerdictTypes DEF Offered
  <1>. QED BY <1>1, OfferTypes DEF Heard

LEMMA OnNodesOrder ==
    ASSUME Gate, InOrder, NEW l \in Lanes, OnNodes(l)
    PROVE  InOrder'
  <1>. PICK f, v, s : f = Head(wire[l]) /\ v = [st |-> f.st, exec |-> f.exec] /\ s = wire[l]
    OBVIOUS
  <1>0. LaneTypes /\ CoordTypes /\ l \in alive /\ s # <<>> /\ s \in Seq(Frames)
    BY DEF Gate, OnNodes, LaneTypes
  <1>1. /\ f \in Frames /\ Offered(f.node, v) /\ Offer(f.node, v)
        /\ UNCHANGED <<did, exec, alive, lost>> /\ f.node \in Nodes
    BY <1>0, FramesOffered DEF OnNodes, Frames, laneVars
  <1>2. /\ Heard(f.node)' = v /\ pub'[f.node] \in {pub[f.node], v}
        /\ \A m \in Nodes \ {f.node} : Heard(m)' = Heard(m) /\ pub'[m] = pub[m]
    BY <1>0, <1>1, OfferHeard
  <1>3. wire' = [wire EXCEPT ![l] = Tail(s)]
    BY DEF OnNodes
  <1>4. /\ Len(s) \in Nat \ {0} /\ DOMAIN s = 1 .. Len(s) /\ f = s[1] /\ 1 \in DOMAIN s
        /\ wire'[l] = Tail(s) /\ DOMAIN wire'[l] = 1 .. Len(s) - 1
        /\ \A i \in 1 .. Len(s) - 1 : wire'[l][i] = s[i + 1] /\ i + 1 \in 1 .. Len(s)
    <2>1. Len(s) \in Nat \ {0} /\ DOMAIN s = 1 .. Len(s)
      BY <1>0, EmptySeq, LenProperties
    <2>2. Tail(s) \in Seq(Frames) /\ Len(Tail(s)) = Len(s) - 1 /\ Tail(s) = SubSeq(s, 2, Len(s))
      BY <1>0, HeadTailProperties, TailIsSubSeq
    <2>3. DOMAIN Tail(s) = 1 .. Len(s) - 1
      BY <2>2, LenProperties
    <2>4. \A i \in 1 .. Len(s) - 1 : Tail(s)[i] = s[i + 1]
      BY <2>1, <2>2, <1>0
    <2>5. wire'[l] = Tail(s)
      BY <1>0, <1>3 DEF LaneTypes
    <2>6. f = s[1]
      BY <1>0
    <2>. QED BY <2>1, <2>3, <2>4, <2>5, <2>6
  <1>5. /\ LaneOf[f.node] = l /\ UpTo(f, Now(f.node))
        /\ \A j \in DOMAIN s : 1 < j /\ f.node = s[j].node => Follows(f, s[j])
    BY <1>4 DEF InOrder, FramesInOrder
  <1>6. UpTo(v, Now(f.node)) /\ \A x : Follows(f, x) => Follows(v, x)
    BY <1>5 DEF UpTo, Follows
  <1>7. \A n \in Nodes : Now(n)' = Now(n)
    BY <1>1 DEF Now
  <1>8. HeardInOrder'
    <2>1. ASSUME NEW m \in Nodes, LaneOf[m] \notin lost
          PROVE  UpTo(Heard(m)', Now(m)) /\ UpTo(pub'[m], Now(m))
      <3>1. UpTo(Heard(m), Now(m)) /\ UpTo(pub[m], Now(m))
        BY <2>1 DEF InOrder, HeardInOrder
      <3>. QED BY <1>2, <1>6, <3>1
    <2>. QED BY <1>1, <1>7, <2>1 DEF InOrder, HeardInOrder
  <1>9. FramesInOrder'
    <2>. SUFFICES ASSUME NEW k \in Lanes, NEW i \in DOMAIN wire'[k], NEW g, g = wire'[k][i]
                  PROVE  /\ LaneOf[g.node] = k /\ UpTo(g, Now(g.node)') /\ Follows(Heard(g.node)', g)
                         /\ \A j \in DOMAIN wire'[k] :
                               i < j /\ g.node = wire'[k][j].node => Follows(g, wire'[k][j])
      BY DEF FramesInOrder
    <2>1. CASE k # l
      <3>1. wire'[k] = wire[k]
        BY <1>3, <2>1
      <3>2. g \in Frames
        BY <1>0, <3>1, LenProperties, ElementOfSeq DEF LaneTypes
      <3>3. /\ LaneOf[g.node] = k /\ UpTo(g, Now(g.node)) /\ Follows(Heard(g.node), g)
            /\ \A j \in DOMAIN wire[k] :
                  i < j /\ g.node = wire[k][j].node => Follows(g, wire[k][j])
        BY <3>1 DEF InOrder, FramesInOrder
      <3>4. g.node \in Nodes \ {f.node}
        BY <1>5, <2>1, <3>2, <3>3 DEF Frames
      <3>. QED BY <1>2, <1>7, <3>1, <3>3, <3>4
    <2>2. CASE k = l
      <3>1. /\ i \in 1 .. Len(s) - 1 /\ i + 1 \in 1 .. Len(s) /\ 1 < i + 1 /\ g = s[i + 1]
            /\ g \in Frames
        <4>1. i \in 1 .. Len(s) - 1 /\ g = s[i + 1]
          BY <1>4, <2>2
        <4>2. i + 1 \in 1 .. Len(s) /\ 1 < i + 1
          BY <1>4, <4>1
        <4>. QED BY <1>0, <4>1, <4>2, ElementOfSeq
      <3>2. /\ LaneOf[g.node] = l /\ UpTo(g, Now(g.node)) /\ Follows(Heard(g.node), g)
            /\ \A j \in 1 .. Len(s) : i + 1 < j /\ g.node = s[j].node => Follows(g, s[j])
        BY <1>4, <3>1 DEF InOrder, FramesInOrder
      <3>3. Follows(Heard(g.node)', g)
        <4>1. CASE g.node = f.node
          <5>1. Follows(f, g)
            BY <1>4, <1>5, <3>1, <4>1
          <5>. QED BY <1>2, <1>6, <4>1, <5>1
        <4>2. CASE g.node # f.node
          BY <1>2, <3>1, <3>2, <4>2 DEF Frames
        <4>. QED BY <4>1, <4>2
      <3>4. ASSUME NEW j \in 1 .. Len(s) - 1, i < j, g.node = wire'[l][j].node
            PROVE  Follows(g, wire'[l][j])
        <4>1. wire'[l][j] = s[j + 1] /\ j + 1 \in 1 .. Len(s) /\ i + 1 < j + 1
          BY <1>4, <3>1, <3>4
        <4>. QED BY <3>2, <3>4, <4>1
      <3>5. UpTo(g, Now(g.node)')
        BY <1>7, <3>1, <3>2 DEF Frames
      <3>. QED BY <1>4, <2>2, <3>2, <3>3, <3>4, <3>5
    <2>. QED BY <2>1, <2>2
  <1>. QED BY <1>8, <1>9 DEF InOrder

LEMMA StopLaneOrder ==
    ASSUME Gate, InOrder, NEW l \in Lanes, StopLane(l)
    PROVE  InOrder'
  <1>0. LaneTypes /\ CoordTypes
    BY DEF Gate
  <1>1. \A m \in Nodes : LaneOf[m] # l => Heard(m)' = Heard(m) /\ pub'[m] = pub[m]
    <2>1. LetGo(l) = Of(l) /\ Of(l) \in SUBSET Nodes /\ \A m \in Nodes : m \in Of(l) <=> LaneOf[m] = l
      BY DEF LetGo, Of
    <2>2. held' = ReleasedHeld(Of(l))
      BY <2>1 DEF StopLane
    <2>. QED BY <1>0, <2>1, <2>2, ReleasedTypes DEF StopLane, Heard
  <1>2. /\ alive' = alive \ {l} /\ lost' = lost \cup {l} /\ wire' = [wire EXCEPT ![l] = <<>>]
        /\ UNCHANGED <<did, exec>>
    BY DEF StopLane, laneVars
  <1>3. wire'[l] = <<>> /\ DOMAIN wire'[l] = {} /\ \A k \in Lanes \ {l} : wire'[k] = wire[k]
    BY <1>0, <1>2 DEF LaneTypes
  <1>4. \A n \in Nodes : Now(n)' = Now(n)
    BY <1>2 DEF Now
  <1>5. HeardInOrder'
    BY <1>1, <1>2, <1>4 DEF InOrder, HeardInOrder
  <1>6. FramesInOrder'
    <2>. SUFFICES ASSUME NEW k \in Lanes, NEW i \in DOMAIN wire'[k], NEW g, g = wire'[k][i]
                  PROVE  /\ LaneOf[g.node] = k /\ UpTo(g, Now(g.node)') /\ Follows(Heard(g.node)', g)
                         /\ \A j \in DOMAIN wire'[k] :
                               i < j /\ g.node = wire'[k][j].node => Follows(g, wire'[k][j])
      BY DEF FramesInOrder
    <2>1. k # l /\ wire'[k] = wire[k]
      BY <1>3
    <2>2. g \in Frames
      BY <1>0, <2>1, LenProperties, ElementOfSeq DEF LaneTypes
    <2>3. /\ LaneOf[g.node] = k /\ UpTo(g, Now(g.node)) /\ Follows(Heard(g.node), g)
          /\ \A j \in DOMAIN wire[k] :
                i < j /\ g.node = wire[k][j].node => Follows(g, wire[k][j])
      BY <2>1 DEF InOrder, FramesInOrder
    <2>. QED BY <1>1, <1>4, <2>1, <2>2, <2>3 DEF Frames
  <1>. QED BY <1>5, <1>6 DEF InOrder

LEMMA InOrderKept ==
    ASSUME Gate, InOrder, [Next]_vars
    PROVE  InOrder'
  <1>0. LaneTypes /\ CoordTypes /\ Withheld /\ LaneTypes'
    BY NextGate DEF Gate
  <1>1. ASSUME HeardAgain, UNCHANGED <<did, exec, wire>>, alive' \subseteq alive, lost' = lost
        PROVE  InOrder'
    BY <1>0, <1>1, SameOrder
  <1>2. ASSUME NEW n \in Nodes, LaneStep(n) PROVE InOrder'
    <2>0. exec[n] \in Execs /\ exec[n] \in Int /\ did[n] \in Statuses
      BY <1>0 DEF LaneTypes, Execs
    <2>1. ASSUME NEW st \in Statuses, did[n] \in InFlight, Says(n, st, exec[n]), exec' = exec,
                 UNCHANGED coordVars
          PROVE  InOrder'
      <3>1. did' = [did EXCEPT ![n] = st]
        BY <2>1 DEF Says
      <3>2. /\ Now(n)' = [st |-> st, exec |-> exec[n]]
            /\ \A m \in Nodes \ {n} : exec'[m] = exec[m] /\ did'[m] = did[m]
        BY <1>0, <2>1, <3>1 DEF Now, LaneTypes
      <3>3. Advances(n)
        BY <2>1, <3>2 DEF Advances, Follows, Now
      <3>. QED BY <1>0, <2>0, <2>1, <3>2, <3>3, SaysOrder
    <2>2. CASE Start(n) \/ Skip(n) \/ Exit(n) \/ Cancel(n)
      BY <2>1, <2>2 DEF Start, Skip, Exit, Cancel, InFlight, Statuses, Verdicts
    <2>3. CASE Write(n) \/ EndLog(n)
      <3>1. HeardAgain
        BY <2>3 DEF Write, EndLog, coordVars, HeardAgain, Heard
      <3>. QED BY <1>1, <2>3, <3>1 DEF Write, EndLog, coordVars
    <2>4. CASE Rerun(n)
      <3>1. /\ exec[n] + 1 \in Execs /\ "pending" \in Statuses /\ Says(n, "pending", exec[n] + 1)
            /\ UNCHANGED coordVars
        BY <2>0, <2>4, LaneAssumption DEF Rerun, Execs, Statuses, InFlight
      <3>2. /\ Now(n)' = [st |-> "pending", exec |-> exec[n] + 1]
            /\ \A m \in Nodes \ {n} : exec'[m] = exec[m] /\ did'[m] = did[m]
        BY <1>0, <2>4 DEF Now, LaneTypes, Rerun, Says
      <3>3. Advances(n)
        BY <2>0, <3>2 DEF Advances, Follows, Now
      <3>. QED BY <1>0, <3>1, <3>2, <3>3, SaysOrder
    <2>. QED BY <1>2, <2>2, <2>3, <2>4 DEF LaneStep
  <1>3. ASSUME NEW n \in Nodes, OnNodesAgain(n) PROVE InOrder'
    <2>1. Offered(n, Heard(n)) /\ Offer(n, Heard(n))
      BY <1>0, <1>3, FramesOffered DEF OnNodesAgain, Heard
    <2>2. HeardAgain
      BY <1>0, <2>1, OfferHeard DEF HeardAgain
    <2>. QED BY <1>1, <1>3, <2>2 DEF OnNodesAgain, laneVars
  <1>4. ASSUME NEW n \in Nodes, OnLogFrame(n) PROVE InOrder'
    <2>1. \/ UNCHANGED <<pub, held>>
          \/ /\ held[n] # NoVerdict /\ pub' = [pub EXCEPT ![n] = held[n]]
             /\ held' = [held EXCEPT ![n] = NoVerdict]
      BY <1>4 DEF OnLogFrame, OnAppend, OnSnapshot, OnEnd, Publish
    <2>2. HeardAgain
      BY <1>0, <2>1 DEF HeardAgain, Heard, CoordTypes
    <2>. QED BY <1>1, <1>4, <2>2 DEF OnLogFrame, laneVars
  <1>5. ASSUME pub' = ReleasedPub(Nodes), held' = ReleasedHeld(Nodes) PROVE HeardAgain
    BY <1>0, <1>5 DEF HeardAgain, Heard, ReleasedPub, ReleasedHeld
  <1>6. ASSUME UNCHANGED <<pub, held>> PROVE HeardAgain
    BY <1>6 DEF HeardAgain, Heard
  <1>7. ASSUME NEW l \in Lanes, DrainLane(l) PROVE InOrder'
    <2>1. HeardAgain
      BY <1>5, <1>6, <1>7 DEF DrainLane
    <2>. QED BY <1>1, <1>7, <2>1 DEF DrainLane, laneVars
  <1>8. CASE Shutdown
    BY <1>1, <1>5, <1>8 DEF Shutdown, laneVars
  <1>9. CASE Complete \/ StopWork
    <2>1. UNCHANGED <<pub, held, did, exec, wire, lost>> /\ alive' = {}
      BY <1>9 DEF Complete, StopWork, RunEnds, laneVars
    <2>. QED BY <1>1, <1>6, <2>1
  <1>10. CASE UNCHANGED vars
    BY <1>1, <1>6, <1>10 DEF vars, laneVars, coordVars
  <1>. QED BY <1>2, <1>3, <1>4, <1>7, <1>8, <1>9, <1>10, OnNodesOrder, StopLaneOrder DEF Next

-----------------------------------------------------------------------------
(* Logs that are accounted for.                                            *)

Grows(s, t) == t.of = s.of /\ s.text \subseteq t.text /\ (s.ended => t.ended)

LogsGrow ==
    \A n \in Nodes :
        /\ Grows(sink[n], sink'[n]) \/ (sink'[n].of > 0 /\ n \notin drained')
        /\ n \in drained' => n \in drained \/ sink'[n].ended

LEMMA LogsOnlyGrow ==
    ASSUME LaneTypes, CoordTypes, Answered, [Next]_vars
    PROVE  LogsGrow
  <1>0. \A s \in Logs : /\ Grows(s, s) /\ Grows(s, Noticed(s)) /\ Noticed(s) \in Logs
                        /\ Grows(s, [s EXCEPT !.ended = TRUE])
    BY NoticedType DEF Grows, Logs, Noticed
  <1>1. ASSUME drained' = drained,
               \A n \in Nodes : \E s \in {sink[n], Noticed(sink[n])} :
                   sink'[n] = s \/ sink'[n] = [s EXCEPT !.ended = TRUE]
        PROVE  LogsGrow
    <2>1. ASSUME NEW n \in Nodes PROVE Grows(sink[n], sink'[n])
      <3>1. sink[n] \in Logs
        BY DEF CoordTypes
      <3>2. PICK s \in {sink[n], Noticed(sink[n])} :
                sink'[n] = s \/ sink'[n] = [s EXCEPT !.ended = TRUE]
        BY <1>1
      <3>3. s \in Logs /\ Grows(sink[n], s) /\ Grows(s, sink'[n])
        BY <1>0, <3>1, <3>2
      <3>. QED BY <3>3 DEF Grows
    <2>. QED BY <1>1, <2>1 DEF LogsGrow
  <1>2. ASSUME NEW n \in Nodes, LaneStep(n) PROVE LogsGrow
    BY <1>1, <1>2 DEF LaneStep, Start, Skip, Write, Exit, EndLog, Cancel, Rerun, coordVars
  <1>3. ASSUME NEW n \in Nodes, OnLogFrame(n) PROVE LogsGrow
    <2>0. Head(out[n]).kind = "snapshot" => Head(out[n]).exec > 0
      <3>1. out[n] \in Seq(LogFrames) /\ out[n] # <<>>
        BY <1>3 DEF OnLogFrame, LaneTypes
      <3>2. 1 \in DOMAIN out[n] /\ Head(out[n]) = out[n][1]
        BY <3>1, EmptySeq, LenProperties
      <3>. QED BY <3>2 DEF Answered
    <2>1. CASE OnAppend(n, Head(out[n]).exec)
      BY <1>0, <2>1 DEF OnAppend, LogsGrow, CoordTypes, Logs, Grows
    <2>2. CASE OnEnd(n)
      BY <1>0, <2>2 DEF OnEnd, LogsGrow, CoordTypes, Logs, Grows
    <2>3. CASE OnSnapshot(n, Head(out[n]).exec) /\ Head(out[n]).kind = "snapshot"
      BY <1>0, <2>0, <2>3 DEF OnSnapshot, LogsGrow, CoordTypes, Logs, Grows, EmptyLog
    <2>. QED BY <1>3, <2>1, <2>2, <2>3 DEF OnLogFrame
  <1>4. ASSUME NEW l \in Lanes, DrainLane(l) PROVE LogsGrow
    BY <1>1, <1>4 DEF DrainLane
  <1>5. ASSUME NEW l \in Lanes, StopLane(l) PROVE LogsGrow
    <2>1. ASSUME NEW n \in Nodes
          PROVE  \/ sink'[n] = sink[n] \/ sink'[n] = [sink[n] EXCEPT !.ended = TRUE]
                 \/ sink'[n] = [Noticed(sink[n]) EXCEPT !.ended = TRUE]
      BY <1>5 DEF StopLane
    <2>. QED BY <1>1, <1>5, <2>1 DEF StopLane
  <1>6. CASE Complete
    BY <1>1, <1>6 DEF Complete, RunEnds
  <1>7. CASE StopWork
    <2>1. ASSUME NEW n \in Nodes
          PROVE  \/ sink'[n] = [sink[n] EXCEPT !.ended = TRUE]
                 \/ sink'[n] = [Noticed(sink[n]) EXCEPT !.ended = TRUE]
      BY <1>7 DEF StopWork, RunEnds
    <2>. QED BY <1>1, <1>7, <2>1 DEF StopWork, RunEnds
  <1>8. CASE Shutdown \/ UNCHANGED vars \/ (\E l \in Lanes : OnNodes(l))
              \/ \E n \in Nodes : OnNodesAgain(n)
    BY <1>1, <1>8 DEF Shutdown, OnNodes, OnNodesAgain, vars, coordVars
  <1>. QED BY <1>2, <1>3, <1>4, <1>5, <1>6, <1>7, <1>8 DEF Next

LEMMA AccountedStays ==
    ASSUME CoordTypes, LogsGrow, NEW n \in Nodes, Accounted(n, 0)
    PROVE  Accounted(n, 0)'
  BY DEF Accounted, LogsGrow, Grows

LEMMA EndedIsAccounted ==
    ASSUME CoordTypes, NEW n \in Nodes, sink[n].ended
    PROVE  Accounted(n, 0)
  BY DEF Accounted, CoordTypes, Logs, Execs

\* A lane that answers a drain leaves each log of its nodes accounted for.
LEMMA DrainAccounts ==
    ASSUME LaneTypes, CoordTypes, Answered, [Next]_vars, NEW l \in Lanes, DrainLane(l),
           NEW n \in Nodes, LaneOf[n] = l \/ drain = {l}
    PROVE  Accounted(n, 0)'
  <1>0. LogsGrow /\ CoordTypes'
    BY LogsOnlyGrow, CoordTypesKept
  <1>1. CASE LaneOf[n] # l
    <2>1. drain # {} /\ LaneOf[n] \notin drain
      BY <1>1
    <2>. QED BY <1>0, <2>1, AccountedStays DEF Answered
  <1>2. CASE LaneOf[n] = l /\ n \in drained
    BY <1>0, <1>2, AccountedStays, EndedIsAccounted DEF Answered
  <1>3. CASE LaneOf[n] = l /\ n \notin drained
    <2>1. sink'[n] = Noticed(sink[n]) /\ sink[n] \in Logs
      BY <1>3 DEF DrainLane, ToStamp, Undrained, Of, CoordTypes
    <2>2. sink'[n].ended \/ "notice" \in sink'[n].text
      BY <2>1, NoticedType
    <2>3. sink'[n] \in Logs
      BY <2>1, NoticedType
    <2>. QED BY <2>2, <2>3 DEF Accounted, Logs, Execs
  <1>. QED BY <1>1, <1>2, <1>3

LEMMA AnsweredKept ==
    ASSUME LaneTypes, CoordTypes, Answered, [Next]_vars
    PROVE  Answered'
  <1>0. LogsGrow
    BY LogsOnlyGrow
  <1>1. \A n \in drained' : sink'[n].ended
    <2>1. drained' \subseteq Nodes
      BY CoordTypesKept DEF CoordTypes
    <2>. QED BY <1>0, <2>1 DEF LogsGrow, Grows, Answered, CoordTypes
  <1>2. ASSUME drain' = drain \/ Lanes \subseteq drain', NEW n \in Nodes, drain' # {},
               LaneOf[n] \notin drain'
        PROVE  Accounted(n, 0)'
    <2>1. LaneOf[n] \in Lanes
      BY LaneAssumption
    <2>. QED BY <1>0, <1>2, <2>1, AccountedStays DEF Answered
  <1>3. ASSUME NEW n \in Nodes, drain' # {}, LaneOf[n] \notin drain'
        PROVE  Accounted(n, 0)'
    <2>1. ASSUME NEW l \in Lanes, DrainLane(l) PROVE Accounted(n, 0)'
      <3>1. CASE LaneOf[n] = l
        BY <2>1, <3>1, DrainAccounts
      <3>2. CASE LaneOf[n] # l
        <4>1. LaneOf[n] \in Lanes /\ l \in drain
          BY <2>1, LaneAssumption DEF DrainLane
        <4>2. LaneOf[n] \notin drain
          BY <1>3, <2>1, <3>2, <4>1 DEF DrainLane
        <4>. QED BY <1>0, <4>1, <4>2, AccountedStays DEF Answered
      <3>. QED BY <3>1, <3>2
    <2>2. \A p, w : Bounded(p, w) \in {drain, Lanes} /\ BoundedBySettle(p, w) \in {drain, Lanes}
      BY DEF Bounded, BoundedBySettle
    <2>3. ASSUME NEW l \in Lanes, OnNodes(l) PROVE drain' \in {drain, Lanes}
      BY <2>2, <2>3 DEF OnNodes, Offer, Publish
    <2>4. ASSUME NEW m \in Nodes, OnNodesAgain(m) PROVE drain' \in {drain, Lanes}
      BY <2>2, <2>4 DEF OnNodesAgain, Offer, Publish
    <2>5. ASSUME NEW m \in Nodes, OnLogFrame(m) PROVE drain' \in {drain, Lanes}
      BY <2>2, <2>5 DEF OnLogFrame, OnAppend, OnEnd, OnSnapshot, Publish
    <2>6. ASSUME NEW l \in Lanes, StopLane(l) PROVE drain' \in {drain, Lanes}
      BY <2>2, <2>6 DEF StopLane
    <2>7. ASSUME NEW m \in Nodes, LaneStep(m) PROVE drain' = drain
      BY <2>7 DEF LaneStep, Start, Skip, Write, Exit, EndLog, Cancel, Rerun, coordVars
    <2>8. CASE Complete \/ StopWork \/ Shutdown \/ UNCHANGED vars
      BY <1>2, <1>3, <2>8 DEF Complete, StopWork, RunEnds, Shutdown, vars, coordVars
    <2>. QED BY <1>2, <1>3, <2>1, <2>3, <2>4, <2>5, <2>6, <2>7, <2>8 DEF Next
  <1>4. ASSUME NEW n \in Nodes, NEW i \in DOMAIN out'[n], out'[n][i].kind = "snapshot"
        PROVE  out'[n][i].exec > 0
    <2>0. out[n] \in Seq(LogFrames) /\ Len(out[n]) \in Nat /\ DOMAIN out[n] = 1 .. Len(out[n])
      BY LenProperties DEF LaneTypes
    <2>1. CASE out'[n] = out[n]
      BY <1>4, <2>1 DEF Answered
    <2>2. ASSUME NEW kind \in {"append", "end", "snapshot"}, NEW e \in Execs, Sends(n, kind, e),
                 kind = "snapshot" => e > 0
          PROVE  out'[n][i].exec > 0
      <3>. DEFINE x == [kind |-> kind, exec |-> e]
      <3>1. out'[n] = Append(out[n], x) /\ x \in LogFrames
        BY <2>2 DEF Sends, LaneTypes, LogFrames
      <3>2. /\ Append(out[n], x) \in Seq(LogFrames) /\ Len(Append(out[n], x)) = Len(out[n]) + 1
            /\ Append(out[n], x)[Len(out[n]) + 1] = x
            /\ \A j \in 1 .. Len(out[n]) : Append(out[n], x)[j] = out[n][j]
        BY <2>0, <3>1, AppendProperties
      <3>3. i \in 1 .. Len(out[n]) + 1
        BY <1>4, <3>1, <3>2, LenProperties
      <3>4. CASE i = Len(out[n]) + 1
        BY <1>4, <2>2, <3>1, <3>2, <3>4
      <3>5. CASE i # Len(out[n]) + 1
        <4>1. i \in 1 .. Len(out[n])
          BY <2>0, <3>3, <3>5
        <4>. QED BY <1>4, <2>0, <3>1, <3>2, <4>1 DEF Answered
      <3>. QED BY <3>4, <3>5
    <2>3. CASE out[n] # <<>> /\ out'[n] = Tail(out[n])
      <3>1. Tail(out[n]) \in Seq(LogFrames) /\ Len(Tail(out[n])) = Len(out[n]) - 1
        BY <2>0, <2>3, HeadTailProperties
      <3>2. i \in 1 .. Len(out[n]) - 1
        BY <1>4, <2>3, <3>1, LenProperties
      <3>3. Tail(out[n])[i] = out[n][i + 1] /\ i + 1 \in 1 .. Len(out[n])
        BY <2>0, <2>3, <3>2
      <3>. QED BY <1>4, <2>0, <2>3, <3>3 DEF Answered
    <2>4. ASSUME NEW m \in Nodes, LaneStep(m) PROVE out'[n][i].exec > 0
      <3>1. exec[m] \in Execs /\ exec[m] >= 0 /\ (exec[m] < MaxReruns => exec[m] + 1 \in Execs)
        BY LaneAssumption DEF LaneTypes, Execs
      <3>2. \/ out' = out \/ Cancel(m)
            \/ \E kind \in {"append", "end"} : Sends(m, kind, exec[m])
            \/ exec[m] < MaxReruns /\ Sends(m, "snapshot", exec[m] + 1)
        BY <2>4 DEF LaneStep, Start, Skip, Write, Exit, EndLog, Rerun
      <3>3. CASE m # n
        <4>1. out'[n] = out[n]
          BY <3>2, <3>3, CancelSends DEF Sends, LaneTypes
        <4>. QED BY <2>1, <4>1
      <3>4. CASE m = n
        <4>1. CASE out' = out
          BY <2>1, <4>1
        <4>2. ASSUME NEW kind \in {"append", "end"}, Sends(n, kind, exec[n])
              PROVE  out'[n][i].exec > 0
          BY <2>2, <3>1, <3>4, <4>2
        <4>3. CASE exec[n] < MaxReruns /\ Sends(n, "snapshot", exec[n] + 1)
          <5>1. exec[n] + 1 \in Execs /\ exec[n] + 1 > 0
            BY <3>1, <3>4, <4>3 DEF Execs
          <5>. QED BY <2>2, <4>3, <5>1
        <4>4. CASE Cancel(n)
          <5>0. Cancelled(n)
            BY <4>4, CancelSends
          <5>1. CASE i \in DOMAIN out[n]
            BY <1>4, <5>0, <5>1 DEF Answered, Cancelled
          <5>2. CASE i \notin DOMAIN out[n]
            BY <1>4, <5>0, <5>2 DEF Cancelled
          <5>. QED BY <5>1, <5>2
        <4>. QED BY <3>2, <3>4, <4>1, <4>2, <4>3, <4>4
      <3>. QED BY <3>3, <3>4
    <2>5. ASSUME NEW m \in Nodes, OnLogFrame(m) PROVE out'[n][i].exec > 0
      BY <2>1, <2>3, <2>5 DEF OnLogFrame, LaneTypes
    <2>6. ASSUME NEW l \in Lanes, StopLane(l) PROVE out'[n][i].exec > 0
      <3>1. out'[n] = <<>> \/ out'[n] = out[n]
        BY <2>6 DEF StopLane
      <3>2. out'[n] # <<>>
        BY <1>4, EmptySeq, LenProperties
      <3>. QED BY <2>1, <3>1, <3>2
    <2>7. CASE \/ Complete \/ Shutdown \/ StopWork \/ UNCHANGED vars
               \/ \E l \in Lanes : DrainLane(l) \/ OnNodes(l)
               \/ \E m \in Nodes : OnNodesAgain(m)
      BY <2>1, <2>7 DEF Complete, Shutdown, StopWork, RunEnds, DrainLane, OnNodes, OnNodesAgain, vars
    <2>. QED BY <2>4, <2>5, <2>6, <2>7 DEF Next
  <1>. QED BY <1>1, <1>3, <1>4 DEF Answered

-----------------------------------------------------------------------------
(* The first verdict.                                                      *)

LEMMA FirstVerdictKept ==
    ASSUME Gate, InOrder, Answered, FirstVerdictBehindLog, [Next]_vars
    PROVE  FirstVerdictBehindLog'
  <1>0. LaneTypes /\ CoordTypes /\ Withheld /\ LogsGrow /\ CoordTypes'
    BY LogsOnlyGrow, NextGate DEF Gate
  <1>. SUFFICES ASSUME NEW n \in Nodes, over' = "no", LaneOf[n] \notin lost',
                       pub'[n] = [st |-> "done", exec |-> 0]
                PROVE  Accounted(n, 0)'
    BY DEF FirstVerdictBehindLog, Behind
  <1>1. over = "no" /\ lost \subseteq lost'
    BY DEF Next, Complete, RunEnds, DrainLane, OnNodes, OnNodesAgain, OnLogFrame, StopLane,
           Shutdown, StopWork, LaneStep, Start, Skip, Write, Exit, EndLog, Cancel, Rerun, vars, coordVars
  <1>2. CASE pub'[n] = pub[n]
    BY <1>0, <1>1, <1>2, AccountedStays DEF FirstVerdictBehindLog, Behind
  <1>3. ASSUME NEW v, Offered(n, v), Offer(n, v), v = Heard(n) \/ Follows(Heard(n), v)
        PROVE  Accounted(n, 0)'
    <2>1. pub'[n] = pub[n] \/ (pub'[n] = v /\ (IsTerminal(pub[n]) \/ sink[n].ended))
      <3>1. pub'[n] # pub[n] => pub'[n] = v /\ (v.st \in InFlight \/ IsTerminal(pub[n]) \/ sink[n].ended)
        BY <1>0, <1>3, OfferTypes
      <3>. QED BY <3>1 DEF InFlight
    <2>2. CASE pub'[n] = v /\ IsTerminal(pub[n])
      <3>1. Heard(n) = pub[n] /\ pub[n].exec \in Nat
        BY <1>0, <1>1, <2>2, LaneAssumption DEF Heard, Withheld, CoordTypes, Published, Execs
      <3>2. v.exec = 0 /\ pub[n].st \notin InFlight
        BY <2>2 DEF IsTerminal, Terminal, Verdicts, InFlight
      <3>3. ~Follows(pub[n], v)
        BY <3>1, <3>2 DEF Follows
      <3>. QED BY <1>2, <1>3, <2>2, <3>1, <3>3
    <2>. QED BY <1>0, <1>2, <2>1, <2>2, AccountedStays, EndedIsAccounted
  <1>4. ASSUME NEW l \in Lanes, OnNodes(l) PROVE Accounted(n, 0)'
    <2>. PICK f, v : f = Head(wire[l]) /\ v = [st |-> f.st, exec |-> f.exec]
      OBVIOUS
    <2>1. f \in Frames /\ Offered(f.node, v) /\ Offer(f.node, v)
      BY <1>0, <1>4, FramesOffered DEF OnNodes
    <2>2. CASE f.node = n
      <3>1. 1 \in DOMAIN wire[l] /\ f = wire[l][1]
        <4>1. wire[l] \in Seq(Frames) /\ wire[l] # <<>>
          BY <1>0, <1>4 DEF OnNodes, LaneTypes
        <4>. QED BY <4>1, EmptySeq, LenProperties
      <3>2. Follows(Heard(n), v)
        BY <2>2, <3>1 DEF InOrder, FramesInOrder, Follows
      <3>. QED BY <1>3, <2>1, <2>2, <3>2
    <2>3. CASE f.node # n
      BY <1>0, <1>2, <2>1, <2>3, OfferTypes DEF Frames
    <2>. QED BY <2>2, <2>3
  <1>5. ASSUME NEW m \in Nodes, OnNodesAgain(m) PROVE Accounted(n, 0)'
    <2>1. Offered(m, Heard(m)) /\ Offer(m, Heard(m))
      BY <1>0, <1>5, FramesOffered DEF OnNodesAgain, Heard
    <2>. QED BY <1>0, <1>2, <1>3, <2>1, OfferTypes
  <1>6. ASSUME NEW m \in Nodes, OnLogFrame(m) PROVE Accounted(n, 0)'
    <2>1. pub'[n] = pub[n] \/ (m = n /\ OnEnd(n))
      BY ZenonT(90), <1>0, <1>6 DEF OnLogFrame, OnAppend, OnSnapshot, OnEnd, Publish, CoordTypes
    <2>2. CASE OnEnd(n)
      <3>1. sink'[n].ended /\ sink'[n] \in Logs
        BY <1>0, <2>2 DEF OnEnd, CoordTypes, Logs
      <3>. QED BY <3>1 DEF Accounted, Logs, Execs
    <2>. QED BY <1>2, <2>1, <2>2
  <1>7. ASSUME NEW l \in Lanes, DrainLane(l) PROVE Accounted(n, 0)'
    BY <1>0, <1>2, <1>7, DrainAccounts DEF DrainLane
  <1>8. ASSUME NEW l \in Lanes, StopLane(l) PROVE Accounted(n, 0)'
    <2>1. LaneOf[n] # l
      BY <1>8 DEF StopLane
    <2>2. pub'[n] = pub[n]
      BY <1>0, <1>8, <2>1, ReleasedTypes DEF StopLane, LetGo, Of
    <2>. QED BY <1>2, <2>2
  <1>9. CASE UNCHANGED pub
    BY <1>2, <1>9
  <1>10. ASSUME NEW m \in Nodes, LaneStep(m) PROVE Accounted(n, 0)'
    BY <1>9, <1>10 DEF LaneStep, Start, Skip, Write, Exit, EndLog, Cancel, Rerun, coordVars
  <1>11. CASE Complete \/ StopWork \/ Shutdown \/ UNCHANGED vars
    BY <1>9, <1>11 DEF Complete, StopWork, RunEnds, Shutdown, vars, coordVars
  <1>. QED BY <1>4, <1>5, <1>6, <1>7, <1>8, <1>10, <1>11 DEF Next

LEMMA InitOrder == Init => InOrder /\ Answered /\ FirstVerdictBehindLog
  <1>. SUFFICES ASSUME Init PROVE InOrder /\ Answered /\ FirstVerdictBehindLog
    OBVIOUS
  <1>1. DOMAIN <<>> = {}
    BY EmptySeq, LenProperties
  <1>2. InOrder
    BY <1>1 DEF Init, InOrder, FramesInOrder, HeardInOrder, Heard, Now, UpTo
  <1>3. Answered
    BY <1>1 DEF Init, Answered
  <1>. QED BY <1>2, <1>3 DEF Init, FirstVerdictBehindLog, Behind

Ordered == Gate /\ InOrder /\ Answered /\ FirstVerdictBehindLog

LEMMA OrderedKept == Ordered /\ [Next]_vars => Ordered'
  BY NextGate, InOrderKept, AnsweredKept, FirstVerdictKept DEF Ordered, Gate

\* The verdict of a node's first execution is out only when its log has ended
\* or says that it is short, whatever the order its two streams are heard in
\* (verdictGate.ts, offer and releaseAll; lane.ts, drainLaneLogs).
THEOREM FirstVerdictAfterLog == Spec => []FirstVerdictBehindLog
  <1>1. Init => Ordered
    BY InitGate, InitOrder DEF Ordered
  <1>. QED BY <1>1, OrderedKept, PTL DEF Spec, Ordered

-----------------------------------------------------------------------------
(* The one log of a first execution.                                       *)

\* What the steps that send nothing for n leave of its log.
LEMMA SameLogOf ==
    ASSUME NEW n \in Nodes, LogOf(n), exec'[n] = exec[n], did'[n] = did[n], wrote'[n] = wrote[n],
           closed'[n] = closed[n], lost \subseteq lost', sink'[n].of = sink[n].of,
           over' # "yes" => over # "yes", out'[n] = out[n] \/ out'[n] = <<>>,
           sink'[n].ended => sink[n].ended \/ LaneOf[n] \in lost' \/ over' = "yes"
    PROVE  LogOf(n)'
  <1>1. DOMAIN <<>> = {}
    BY EmptySeq, LenProperties
  <1>. QED BY <1>1 DEF LogOf, Once

LEMMA SentLogOf ==
    ASSUME LaneTypes, NEW n \in Nodes, LogOf(n), exec'[n] = exec[n], UNCHANGED coordVars,
           NEW kind \in {"append", "end"}, Sends(n, kind, exec[n]), ~closed[n],
           closed'[n] = (kind = "end"), closed'[n] => did'[n] \in Verdicts,
           did'[n] \in {"pending", "skipped"} => did[n] \in {"pending", "skipped"} /\ kind = "end",
           kind = "end" => wrote'[n] = wrote[n]
    PROVE  LogOf(n)'
  <1>. DEFINE x == [kind |-> kind, exec |-> exec[n]]
  <1>1. out[n] \in Seq(LogFrames) /\ x \in LogFrames /\ out'[n] = Append(out[n], x)
    BY DEF LaneTypes, LogFrames, Sends
  <1>2. /\ out'[n] \in Seq(LogFrames) /\ Len(out'[n]) = Len(out[n]) + 1
        /\ out'[n][Len(out[n]) + 1] = x
        /\ \A i \in 1 .. Len(out[n]) : out'[n][i] = out[n][i]
    BY <1>1, AppendProperties
  <1>3. /\ DOMAIN out'[n] = 1 .. Len(out[n]) + 1 /\ Len(out[n]) \in Nat
        /\ DOMAIN out[n] = 1 .. Len(out[n])
    <2>1. DOMAIN out'[n] = 1 .. Len(out'[n])
      BY <1>2, LenProperties
    <2>. QED BY <1>1, <1>2, <2>1, LenProperties
  <1>4. ASSUME exec[n] = 0, NEW i \in DOMAIN out'[n]
        PROVE  /\ out'[n][i].kind # "snapshot" /\ out'[n][i].exec = 0
               /\ out'[n][i].kind = "end" => i = Len(out'[n]) /\ closed'[n]
    <2>1. CASE i = Len(out[n]) + 1
      <3>1. out'[n][i].kind = kind /\ out'[n][i].exec = 0 /\ i = Len(out'[n])
        BY <1>2, <1>4, <2>1
      <3>2. kind # "snapshot" /\ (kind = "end" => closed'[n])
        OBVIOUS
      <3>. QED BY <3>1, <3>2
    <2>2. CASE i # Len(out[n]) + 1
      <3>1. i \in DOMAIN out[n] /\ out'[n][i] = out[n][i]
        BY <1>2, <1>3, <1>4, <2>2
      <3>. QED BY <1>4, <3>1 DEF LogOf
    <2>. QED BY <2>1, <2>2
  <1>5. exec[n] = 0 /\ did'[n] \in {"pending", "skipped"} => 0 \notin wrote'[n]
    BY DEF LogOf
  <1>. QED BY <1>4, <1>5 DEF LogOf, Once, coordVars

LEMMA OneLogKept ==
    ASSUME LaneTypes, CoordTypes, OneLog, [Next]_vars
    PROVE  OneLog'
  <1>. SUFFICES ASSUME NEW n \in Nodes, LogOf(n) PROVE LogOf(n)'
    BY DEF OneLog
  <1>1. ASSUME NEW m \in Nodes, LaneStep(m) PROVE LogOf(n)'
    <2>0. exec[n] \in Nat /\ sink' = sink /\ lost' = lost /\ over' = over
      BY <1>1, LaneAssumption DEF LaneTypes, Execs, LaneStep, Start, Skip, Write, Exit, EndLog,
                                  Cancel, Rerun, coordVars
    <2>1. CASE m # n
      <3>1. /\ exec'[n] = exec[n] /\ did'[n] = did[n] /\ wrote'[n] = wrote[n]
            /\ closed'[n] = closed[n] /\ out'[n] = out[n]
        BY <1>1, <2>1 DEF LaneStep, Start, Skip, Write, Exit, EndLog, Cancel, Rerun, Says, Sends, LaneTypes
      <3>. QED BY <2>0, <3>1, SameLogOf
    <2>2. CASE m = n /\ (Start(n) \/ Exit(n))
      BY <2>0, <2>2 DEF Start, Exit, Says, LogOf, Once, LaneTypes, Verdicts
    <2>3. CASE m = n /\ Skip(n)
      <3>1. ~closed[n]
        BY <2>3 DEF Skip, LogOf, Verdicts
      <3>2. closed'[n] /\ did'[n] = "skipped" /\ did[n] = "pending"
        BY <2>3 DEF Skip, Says, LaneTypes
      <3>. QED BY <2>3, <3>1, <3>2, SentLogOf DEF Skip, Verdicts
    <2>4. CASE m = n /\ Write(n)
      BY <2>4, SentLogOf DEF Write, LaneTypes
    <2>5. CASE m = n /\ EndLog(n)
      <3>1. closed'[n] /\ did'[n] = "done"
        BY <2>5 DEF EndLog, LaneTypes
      <3>. QED BY <2>5, <3>1, SentLogOf DEF EndLog, Verdicts
    <2>6. CASE m = n /\ Rerun(n)
      <3>1. exec'[n] # 0 /\ ~closed'[n]
        BY <2>0, <2>6 DEF Rerun, LaneTypes
      <3>. QED BY <3>1 DEF LogOf, Once
    <2>7. CASE m = n /\ Cancel(n)
      <3>1. /\ ~closed[n] /\ closed'[n] /\ did'[n] = "done" /\ exec'[n] = exec[n]
            /\ lost' = lost /\ sink' = sink
        BY <2>0, <2>7 DEF Cancel, Says, LogOf, LaneTypes, InFlight, Verdicts
      <3>2. ASSUME exec[n] = 0, NEW i \in DOMAIN out'[n]
            PROVE  /\ out'[n][i].kind # "snapshot" /\ out'[n][i].exec = 0
                   /\ out'[n][i].kind = "end" => i = Len(out'[n])
        <4>0. Cancelled(n)
          BY <2>7, CancelSends
        <4>1. CASE i \in DOMAIN out[n]
          BY <3>1, <3>2, <4>0, <4>1 DEF Cancelled, LogOf
        <4>2. CASE i \notin DOMAIN out[n]
          BY <3>2, <4>0, <4>2 DEF Cancelled
        <4>. QED BY <4>1, <4>2
      <3>3. Once(n)' /\ sink'[n].ended /\ over' # "yes" => FALSE
        BY <2>0, <3>1 DEF LogOf, Once
      <3>. QED BY <2>0, <3>1, <3>2, <3>3 DEF LogOf, Verdicts
    <2>. QED BY <1>1, <2>1, <2>2, <2>3, <2>4, <2>5, <2>6, <2>7 DEF LaneStep
  <1>2. ASSUME NEW m \in Nodes, OnLogFrame(m) PROVE LogOf(n)'
    <2>1. UNCHANGED <<laneVars, lost, over>>
      BY <1>2 DEF OnLogFrame
    <2>2. CASE m # n
      <3>1. out'[n] = out[n] /\ sink'[n] = sink[n]
        BY <1>2, <2>2 DEF OnLogFrame, OnAppend, OnEnd, OnSnapshot, LaneTypes, CoordTypes
      <3>. QED BY <2>1, <3>1, SameLogOf DEF laneVars
    <2>3. CASE m = n
      <3>1. out[n] \in Seq(LogFrames) /\ out[n] # <<>> /\ out'[n] = Tail(out[n])
        BY <1>2, <2>3 DEF OnLogFrame, LaneTypes
      <3>2. /\ Len(out[n]) \in Nat \ {0} /\ DOMAIN out[n] = 1 .. Len(out[n])
            /\ out'[n] \in Seq(LogFrames) /\ Len(out'[n]) = Len(out[n]) - 1
            /\ DOMAIN out'[n] = 1 .. Len(out[n]) - 1 /\ 1 \in DOMAIN out[n]
            /\ Head(out[n]) = out[n][1]
        <4>1. Len(out[n]) \in Nat \ {0} /\ DOMAIN out[n] = 1 .. Len(out[n])
          BY <3>1, EmptySeq, LenProperties
        <4>2. out'[n] \in Seq(LogFrames) /\ Len(out'[n]) = Len(out[n]) - 1
          BY <3>1, HeadTailProperties
        <4>3. DOMAIN out'[n] = 1 .. Len(out[n]) - 1
          BY <4>2, LenProperties
        <4>. QED BY <3>1, <4>1, <4>2, <4>3
      <3>3. \A i \in DOMAIN out'[n] : out'[n][i] = out[n][i + 1] /\ i + 1 \in DOMAIN out[n]
        BY <3>1, <3>2
      <3>4. ASSUME exec[n] = 0, NEW i \in DOMAIN out'[n]
            PROVE  /\ out'[n][i].kind # "snapshot" /\ out'[n][i].exec = 0
                   /\ out'[n][i].kind = "end" => i = Len(out'[n]) /\ closed[n]
        <4>1. i \in Nat /\ out'[n][i] = out[n][i + 1] /\ i + 1 \in DOMAIN out[n]
          BY <3>2, <3>3, <3>4
        <4>. QED BY <3>2, <3>4, <4>1 DEF LogOf
      <3>5. exec[n] = 0 => /\ Head(out[n]).kind # "snapshot"
                           /\ Head(out[n]).kind = "end" => Len(out[n]) = 1 /\ closed[n]
        BY <3>2 DEF LogOf
      <3>6. exec[n] = 0 => sink'[n].of = 0
        BY <1>2, <2>3, <3>5 DEF LogOf, OnLogFrame, OnAppend, OnEnd, CoordTypes, Logs
      <3>7. ASSUME Once(n), sink'[n].ended, over # "yes" PROVE out'[n] = <<>> /\ closed[n]
        <4>1. ~sink[n].ended
          BY <3>1, <3>7 DEF LogOf
        <4>2. Head(out[n]).kind = "end"
          BY <1>2, <2>3, <3>5, <3>7, <4>1 DEF Once, OnLogFrame, OnAppend, CoordTypes, Logs
        <4>3. Len(out'[n]) = 0 /\ closed[n]
          BY <3>2, <3>5, <3>7, <4>2 DEF Once
        <4>. QED BY <3>2, <4>3, EmptySeq
      <3>. QED BY <2>1, <3>4, <3>6, <3>7 DEF LogOf, Once, laneVars
    <2>. QED BY <2>2, <2>3
  <1>3. ASSUME NEW l \in Lanes, DrainLane(l) PROVE LogOf(n)'
    <2>1. sink'[n] = sink[n] \/ sink'[n] = Noticed(sink[n])
      BY <1>3 DEF DrainLane
    <2>2. sink'[n].of = sink[n].of /\ sink'[n].ended = sink[n].ended
      BY <2>1, NoticedType DEF CoordTypes
    <2>. QED BY <1>3, <2>2, SameLogOf DEF DrainLane, laneVars
  <1>4. ASSUME NEW l \in Lanes, StopLane(l) PROVE LogOf(n)'
    <2>1. \/ sink'[n] = sink[n] 
          \/ /\ LaneOf[n] = l
             /\ \/ sink'[n] = [sink[n] EXCEPT !.ended = TRUE]
                \/ sink'[n] = [Noticed(sink[n]) EXCEPT !.ended = TRUE]
      BY <1>4 DEF StopLane, Of
    <2>2. sink[n] \in Logs /\ Noticed(sink[n]) \in Logs /\ Noticed(sink[n]).of = sink[n].of
      BY NoticedType DEF CoordTypes
    <2>3. sink'[n].of = sink[n].of /\ (sink'[n].ended => sink[n].ended \/ LaneOf[n] = l)
      BY <2>1, <2>2 DEF Logs
    <2>4. UNCHANGED <<laneVars, over>> /\ lost' = lost \cup {l} /\ (out'[n] = out[n] \/ out'[n] = <<>>)
      BY <1>4 DEF StopLane
    <2>. QED BY <2>3, <2>4, SameLogOf DEF laneVars
  <1>5. CASE Complete \/ StopWork
    <2>1. \E s \in {sink[n], Noticed(sink[n])} : sink'[n] = [s EXCEPT !.ended = TRUE]
      BY <1>5 DEF Complete, StopWork, RunEnds
    <2>2. sink[n] \in Logs /\ Noticed(sink[n]) \in Logs /\ Noticed(sink[n]).of = sink[n].of
      BY NoticedType DEF CoordTypes
    <2>3. sink'[n].of = sink[n].of
      BY <2>1, <2>2 DEF Logs
    <2>. QED BY <1>5, <2>3, SameLogOf DEF Complete, StopWork, RunEnds, laneVars
  <1>6. CASE Shutdown \/ UNCHANGED vars \/ (\E l \in Lanes : OnNodes(l))
              \/ \E m \in Nodes : OnNodesAgain(m)
    BY <1>6, SameLogOf DEF Shutdown, OnNodes, OnNodesAgain, vars, laneVars, coordVars
  <1>. QED BY <1>1, <1>2, <1>3, <1>4, <1>5, <1>6 DEF Next

-----------------------------------------------------------------------------
(* Its record.                                                             *)

\* The first record of a history that is extended by an attempt.
LEMMA BeginRecorded ==
    ASSUME NEW h \in Histories, NEW st, NEW s, NEW d, Recorded(h, st, s, d)
    PROVE  /\ Recorded(Begin(h), st, s, d) /\ Begin(h)[1] \in Attempt
           /\ Len(Begin(h)) > 1 => h # <<>> /\ ~h[1].open
           /\ h # <<>> => Begin(h)[1] = h[1]
           /\ h = <<>> => Begin(h)[1] = NewAttempt /\ Len(Begin(h)) = 1
  <1>. DEFINE b == Begin(h)
  <1>1. /\ Len(h) \in Nat /\ DOMAIN h = 1 .. Len(h) /\ b \in Histories /\ b # <<>>
        /\ \A i \in 1 .. Len(h) : h[i] \in Attempt /\ b[i] = h[i]
        /\ \/ b = h /\ h # <<>>
           \/ /\ h = <<>> \/ ~h[Len(h)].open
              /\ Len(b) = Len(h) + 1 /\ b[Len(h) + 1] = NewAttempt
    BY BeginEffect
  <1>2. /\ DOMAIN b = 1 .. Len(b) /\ Len(b) \in Nat \ {0} /\ b[1] \in Attempt
        /\ \A i \in DOMAIN b : b[i].open => i = Len(b)
    <2>1. b \in Seq(Attempt) /\ \A i \in DOMAIN b : b[i].open => i = Len(b)
      BY <1>1 DEF Histories
    <2>2. Len(b) \in Nat \ {0} /\ DOMAIN b = 1 .. Len(b)
      BY <1>1, <2>1, EmptySeq, LenProperties
    <2>. QED BY <2>1, <2>2, ElementOfSeq
  <1>3. h = <<>> => Len(h) = 0
    BY EmptySeq
  <1>4. h # <<>> => Len(h) > 0
    <2>1. h \in Seq(Attempt)
      BY DEF Histories
    <2>. QED BY <1>1, <2>1, EmptySeq
  <1>. HIDE DEF b
  <1>5. /\ h # <<>> => b[1] = h[1]
        /\ h = <<>> => b[1] = NewAttempt /\ Len(b) = 1
    <2>1. ASSUME h # <<>> PROVE b[1] = h[1]
      <3>1. 1 \in 1 .. Len(h)
        BY <1>1, <1>4, <2>1
      <3>. QED BY <1>1, <3>1
    <2>2. ASSUME h = <<>> PROVE b[1] = NewAttempt /\ Len(b) = 1
      <3>1. Len(h) = 0 /\ Len(b) = Len(h) + 1 /\ b[Len(h) + 1] = NewAttempt
        BY <1>1, <1>3, <2>2
      <3>. QED BY <3>1
    <2>. QED BY <2>1, <2>2
  <1>6. ASSUME Len(b) > 1 PROVE h # <<>> /\ ~h[1].open
    <2>1. h # <<>>
      <3>1. ~(1 > 1)
        OBVIOUS
      <3>. QED BY <1>5, <1>6, <3>1
    <2>2. ~b[1].open
      <3>1. 1 \in DOMAIN b /\ 1 # Len(b)
        BY <1>2, <1>6
      <3>. QED BY <1>2, <3>1
    <2>. QED BY <1>5, <2>1, <2>2
  <1>7. \A i \in DOMAIN b : i > 1 => b[i].outcome = "none"
    <2>. SUFFICES ASSUME NEW i \in DOMAIN b, i > 1 PROVE b[i].outcome = "none"
      OBVIOUS
    <2>1. CASE i \in 1 .. Len(h)
      BY <1>1, <2>1 DEF Recorded
    <2>2. CASE i \notin 1 .. Len(h)
      <3>1. i \in 1 .. Len(b) /\ b # h
        BY <1>1, <1>2, <2>2
      <3>2. Len(b) = Len(h) + 1 /\ b[Len(h) + 1] = NewAttempt
        BY <1>1, <3>1
      <3>3. i = Len(h) + 1
        BY <1>1, <2>2, <3>1, <3>2
      <3>4. b[i] = NewAttempt
        BY <3>2, <3>3
      <3>. QED BY SMTT(60), <3>4 DEF NewAttempt
    <2>. QED BY <2>1, <2>2
  <1>8. Recorded(b, st, s, d)
    <2>1. CASE h # <<>>
      BY <1>1, <1>5, <1>7, <2>1 DEF Recorded
    <2>2. CASE h = <<>>
      BY <1>1, <1>5, <1>7, <2>2 DEF Recorded, NewAttempt
    <2>. QED BY <2>1, <2>2
  <1>. QED BY <1>2, <1>5, <1>6, <1>8 DEF b

\* The last record replaced by one with its outcome, or by a first one that is
\* as it should be.
LEMMA LastRecorded ==
    ASSUME NEW h \in Histories, h # <<>>, NEW rec \in Attempt, NEW st, NEW s, NEW d,
           \A i \in DOMAIN h : i > 1 => h[i].outcome = "none",
           Len(h) > 1 => rec.outcome = "none",
           NEW x \in Attempt, x = IF Len(h) = 1 THEN rec ELSE h[1],
           ~x.open => x.outcome # "none" /\ x.said # "unsaid",
           x.outcome # "none" => st \in Verdicts,
           x.said = "whole" => s.ended,
           "notice" \in s.text => x.said # "unsaid",
           d => 0 \in x.by \/ x.said = "short"
    PROVE  Recorded(Last(h, rec), st, s, d)
  <1>. DEFINE g == Last(h, rec)
  <1>1. /\ g \in Histories /\ Len(g) = Len(h) /\ Len(h) \in Nat \ {0} /\ g[Len(h)] = rec
        /\ \A i \in 1 .. Len(h) : i # Len(h) => g[i] = h[i]
    BY LastHistory
  <1>2. DOMAIN g = 1 .. Len(h) /\ DOMAIN h = 1 .. Len(h) /\ g # <<>>
    <2>1. g \in Seq(Attempt) /\ h \in Seq(Attempt)
      BY <1>1 DEF Histories
    <2>. QED BY <1>1, <2>1, LenProperties, EmptySeq
  <1>. HIDE DEF g
  <1>3. g[1] = x
    BY SMTT(60), <1>1
  <1>4. \A i \in DOMAIN g : i > 1 => g[i].outcome = "none"
    BY <1>1, <1>2
  <1>5. Recorded(g, st, s, d)
    BY <1>2, <1>3, <1>4 DEF Recorded
  <1>. QED BY <1>5 DEF g

LEMMA FirstRecord ==
    ASSUME NEW h \in Histories, h # <<>>
    PROVE  /\ Len(h) \in Nat \ {0} /\ DOMAIN h = 1 .. Len(h) /\ h[1] \in Attempt
           /\ h[Len(h)] \in Attempt /\ (Len(h) > 1 => ~h[1].open)
  <1>1. h \in Seq(Attempt) /\ \A i \in DOMAIN h : h[i].open => i = Len(h)
    BY DEF Histories
  <1>2. Len(h) \in Nat \ {0} /\ DOMAIN h = 1 .. Len(h)
    BY <1>1, EmptySeq, LenProperties
  <1>. QED BY <1>1, <1>2, ElementOfSeq

LEMMA StillRecorded ==
    ASSUME NEW h, NEW st, NEW s, NEW d, Recorded(h, st, s, d), NEW st2, NEW s2, NEW d2,
           st \in Verdicts => st2 \in Verdicts, s.ended => s2.ended,
           "notice" \in s2.text => "notice" \in s.text, d2 => d
    PROVE  Recorded(h, st2, s2, d2)
  BY DEF Recorded

LEMMA LineRecorded ==
    ASSUME NEW h \in Histories, NEW st, NEW s, NEW d, Recorded(h, st, s, d), ~s.ended
    PROVE  Recorded(Line(h, 0), st, s, TRUE)
  <1>. DEFINE b == Begin(h)
              rec == [b[Len(b)] EXCEPT !.by = @ \cup {0}]
              x == IF Len(b) = 1 THEN rec ELSE b[1]
  <1>0. 0 \in Execs
    BY LaneAssumption DEF Execs
  <1>1. b \in Histories /\ b # <<>> /\ b[Len(b)] \in Attempt
    BY BeginEffect
  <1>2. /\ Recorded(b, st, s, d) /\ b[1] \in Attempt
        /\ Len(b) > 1 => ~b[1].open
    BY BeginRecorded
  <1>3. rec \in Attempt /\ rec.outcome = b[Len(b)].outcome /\ rec.said = b[Len(b)].said
        /\ rec.open = b[Len(b)].open /\ 0 \in rec.by
    BY <1>0, <1>1 DEF Attempt
  <1>4. Line(h, 0) = Last(b, rec)
    BY DEF Line
  <1>5. Len(b) \in Nat \ {0} /\ DOMAIN b = 1 .. Len(b)
    BY <1>1, FirstRecord
  <1>. HIDE DEF b, rec
  <1>6. x \in Attempt /\ x.open = b[1].open /\ x.outcome = b[1].outcome /\ x.said = b[1].said
    BY <1>2, <1>3
  <1>7. 0 \in x.by \/ x.said = "short"
    <2>1. CASE Len(b) = 1
      BY <1>3, <2>1
    <2>2. CASE Len(b) # 1
      <3>1. x.said # "unsaid" /\ x.said # "whole"
        BY <1>1, <1>2, <1>5, <1>6, <2>2 DEF Recorded
      <3>. QED BY <1>6, <3>1 DEF Attempt
    <2>. QED BY <2>1, <2>2
  <1>8. Len(b) > 1 => rec.outcome = "none"
    BY <1>2, <1>3, <1>5 DEF Recorded
  <1>9. /\ ~x.open => x.outcome # "none" /\ x.said # "unsaid"
        /\ x.outcome # "none" => st \in Verdicts
        /\ x.said = "whole" => s.ended
        /\ "notice" \in s.text => x.said # "unsaid"
        /\ \A i \in DOMAIN b : i > 1 => b[i].outcome = "none"
    BY <1>1, <1>2, <1>6 DEF Recorded
  <1>. HIDE DEF x
  <1>10. x = IF Len(b) = 1 THEN rec ELSE b[1]
    BY DEF x
  <1>11. Recorded(Last(b, rec), st, s, TRUE)
    BY <1>1, <1>3, <1>6, <1>7, <1>8, <1>9, <1>10, LastRecorded
  <1>. QED BY <1>4, <1>11

\* The first word about a log: of the first attempt, if there is no other.
LEMMA FinalizedRecorded ==
    ASSUME NEW h \in Histories, NEW st, NEW s, NEW d, Recorded(h, st, s, d),
           NEW word \in {"whole", "short"}, word = "whole" => s.ended
    PROVE  /\ Recorded(LogFinalized(h, word), st, s, d)
           /\ h # <<>> /\ (Len(h) = 1 \/ h[1].said # "unsaid") =>
                 LogFinalized(h, word) # <<>> /\ LogFinalized(h, word)[1].said # "unsaid"
           /\ h # <<>> => LogFinalized(h, word)[1].outcome = h[1].outcome
           /\ h = <<>> => LogFinalized(h, word) = <<>>
  <1>1. CASE h = <<>> \/ h[Len(h)].said # "unsaid"
    BY <1>1 DEF LogFinalized
  <1>2. CASE h # <<>> /\ h[Len(h)].said = "unsaid"
    <2>. DEFINE y == [h[Len(h)] EXCEPT !.said = word]
                rec == Sealed(y)
                x == IF Len(h) = 1 THEN rec ELSE h[1]
                g == Last(h, rec)
    <2>1. Len(h) \in Nat \ {0} /\ DOMAIN h = 1 .. Len(h) /\ h[1] \in Attempt /\ h[Len(h)] \in Attempt
      BY <1>2, FirstRecord
    <2>2. /\ y \in Attempt /\ y.said = word /\ y.outcome = h[Len(h)].outcome
          /\ y.by = h[Len(h)].by /\ y.open = h[Len(h)].open
      BY <2>1 DEF Attempt
    <2>3. /\ rec \in Attempt /\ rec.said = word /\ rec.outcome = h[Len(h)].outcome
          /\ rec.by = h[Len(h)].by
          /\ rec.open = (h[Len(h)].open /\ h[Len(h)].outcome = "none")
      BY <2>2, SealedType
    <2>4. LogFinalized(h, word) = g
      BY <1>2 DEF LogFinalized
    <2>5. /\ g \in Histories /\ Len(g) = Len(h) /\ g[Len(h)] = rec
          /\ \A i \in 1 .. Len(h) : i # Len(h) => g[i] = h[i]
      <3>. HIDE DEF rec
      <3>. QED BY <1>2, <2>3, LastHistory
    <2>. HIDE DEF rec, g, y
    <2>6. x \in Attempt /\ g[1] = x /\ x.outcome = h[1].outcome /\ x.by = h[1].by
      <3>1. CASE Len(h) = 1
        BY <2>1, <2>3, <2>5, <3>1
      <3>2. CASE Len(h) # 1
        <4>1. 1 \in 1 .. Len(h) /\ 1 # Len(h)
          BY <2>1, <3>2
        <4>. QED BY <2>1, <2>5, <3>2, <4>1
      <3>. QED BY <3>1, <3>2
    <2>7. /\ ~x.open => x.outcome # "none" /\ x.said # "unsaid"
          /\ x.outcome # "none" => st \in Verdicts
          /\ x.said = "whole" => s.ended
          /\ "notice" \in s.text => x.said # "unsaid"
          /\ d => 0 \in x.by \/ x.said = "short"
          /\ \A i \in DOMAIN h : i > 1 => h[i].outcome = "none"
      <3>1. CASE Len(h) = 1
        <4>1. h[1].open \/ h[1].outcome # "none"
          BY <1>2 DEF Recorded
        <4>. QED BY <1>2, <2>3, <3>1, <4>1 DEF Recorded
      <3>2. CASE Len(h) # 1
        BY <1>2, <3>2 DEF Recorded
      <3>. QED BY <3>1, <3>2
    <2>8. Len(h) > 1 => rec.outcome = "none"
      BY <2>1, <2>3 DEF Recorded
    <2>9. Recorded(g, st, s, d)
      <3>1. x = IF Len(h) = 1 THEN rec ELSE h[1]
        OBVIOUS
      <3>. HIDE DEF x
      <3>2. Recorded(Last(h, rec), st, s, d)
        BY SMTT(60), <1>2, <2>3, <2>6, <2>7, <2>8, <3>1, LastRecorded
      <3>. QED BY <3>2 DEF g
    <2>10. g # <<>>
      BY <2>1, <2>5, EmptySeq
    <2>11. Len(h) = 1 \/ h[1].said # "unsaid" => x.said # "unsaid"
      BY <2>3
    <2>. QED BY <1>2, <2>4, <2>6, <2>9, <2>10, <2>11
  <1>. QED BY <1>1, <1>2

\* A log that is stamped says so, and so does its record.
LEMMA StampedRecorded ==
    ASSUME NEW h \in Histories, NEW st, NEW s \in Logs, NEW d, Recorded(h, st, s, d)
    PROVE  /\ Recorded(Stamped(h, s), st, Noticed(s), d)
           /\ h # <<>> => Stamped(h, s)[1].outcome = h[1].outcome
           /\ h = <<>> /\ Stamped(h, s) # <<>> => Stamped(h, s)[1].outcome = "none"
  <1>1. CASE s.ended
    BY <1>1, FinalizedRecorded, NoticedType DEF Stamped
  <1>2. CASE ~s.ended
    <2>. DEFINE b == Begin(h)
                g == LogFinalized(b, "short")
    <2>1. b \in Histories /\ b # <<>>
      BY BeginEffect
    <2>2. /\ Recorded(b, st, s, d) /\ (Len(b) > 1 => h # <<>> /\ ~h[1].open)
          /\ h # <<>> => b[1] = h[1]
          /\ h = <<>> => b[1] = NewAttempt
      BY BeginRecorded
    <2>3. Stamped(h, s) = g
      BY <1>2 DEF Stamped
    <2>4. Len(b) = 1 \/ b[1].said # "unsaid"
      <3>1. Len(b) \in Nat \ {0}
        BY <2>1, FirstRecord
      <3>2. Len(b) > 1 => b[1].said # "unsaid"
        BY <2>2 DEF Recorded
      <3>. HIDE DEF b
      <3>3. Len(b) = 1 \/ Len(b) > 1
        BY <3>1
      <3>. QED BY <3>2, <3>3
    <2>. HIDE DEF b
    <2>5. /\ Recorded(g, st, s, d) /\ g # <<>> /\ g[1].said # "unsaid"
          /\ g[1].outcome = b[1].outcome
      BY <2>1, <2>2, <2>4, FinalizedRecorded
    <2>. HIDE DEF g
    <2>6. Noticed(s).ended = s.ended
      BY NoticedType
    <2>7. Recorded(g, st, Noticed(s), d)
      BY <2>5, <2>6 DEF Recorded
    <2>. QED BY <2>2, <2>3, <2>5, <2>7 DEF NewAttempt
  <1>. QED BY <1>1, <1>2

\* A verdict, of a node that has had none.
LEMMA ToldRecorded ==
    ASSUME NEW h \in Histories, NEW st, NEW s, NEW d, Recorded(h, st, s, d),
           h # <<>> => h[1].outcome = "none", NEW v \in Verdicts
    PROVE  Recorded(NodeStatus(h, v), v, s, d)
  <1>. DEFINE b == Begin(h)
              y == [b[Len(b)] EXCEPT !.outcome = v]
              rec == Sealed(y)
  <1>1. b \in Histories /\ b # <<>> /\ b[Len(b)] \in Attempt /\ b[Len(b)].open
    BY BeginEffect
  <1>2. /\ Recorded(b, st, s, d) /\ (Len(b) > 1 => h # <<>> /\ ~h[1].open)
        /\ b[1].outcome = "none"
    BY BeginRecorded DEF NewAttempt
  <1>3. Len(b) = 1
    <2>1. Len(b) \in Nat \ {0}
      BY <1>1, FirstRecord
    <2>2. ~(Len(b) > 1)
      BY <1>2 DEF Recorded
    <2>. HIDE DEF b
    <2>. QED BY <2>1, <2>2
  <1>4. y \in Attempt /\ y.outcome = v /\ y.said = b[1].said /\ y.by = b[1].by /\ y.open
    BY <1>1, <1>3 DEF Attempt, Terminal
  <1>5. v # "none" /\ v # "pending" /\ v # "running"
    BY DEF Verdicts
  <1>6. /\ rec \in Attempt /\ rec.outcome = v /\ rec.said = b[1].said /\ rec.by = b[1].by
        /\ rec.open = (b[1].said = "unsaid")
    BY <1>4, <1>5, SealedType
  <1>7. NodeStatus(h, v) = Last(b, rec)
    BY <1>5 DEF NodeStatus
  <1>. HIDE DEF b, rec, y
  <1>8. Recorded(Last(b, rec), v, s, d)
    <2>1. rec = IF Len(b) = 1 THEN rec ELSE b[1]
      BY <1>3
    <2>2. /\ ~rec.open => rec.outcome # "none" /\ rec.said # "unsaid"
          /\ rec.outcome # "none" => v \in Verdicts
          /\ rec.said = "whole" => s.ended
          /\ "notice" \in s.text => rec.said # "unsaid"
          /\ d => 0 \in rec.by \/ rec.said = "short"
          /\ \A i \in DOMAIN b : i > 1 => b[i].outcome = "none"
      BY <1>1, <1>2, <1>5, <1>6 DEF Recorded
    <2>3. ~(Len(b) > 1)
      BY <1>3
    <2>4. \A x \in Attempt :
             /\ x = IF Len(b) = 1 THEN rec ELSE b[1]
             /\ ~x.open => x.outcome # "none" /\ x.said # "unsaid"
             /\ x.outcome # "none" => v \in Verdicts
             /\ x.said = "whole" => s.ended
             /\ "notice" \in s.text => x.said # "unsaid"
             /\ d => 0 \in x.by \/ x.said = "short"
             => Recorded(Last(b, rec), v, s, d)
      BY <1>1, <1>6, <2>2, <2>3, LastRecorded
    <2>. QED BY <1>6, <2>1, <2>2, <2>4
  <1>. QED BY <1>7, <1>8

\* A verdict that was held, heard by the history.
LEMMA ReleasedRecorded ==
    ASSUME CoordTypes, Withheld, over # "yes", NEW n \in Nodes, NEW h \in Histories, NEW s, NEW d,
           Recorded(h, pub[n].st, s, d)
    PROVE  Recorded(ReleasedAtt(h, n), IF held[n] # NoVerdict THEN held[n].st ELSE pub[n].st, s, d)
  <1>1. CASE held[n] = NoVerdict
    BY <1>1 DEF ReleasedAtt
  <1>2. CASE held[n] # NoVerdict
    <2>1. held[n].st \in Verdicts /\ pub[n].st \notin Verdicts
      BY <1>2, VerdictTypes DEF Withheld, IsTerminal, CoordTypes
    <2>2. h # <<>> => h[1].outcome = "none"
      BY <2>1 DEF Recorded
    <2>3. ReleasedAtt(h, n) = NodeStatus(h, held[n].st)
      BY <1>2, <2>1 DEF ReleasedAtt, Told
    <2>. QED BY <1>2, <2>1, <2>2, <2>3, ToldRecorded
  <1>. QED BY <1>1, <1>2

\* What a lane says of a first execution, or has said of it.
LEMMA OfferRecorded ==
    ASSUME CoordTypes, Withheld, over # "yes", NEW n \in Nodes, NEW v, Offered(n, v), Offer(n, v),
           v.exec = 0, v = Heard(n) \/ Follows(Heard(n), v),
           NEW s, NEW d, Recorded(att[n], pub[n].st, s, d)
    PROVE  Recorded(att'[n], pub'[n].st, s, d)
  <1>1. CASE pub'[n].st = pub[n].st /\ att'[n] = att[n]
    BY <1>1
  <1>2. CASE pub'[n] = v /\ att'[n] = Told(att[n], n, v) /\ v.st # pub[n].st
    <2>1. att[n] \in Histories /\ att'[n] = NodeStatus(att[n], v.st)
      BY <1>2 DEF Told, CoordTypes
    <2>2. ~IsTerminal(pub[n])
      <3>. SUFFICES ASSUME IsTerminal(pub[n]) PROVE FALSE
        OBVIOUS
      <3>1. Heard(n) = pub[n] /\ pub[n].exec \in Nat
        BY LaneAssumption DEF Heard, Withheld, CoordTypes, Published, Execs
      <3>2. ~Follows(pub[n], v)
        BY <3>1, VerdictTypes DEF Follows, IsTerminal
      <3>. QED BY <1>2, <3>1, <3>2
    <2>3. v.st \in {"pending", "running"} \cup Verdicts /\ pub[n].st \notin Verdicts
      BY <2>2 DEF Offered, Statuses, InFlight, IsTerminal, Terminal
    <2>4. att[n] # <<>> => att[n][1].outcome = "none"
      BY <2>3 DEF Recorded
    <2>5. CASE v.st \in Verdicts
      BY <1>2, <2>1, <2>4, <2>5, ToldRecorded
    <2>6. CASE v.st = "pending"
      BY <1>2, <2>1, <2>4, <2>6 DEF NodeStatus, Recorded
    <2>7. CASE v.st = "running"
      <3>1. att'[n] = Begin(att[n])
        BY <2>1, <2>7 DEF NodeStatus
      <3>2. Recorded(att'[n], pub[n].st, s, d) /\ att'[n][1].outcome = "none"
        BY <2>1, <2>4, <3>1, BeginRecorded DEF NewAttempt
      <3>. QED BY <3>2 DEF Recorded
    <2>. QED BY <2>3, <2>5, <2>6, <2>7
  <1>3. CASE pub'[n] = v /\ att'[n] = Told(att[n], n, v) /\ v.st = pub[n].st
    BY <1>1, <1>3 DEF Told
  <1>. QED BY <1>1, <1>2, <1>3, OfferTypes

\* A step that sends nothing more of the line leaves no more delivered.
LEMMA LaneDelivers ==
    ASSUME LaneTypes, NEW n \in Nodes, NEW m \in Nodes, LaneStep(m), exec'[n] = 0, Delivered(n)'
    PROVE  Delivered(n) /\ exec[n] = 0
  <1>0. /\ exec[n] \in Nat /\ out[n] \in Seq(LogFrames) /\ Len(out[n]) \in Nat
        /\ DOMAIN out[n] = 1 .. Len(out[n])
    BY LaneAssumption, LenProperties DEF LaneTypes, Execs
  <1>1. CASE wrote'[n] = wrote[n] /\ exec'[n] = exec[n] /\ out'[n] = out[n]
    BY <1>1 DEF Delivered
  <1>2. ASSUME NEW kind \in {"append", "end"}, Sends(n, kind, exec[n]), exec'[n] = exec[n],
               kind = "end" => wrote'[n] = wrote[n]
        PROVE  Delivered(n) /\ exec[n] = 0
    <2>. DEFINE x == [kind |-> kind, exec |-> exec[n]]
    <2>1. x \in LogFrames /\ out'[n] = Append(out[n], x)
      BY <1>2 DEF LaneTypes, LogFrames, Sends
    <2>2. /\ out'[n] \in Seq(LogFrames) /\ Len(out'[n]) = Len(out[n]) + 1
          /\ out'[n][Len(out[n]) + 1] = x
          /\ \A i \in 1 .. Len(out[n]) : out'[n][i] = out[n][i]
      BY <1>0, <2>1, AppendProperties
    <2>3. DOMAIN out'[n] = 1 .. Len(out[n]) + 1
      BY <2>2, LenProperties
    <2>4. kind # "append"
      BY <1>0, <2>2, <2>3 DEF Delivered
    <2>5. \A i \in DOMAIN out[n] : i \in DOMAIN out'[n]
      BY <1>0, <2>3
    <2>. QED BY <1>0, <1>2, <2>2, <2>4, <2>5 DEF Delivered
  <1>3. CASE m # n
    BY <1>1, <1>3 DEF LaneStep, Start, Skip, Write, Exit, EndLog, Cancel, Rerun, Says, Sends, LaneTypes
  <1>4. CASE m = n /\ ~Rerun(n) /\ ~Cancel(n)
    BY <1>1, <1>2, <1>4 DEF LaneStep, Start, Skip, Write, Exit, EndLog
  <1>5. CASE m = n /\ Rerun(n)
    BY <1>0, <1>5 DEF Rerun, LaneTypes
  <1>6. CASE m = n /\ Cancel(n)
    <2>1. Len(out[n]) + 1 \in DOMAIN out'[n] /\ out'[n][Len(out[n]) + 1].kind = "append"
      BY <1>6, CancelSends DEF Cancelled
    <2>. QED BY <2>1 DEF Delivered
  <1>. QED BY <1>3, <1>4, <1>5, <1>6

LEMMA OneRecordKept ==
    ASSUME Gate, InOrder, OneLog, OneRecord, [Next]_vars
    PROVE  OneRecord'
  <1>0. LaneTypes /\ CoordTypes /\ Withheld
    BY DEF Gate
  <1>. SUFFICES ASSUME NEW n \in Nodes, Once(n)', over' # "yes"
                PROVE  Recorded(att'[n], pub'[n].st, sink'[n], Delivered(n)')
    BY DEF OneRecord, RecordOf
  <1>. DEFINE Goal == Recorded(att'[n], pub'[n].st, sink'[n], Delivered(n)')
  <1>1. exec[n] \in Nat /\ over # "yes" /\ lost \subseteq lost' /\ exec[n] = 0
    <2>1. over # "yes" /\ lost \subseteq lost'
      BY DEF Next, Complete, RunEnds, DrainLane, OnNodes, OnNodesAgain, OnLogFrame, StopLane,
             Shutdown, StopWork, LaneStep, Start, Skip, Write, Exit, EndLog, Cancel, Rerun, vars, coordVars
    <2>2. exec'[n] = exec[n] \/ exec'[n] = exec[n] + 1
      BY ZenonT(90), <1>0 DEF LaneTypes, Next, Complete, RunEnds, DrainLane, OnNodes,
         OnNodesAgain, OnLogFrame,
             StopLane, Shutdown, StopWork, LaneStep, Start, Skip, Write, Exit, EndLog, Cancel, Rerun, vars,
             laneVars
    <2>3. exec[n] \in Nat
      BY <1>0, LaneAssumption DEF LaneTypes, Execs
    <2>. QED BY <2>1, <2>2, <2>3 DEF Once
  <1>2. /\ Once(n) /\ Recorded(att[n], pub[n].st, sink[n], Delivered(n)) /\ LogOf(n)
        /\ att[n] \in Histories /\ sink[n] \in Logs
    BY <1>0, <1>1 DEF Once, OneRecord, RecordOf, OneLog, CoordTypes
  <1>3. ASSUME att'[n] = att[n], pub'[n] = pub[n], sink'[n] = sink[n], Delivered(n)' => Delivered(n)
        PROVE  Goal
    BY <1>2, <1>3, StillRecorded
  <1>4. ASSUME wrote'[n] = wrote[n], out'[n] = out[n] PROVE Delivered(n)' = Delivered(n)
    BY <1>4 DEF Delivered
  <1>5. ASSUME NEW m \in Nodes, LaneStep(m) PROVE Goal
    <2>1. Delivered(n)' => Delivered(n)
      BY <1>0, <1>5, LaneDelivers DEF Once
    <2>2. UNCHANGED coordVars
      BY <1>5 DEF LaneStep, Start, Skip, Write, Exit, EndLog, Cancel, Rerun
    <2>. QED BY <1>3, <2>1, <2>2 DEF coordVars
  <1>6. ASSUME NEW v, Offered(n, v), Offer(n, v), v.exec = 0, v = Heard(n) \/ Follows(Heard(n), v),
               UNCHANGED <<laneVars, out, sink>>
        PROVE  Goal
    <2>1. Delivered(n)' = Delivered(n) /\ sink'[n] = sink[n]
      BY <1>4, <1>6 DEF laneVars
    <2>2. Recorded(att'[n], pub'[n].st, sink[n], Delivered(n))
      BY <1>0, <1>1, <1>2, <1>6, OfferRecorded
    <2>. QED BY <2>1, <2>2
  <1>7. ASSUME NEW l \in Lanes, OnNodes(l) PROVE Goal
    <2>. PICK f, v : f = Head(wire[l]) /\ v = [st |-> f.st, exec |-> f.exec]
      OBVIOUS
    <2>1. f \in Frames /\ Offered(f.node, v) /\ Offer(f.node, v) /\ UNCHANGED <<laneVars, out, sink>>
      BY <1>0, <1>7, FramesOffered DEF OnNodes
    <2>2. CASE f.node = n
      <3>1. 1 \in DOMAIN wire[l] /\ f = wire[l][1]
        <4>1. wire[l] \in Seq(Frames) /\ wire[l] # <<>>
          BY <1>0, <1>7 DEF OnNodes, LaneTypes
        <4>. QED BY <4>1, EmptySeq, LenProperties
      <3>2. Follows(Heard(n), v) /\ UpTo(f, Now(n))
        BY <2>2, <3>1 DEF InOrder, FramesInOrder, Follows
      <3>3. v.exec = 0
        <4>1. f.exec \in Nat /\ Now(n).exec = 0
          BY <1>1, <2>1, LaneAssumption DEF Frames, Execs, Now
        <4>. QED BY <3>2, <4>1 DEF UpTo, Follows
      <3>. QED BY <1>6, <2>1, <2>2, <3>2, <3>3
    <2>3. CASE f.node # n
      <3>1. pub'[n] = pub[n] /\ att'[n] = att[n]
        BY <1>0, <2>1, <2>3, OfferTypes DEF Frames
      <3>. QED BY <1>3, <1>4, <2>1, <3>1 DEF laneVars
    <2>. QED BY <2>2, <2>3
  <1>8. ASSUME NEW m \in Nodes, OnNodesAgain(m) PROVE Goal
    <2>1. Offered(m, Heard(m)) /\ Offer(m, Heard(m)) /\ UNCHANGED <<laneVars, out, sink>>
      BY <1>0, <1>8, FramesOffered DEF OnNodesAgain, Heard
    <2>2. CASE m = n
      <3>1. Heard(n).exec \in Nat /\ UpTo(Heard(n), Now(n)) /\ Now(n).exec = 0
        BY <1>0, <1>1, <1>2, VerdictTypes, LaneAssumption
           DEF Heard, CoordTypes, Published, Execs, InOrder, HeardInOrder, Once, Now
      <3>2. Heard(n).exec = 0
        BY <3>1 DEF UpTo, Follows
      <3>. QED BY <1>6, <2>1, <2>2, <3>2
    <2>3. CASE m # n
      <3>1. pub'[n] = pub[n] /\ att'[n] = att[n]
        BY <1>0, <2>1, <2>3, OfferTypes
      <3>. QED BY <1>3, <1>4, <2>1, <3>1 DEF laneVars
    <2>. QED BY <2>2, <2>3
  <1>9. ASSUME NEW m \in Nodes, OnLogFrame(m) PROVE Goal
    <2>1. wrote' = wrote
      BY <1>9 DEF OnLogFrame, laneVars
    <2>2. CASE m # n
      <3>1. out'[n] = out[n] /\ sink'[n] = sink[n] /\ att'[n] = att[n] /\ pub'[n] = pub[n]
        BY <1>0, <1>9, <2>2 DEF OnLogFrame, OnAppend, OnEnd, OnSnapshot, Publish, LaneTypes,
           CoordTypes
      <3>. QED BY <1>3, <1>4, <2>1, <3>1
    <2>3. CASE m = n
      <3>1. out[n] \in Seq(LogFrames) /\ out[n] # <<>>
        BY <1>0, <1>9, <2>3 DEF OnLogFrame, LaneTypes
      <3>2. 1 \in DOMAIN out[n] /\ Head(out[n]) = out[n][1] /\ DOMAIN out[n] = 1 .. Len(out[n])
        BY <3>1, EmptySeq, LenProperties
      <3>3. /\ Head(out[n]).kind # "snapshot" /\ Head(out[n]).exec = 0 /\ ~sink[n].ended
            /\ Head(out[n]).kind = "end" => Len(out[n]) = 1
        BY <1>1, <1>2, <3>1, <3>2 DEF LogOf
      <3>4. CASE OnAppend(n, 0)
        <4>1. /\ att'[n] = Line(att[n], 0) /\ pub' = pub /\ sink'[n].ended = sink[n].ended
              /\ "notice" \in sink'[n].text => "notice" \in sink[n].text
          BY <1>0, <3>3, <3>4 DEF OnAppend, CoordTypes, Logs
        <4>2. Recorded(Line(att[n], 0), pub[n].st, sink[n], TRUE)
          BY <1>2, <3>3, LineRecorded
        <4>3. Recorded(Line(att[n], 0), pub'[n].st, sink'[n], Delivered(n)')
          BY <4>1, <4>2 DEF Recorded
        <4>. QED BY <4>1, <4>3
      <3>5. CASE OnEnd(n) /\ Head(out[n]).kind = "end"
        <4>. DEFINE h == LogFinalized(att[n], "whole")
        <4>1. Delivered(n)' => Delivered(n)
          <5>1. \A i \in DOMAIN out[n] : out[n][i].kind = "end"
            BY <3>2, <3>3, <3>5
          <5>. QED BY <2>1, <5>1 DEF Delivered
        <4>2. /\ sink'[n].ended /\ sink'[n].text = sink[n].text /\ att'[n] = ReleasedAtt(h, n)
              /\ pub'[n].st = IF held[n] # NoVerdict THEN held[n].st ELSE pub[n].st
          BY <1>0, <3>5 DEF OnEnd, CoordTypes, Logs, Publish
        <4>3. Recorded(att[n], pub[n].st, sink'[n], Delivered(n)')
          BY <1>2, <4>1, <4>2, StillRecorded
        <4>4. h \in Histories /\ Recorded(h, pub[n].st, sink'[n], Delivered(n)')
          BY <1>2, <4>2, <4>3, FinalizedRecorded, LogFinalizedKeeps
        <4>. HIDE DEF h
        <4>. QED BY <1>0, <1>1, <4>2, <4>4, ReleasedRecorded
      <3>. QED BY <1>9, <2>3, <3>3, <3>4, <3>5 DEF OnLogFrame
    <2>. QED BY <2>2, <2>3
  <1>10. ASSUME NEW l \in Lanes, DrainLane(l) PROVE Goal
    <2>. DEFINE g == IF n \in ToStamp(l) THEN Stamped(att[n], sink[n]) ELSE att[n]
    <2>1. Delivered(n)' = Delivered(n)
      BY <1>4, <1>10 DEF DrainLane, laneVars
    <2>2. sink'[n] = IF n \in ToStamp(l) THEN Noticed(sink[n]) ELSE sink[n]
      BY <1>10 DEF DrainLane
    <2>3. g \in Histories /\ Recorded(g, pub[n].st, sink'[n], Delivered(n))
      BY <1>2, <2>2, StampedRecorded, StampedKeeps
    <2>4. \/ att'[n] = g /\ pub'[n] = pub[n]
          \/ /\ att'[n] = ReleasedAtt(g, n)
             /\ pub'[n].st = IF held[n] # NoVerdict THEN held[n].st ELSE pub[n].st
      <3>1. CASE drain = {l}
        <4>1. att'[n] = ReleasedAtt(g, n) /\ pub' = ReleasedPub(Nodes)
          BY <1>10, <3>1 DEF DrainLane
        <4>. QED BY <4>1 DEF ReleasedPub
      <3>2. CASE drain # {l}
        BY <1>10, <3>2 DEF DrainLane
      <3>. QED BY <3>1, <3>2
    <2>. HIDE DEF g
    <2>. QED BY <1>0, <1>1, <2>1, <2>3, <2>4, ReleasedRecorded
  <1>11. ASSUME NEW l \in Lanes, StopLane(l) PROVE Goal
    <2>1. n \notin Of(l)
      BY <1>11 DEF StopLane, Of, Once
    <2>2. pub'[n] = pub[n] /\ att'[n] = att[n] /\ sink'[n] = sink[n] /\ out'[n] = out[n]
      <3>1. n \notin LetGo(l)
        BY <2>1 DEF LetGo
      <3>. QED BY <1>11, <2>1, <3>1 DEF StopLane, ReleasedPub
    <2>3. wrote' = wrote
      BY <1>11 DEF StopLane, laneVars
    <2>. QED BY <1>3, <1>4, <2>2, <2>3
  <1>12. CASE Shutdown
    <2>1. /\ att'[n] = ReleasedAtt(att[n], n) /\ sink'[n] = sink[n]
          /\ pub'[n].st = IF held[n] # NoVerdict THEN held[n].st ELSE pub[n].st
      BY <1>12 DEF Shutdown, ReleasedPub
    <2>2. Delivered(n)' = Delivered(n)
      BY <1>4, <1>12 DEF Shutdown, laneVars
    <2>. QED BY <1>0, <1>1, <1>2, <2>1, <2>2, ReleasedRecorded
  <1>13. CASE Complete \/ StopWork
    BY <1>13 DEF Complete, StopWork, RunEnds
  <1>14. CASE UNCHANGED vars
    BY <1>3, <1>4, <1>14 DEF vars, laneVars, coordVars
  <1>. QED BY <1>5, <1>7, <1>8, <1>9, <1>10, <1>11, <1>12, <1>13, <1>14 DEF Next

\* The end of a run calls an attempt whole that took the line, if it was written.
LEMMA EndsWhole ==
    ASSUME NEW h \in Histories, NEW st, NEW s, NEW d, Recorded(h, st, s, d),
           h # <<>> /\ h[1].outcome # "none" /\ h[1].said \in {"unsaid", "whole"} => d,
           NEW g, g = Finalized(LogFinalized(h, "whole")),
           NEW i \in DOMAIN g, g[i].outcome # "none", g[i].said = "whole"
    PROVE  0 \in g[i].by
  <1>. DEFINE k == LogFinalized(h, "whole")
              Alike(x, y) == /\ y.outcome = x.outcome /\ y.by = x.by
                             /\ x.said = "short" => y.said = "short"
  <1>1. /\ k \in Histories /\ (h = <<>> => k = <<>>)
        /\ h # <<>> => k # <<>> /\ Len(k) = Len(h)
                       /\ \A j \in 1 .. Len(h) : Alike(h[j], k[j])
    <2>1. CASE h = <<>> \/ h[Len(h)].said # "unsaid"
      BY <2>1 DEF LogFinalized
    <2>2. CASE h # <<>> /\ h[Len(h)].said = "unsaid"
      <3>. DEFINE y == [h[Len(h)] EXCEPT !.said = "whole"]
                  rec == Sealed(y)
      <3>1. Len(h) \in Nat \ {0} /\ h[Len(h)] \in Attempt
        BY <2>2, FirstRecord
      <3>2. y \in Attempt /\ y.outcome = h[Len(h)].outcome /\ y.by = h[Len(h)].by
        BY <3>1 DEF Attempt
      <3>3. rec \in Attempt /\ rec.outcome = h[Len(h)].outcome /\ rec.by = h[Len(h)].by
        BY <3>2, SealedType
      <3>4. k = Last(h, rec)
        BY <2>2 DEF LogFinalized
      <3>. HIDE DEF rec, k
      <3>5. /\ k \in Histories /\ Len(k) = Len(h) /\ k[Len(h)] = rec
            /\ \A j \in 1 .. Len(h) : j # Len(h) => k[j] = h[j]
        BY <2>2, <3>3, <3>4, LastHistory
      <3>6. \A j \in 1 .. Len(h) : Alike(h[j], k[j])
        BY <2>2, <3>3, <3>5
      <3>7. k # <<>>
        BY <3>1, <3>5, EmptySeq
      <3>. QED BY <2>2, <3>5, <3>6, <3>7
    <2>. QED BY <2>1, <2>2
  <1>2. DOMAIN <<>> = {}
    BY EmptySeq, LenProperties
  <1>. HIDE DEF k
  <1>3. k # <<>> /\ h # <<>>
    BY <1>1, <1>2 DEF k, Finalized
  <1>. DEFINE r == [k[Len(k)] EXCEPT !.open = FALSE]
  <1>4. /\ g = Last(k, r) /\ r \in Attempt /\ Alike(k[Len(k)], r)
        /\ Len(k) \in Nat \ {0} /\ DOMAIN h = 1 .. Len(h)
    <2>1. k[Len(k)] \in Attempt /\ Len(k) \in Nat \ {0} /\ DOMAIN h = 1 .. Len(h)
      BY <1>1, <1>3, FirstRecord
    <2>2. g = Last(k, r)
      BY <1>3 DEF Finalized, k
    <2>. QED BY <2>1, <2>2 DEF Attempt
  <1>. HIDE DEF r
  <1>5. /\ g \in Histories /\ Len(g) = Len(k) /\ g[Len(k)] = r
        /\ \A j \in 1 .. Len(k) : j # Len(k) => g[j] = k[j]
    BY <1>1, <1>3, <1>4, LastHistory
  <1>6. i \in 1 .. Len(k)
    <2>1. g \in Seq(Attempt)
      BY <1>5 DEF Histories
    <2>. QED BY <1>5, <2>1, LenProperties
  <1>7. Alike(k[i], g[i])
    BY <1>4, <1>5, <1>6
  <1>8. Alike(h[i], k[i]) /\ i \in DOMAIN h
    BY <1>1, <1>3, <1>4, <1>6
  <1>9. h[i].outcome # "none" /\ h[i].said # "short" /\ g[i].by = h[i].by
    BY <1>7, <1>8
  <1>10. i = 1
    BY <1>4, <1>6, <1>8, <1>9 DEF Recorded
  <1>11. h[1] \in Attempt
    BY <1>3, FirstRecord
  <1>12. d
    BY <1>3, <1>9, <1>10, <1>11 DEF Attempt
  <1>. QED BY <1>9, <1>10, <1>12 DEF Recorded

\* Before the end of a run, what is called whole took the line.
LEMMA WholeBefore ==
    ASSUME CoordTypes, OneLog, OneRecord, EndedWhole
    PROVE  WholeUnlessLost
  <1>. SUFFICES ASSUME over # "yes", NEW n \in Nodes, NEW i \in DOMAIN att[n], exec[n] = 0,
                       LaneOf[n] \notin lost, att[n][i].outcome # "none",
                       att[n][i].said = "whole", 0 \in wrote[n]
                PROVE  0 \in att[n][i].by
    BY DEF EndedWhole, WholeUnlessLost, Missing
  <1>1. Once(n) /\ Recorded(att[n], pub[n].st, sink[n], Delivered(n)) /\ LogOf(n)
    BY DEF Once, OneRecord, RecordOf, OneLog
  <1>2. att[n] \in Histories /\ att[n] # <<>>
    <2>1. DOMAIN <<>> = {}
      BY EmptySeq, LenProperties
    <2>. QED BY <2>1 DEF CoordTypes
  <1>3. i = 1
    <2>1. i \in 1 .. Len(att[n]) /\ Len(att[n]) \in Nat \ {0}
      BY <1>2, FirstRecord
    <2>. QED BY <1>1, <2>1 DEF Recorded
  <1>4. out[n] = <<>>
    BY <1>1, <1>2, <1>3 DEF Recorded, LogOf
  <1>5. Delivered(n)
    <2>1. DOMAIN <<>> = {}
      BY EmptySeq, LenProperties
    <2>. QED BY <1>4, <2>1 DEF Delivered
  <1>. QED BY <1>1, <1>3, <1>5 DEF Recorded

LEMMA EndedWholeKept ==
    ASSUME IInv, [Next]_vars
    PROVE  EndedWhole'
  <1>0. LaneTypes /\ CoordTypes /\ Withheld
    BY DEF IInv, Gate
  <1>. SUFFICES ASSUME over' = "yes" PROVE WholeUnlessLost'
    BY DEF EndedWhole
  <1>1. CASE UNCHANGED vars
    <2>1. WholeUnlessLost
      BY <1>0, WholeBefore DEF IInv
    <2>. QED BY <1>1, <2>1 DEF WholeUnlessLost, Missing, vars, laneVars, coordVars
  <1>2. CASE over # "yes" /\ (Complete \/ StopWork)
    <2>. SUFFICES ASSUME NEW n \in Nodes, NEW i \in DOMAIN att'[n], exec[n] = 0,
                         LaneOf[n] \notin lost, att'[n][i].outcome # "none",
                         att'[n][i].said = "whole", 0 \in wrote[n]
                  PROVE  0 \in att'[n][i].by
      <3>1. exec' = exec /\ lost' = lost /\ wrote' = wrote
        BY <1>2 DEF Complete, StopWork, RunEnds, laneVars
      <3>. QED BY <3>1 DEF WholeUnlessLost, Missing
    <2>1. Once(n) /\ Recorded(att[n], pub[n].st, sink[n], Delivered(n)) /\ LogOf(n)
      BY <1>2 DEF IInv, Once, OneRecord, RecordOf, OneLog
    <2>2. /\ att[n] \in Histories /\ sink[n] \in Logs /\ exec[n] \in Nat
          /\ pub[n].exec \in Nat /\ pub[n] = [st |-> pub[n].st, exec |-> pub[n].exec]
      BY <1>0, LaneAssumption DEF CoordTypes, LaneTypes, Published, Execs
    <2>3. sink[n].ended => Delivered(n)
      <3>1. DOMAIN <<>> = {}
        BY EmptySeq, LenProperties
      <3>. QED BY <1>2, <2>1, <3>1 DEF LogOf, Delivered
    <2>4. UpTo(pub[n], Now(n)) /\ Now(n) = [st |-> did[n], exec |-> 0]
      BY DEF IInv, InOrder, HeardInOrder, Now
    <2>5. pub[n].st = "skipped" => FALSE
      <3>. SUFFICES ASSUME pub[n].st = "skipped" PROVE FALSE
        OBVIOUS
      <3>1. did[n] = "skipped"
        BY <2>2, <2>4 DEF UpTo, Follows, InFlight
      <3>. QED BY <2>1, <3>1 DEF LogOf
    <2>6. CASE Complete
      <3>1. att'[n] = Finalized(LogFinalized(att[n], "whole"))
        BY <2>6 DEF Complete, RunEnds
      <3>2. ASSUME att[n] # <<>>, att[n][1].outcome # "none", att[n][1].said \in {"unsaid", "whole"}
            PROVE  Delivered(n)
        <4>1. CASE att[n][1].said = "whole"
          BY <2>1, <2>3, <3>2, <4>1 DEF Recorded
        <4>2. CASE att[n][1].said = "unsaid"
          <5>1. pub[n].st = "done"
            BY <2>1, <2>5, <3>2 DEF Recorded, Verdicts
          <5>2. pub[n].exec = 0
            BY <2>2, <2>4 DEF UpTo, Follows
          <5>3. Accounted(n, 0)
            BY <2>2, <2>6, <5>1, <5>2 DEF Complete, Settled, IInv, FirstVerdictBehindLog, Behind
          <5>4. sink[n].of = 0
            BY <2>1 DEF LogOf
          <5>. QED BY <2>1, <2>3, <4>2, <5>3, <5>4 DEF Accounted, Recorded
        <4>. QED BY <3>2, <4>1, <4>2
      <3>. QED BY <2>1, <2>2, <3>1, <3>2, EndsWhole
    <2>7. CASE StopWork /\ n \in Unfinished
      <3>. DEFINE h == Stamped(att[n], sink[n])
      <3>1. att'[n] = Finalized(LogFinalized(h, "whole"))
        BY <2>7 DEF StopWork, RunEnds
      <3>2. h \in Histories /\ Recorded(h, pub[n].st, Noticed(sink[n]), Delivered(n))
        BY <2>1, <2>2, StampedRecorded, StampedKeeps
      <3>. HIDE DEF h
      <3>3. ASSUME h # <<>>, h[1].outcome # "none", h[1].said \in {"unsaid", "whole"}
            PROVE  Delivered(n)
        BY <2>2, <2>3, <3>2, <3>3, NoticedType DEF Recorded
      <3>. QED BY <3>1, <3>2, <3>3, EndsWhole
    <2>8. CASE StopWork /\ n \notin Unfinished
      <3>1. att'[n] = Finalized(LogFinalized(att[n], "whole"))
        BY <2>8 DEF StopWork, RunEnds
      <3>2. att[n] # <<>> => att[n][1].outcome = "none"
        BY <2>1, <2>5, <2>8 DEF Unfinished, Recorded, Verdicts
      <3>. QED BY <2>1, <2>2, <3>1, <3>2, EndsWhole
    <2>. QED BY <1>2, <2>6, <2>7, <2>8
  <1>3. over = "yes" => UNCHANGED vars
    BY DEF Next, Complete, Settled
  <1>4. over # "yes" => Complete \/ StopWork \/ UNCHANGED vars
    BY DEF Next, DrainLane, OnNodes, OnNodesAgain, OnLogFrame, StopLane, Shutdown, LaneStep, Start,
           Skip, Write, Exit, EndLog, Cancel, Rerun, coordVars
  <1>. QED BY <1>1, <1>2, <1>3, <1>4

LEMMA InitRecord == Init => OneLog /\ OneRecord /\ EndedWhole
  <1>. SUFFICES ASSUME Init PROVE OneLog /\ OneRecord /\ EndedWhole
    OBVIOUS
  <1>1. DOMAIN <<>> = {}
    BY EmptySeq, LenProperties
  <1>2. OneLog
    BY <1>1 DEF Init, OneLog, LogOf, EmptyLog
  <1>3. OneRecord
    BY <1>1 DEF Init, OneRecord, RecordOf, Recorded, Delivered, EmptyLog
  <1>. QED BY <1>2, <1>3 DEF Init, EndedWhole

\* An attempt of a node that ran once, and got its verdict from a lane that was
\* not lost, is called whole only if it holds all that was written
\* (history.logFinalized, stampUnfinishedLogs, endRunLogs).
THEOREM WholeHasItsLine == Spec => []WholeUnlessLost
  <1>1. Init => IInv
    BY InitGate, InitOrder, InitRecord DEF IInv
  <1>2. IInv /\ [Next]_vars => IInv'
    <2>. SUFFICES ASSUME IInv, [Next]_vars PROVE IInv'
      OBVIOUS
    <2>1. Ordered /\ LaneTypes /\ CoordTypes /\ OneLog /\ OneRecord
      BY DEF IInv, Ordered, Gate
    <2>2. Gate' /\ InOrder' /\ Answered' /\ FirstVerdictBehindLog'
      BY <2>1, OrderedKept DEF Ordered
    <2>3. OneLog' /\ OneRecord'
      BY <2>1, OneLogKept, OneRecordKept DEF Ordered
    <2>. QED BY <2>2, <2>3, EndedWholeKept DEF IInv
  <1>3. IInv => WholeUnlessLost
    BY WholeBefore DEF IInv, Gate
  <1>. QED BY <1>1, <1>2, <1>3, PTL DEF Spec

-----------------------------------------------------------------------------
(* The lanes are LaneNode's.                                               *)

\* What there is to hear of a task, given by its parts, and of node n.
Task(e, d, x, c) == [exec |-> e, did |-> d, said |-> x, closed |-> c]
AsMade(n) == Task(exec[n], did[n], exec[n] \in wrote[n], closed[n])

Lane == INSTANCE LaneNode WITH node <- [n \in Nodes |-> AsMade(n)]

\* The moves of LaneNode, of a task that is given by its parts.
LEMMA TaskMoves ==
    ASSUME NEW e, NEW d, NEW x, NEW c
    PROVE  /\ d = "pending" => Task(e, "running", x, c) \in Lane!Start(Task(e, d, x, c))
           /\ d = "pending" => Task(e, "skipped", x, TRUE) \in Lane!Skip(Task(e, d, x, c))
           /\ d \in {"running", "done"} /\ ~c =>
                 Task(e, d, TRUE, c) \in Lane!Write(Task(e, d, x, c))
           /\ d = "running" => Task(e, "done", x, c) \in Lane!Exit(Task(e, d, x, c))
           /\ d = "done" => Task(e, d, x, TRUE) \in Lane!EndLog(Task(e, d, x, c))
           /\ d \in {"pending", "running"} =>
                 Task(e, "done", TRUE, TRUE) \in Lane!Cancel(Task(e, d, x, c))
           /\ Task(e + 1, "pending", FALSE, FALSE) \in Lane!Rerun(Task(e, d, x, c))
  <1>. DEFINE v == Task(e, d, x, c)
  <1>1. /\ v.did = d /\ v.closed = c
        /\ [v EXCEPT !.did = "running"] = Task(e, "running", x, c)
        /\ [v EXCEPT !.did = "done"] = Task(e, "done", x, c)
    BY DEF Task
  <1>2. ASSUME NEW y PROVE [v EXCEPT !.did = "skipped", !.closed = y] = Task(e, "skipped", x, y)
    <2>1. [v EXCEPT !.did = "skipped"] = Task(e, "skipped", x, c)
      BY DEF Task
    <2>2. [Task(e, "skipped", x, c) EXCEPT !.closed = y] = Task(e, "skipped", x, y)
      BY DEF Task
    <2>. HIDE DEF v
    <2>3. [v EXCEPT !.did = "skipped", !.closed = y]
             = [[v EXCEPT !.did = "skipped"] EXCEPT !.closed = y]
      OBVIOUS
    <2>. QED BY <2>1, <2>2, <2>3
  <1>3. \A y : [v EXCEPT !.said = y] = Task(e, d, y, c)
    BY DEF Task
  <1>4. \A y : [v EXCEPT !.closed = y] = Task(e, d, x, y)
    BY DEF Task
  <1>5. ASSUME NEW y, NEW z
        PROVE  [v EXCEPT !.did = "done", !.said = y, !.closed = z] = Task(e, "done", y, z)
    <2>1. [v EXCEPT !.did = "done"] = Task(e, "done", x, c)
      BY DEF Task
    <2>2. [Task(e, "done", x, c) EXCEPT !.said = y] = Task(e, "done", y, c)
      BY DEF Task
    <2>3. [Task(e, "done", y, c) EXCEPT !.closed = z] = Task(e, "done", y, z)
      BY DEF Task
    <2>. HIDE DEF v
    <2>4. [v EXCEPT !.did = "done", !.said = y, !.closed = z]
             = [[[v EXCEPT !.did = "done"] EXCEPT !.said = y] EXCEPT !.closed = z]
      OBVIOUS
    <2>. QED BY <2>1, <2>2, <2>3, <2>4
  <1>6. Task(e + 1, "pending", FALSE, FALSE) \in Lane!Rerun(v)
    BY DEF Task, Lane!Rerun, Lane!Fresh
  <1>. HIDE DEF v
  <1>7. d = "pending" => Task(e, "skipped", x, TRUE) \in Lane!Skip(v)
    BY <1>1, <1>2, Zenon DEF Lane!Skip
  <1>8. d \in {"running", "done"} /\ ~c => Task(e, d, TRUE, c) \in Lane!Write(v)
    BY <1>1, <1>3, Zenon DEF Lane!Write
  <1>9. d = "done" => Task(e, d, x, TRUE) \in Lane!EndLog(v)
    BY <1>1, <1>4, Zenon DEF Lane!EndLog
  <1>10. d \in {"pending", "running"} => Task(e, "done", TRUE, TRUE) \in Lane!Cancel(v)
    BY <1>1, <1>5, Zenon DEF Lane!Cancel
  <1>11. /\ d = "pending" => Task(e, "running", x, c) \in Lane!Start(v)
         /\ d = "running" => Task(e, "done", x, c) \in Lane!Exit(v)
    BY <1>1 DEF Lane!Start, Lane!Exit
  <1>. QED BY <1>6, <1>7, <1>8, <1>9, <1>10, <1>11 DEF v

\* Only executions that have begun have said anything.
SaidSoFar == \A n \in Nodes : \A e \in wrote[n] : e <= exec[n]

LEMMA SaidSoFarKept ==
    ASSUME LaneTypes, SaidSoFar, [Next]_vars
    PROVE  SaidSoFar'
  <1>1. ASSUME NEW n \in Nodes, LaneStep(n) PROVE SaidSoFar'
    <2>. SUFFICES ASSUME NEW m \in Nodes, NEW e \in wrote'[m] PROVE e <= exec'[m]
      BY DEF SaidSoFar
    <2>1. exec[m] \in Nat /\ wrote[m] \subseteq Nat /\ \A f \in wrote[m] : f <= exec[m]
      BY LaneAssumption DEF LaneTypes, Execs, SaidSoFar
    <2>2. exec'[m] = exec[m] \/ exec'[m] = exec[m] + 1
      BY <1>1, <2>1 DEF LaneTypes, LaneStep, Start, Skip, Write, Exit, EndLog, Cancel, Rerun
    <2>3. wrote' = wrote \/ wrote' = [wrote EXCEPT ![n] = @ \cup {exec[n]}]
      BY <1>1 DEF LaneStep, Start, Skip, Write, Exit, EndLog, Cancel, Rerun
    <2>4. e \in wrote[m] \/ e = exec[m]
      <3>1. wrote'[m] = wrote[m] \/ wrote'[m] = wrote[m] \cup {exec[m]}
        BY <2>3 DEF LaneTypes
      <3>. QED BY <3>1
    <2>. QED BY <2>1, <2>2, <2>4
  <1>2. CASE UNCHANGED laneVars
    BY <1>2 DEF laneVars, SaidSoFar
  <1>3. (\E n \in Nodes : LaneStep(n)) \/ UNCHANGED laneVars
    BY DEF Next, OnNodes, OnNodesAgain, OnLogFrame, DrainLane, StopLane, Complete, Shutdown,
           StopWork, RunEnds, vars
  <1>. QED BY <1>1, <1>2, <1>3

\* A step of a lane makes a move of one node, and leaves the others as they were.
LEMMA LaneStepMoves ==
    ASSUME LaneTypes, SaidSoFar, NEW n \in Nodes, LaneStep(n)
    PROVE  /\ AsMade(n)' \in Lane!Moves(AsMade(n))
           /\ \A m \in Nodes \ {n} : AsMade(m)' = AsMade(m)
  <1>. DEFINE x == exec[n] \in wrote[n]
              v == Task(exec[n], did[n], x, closed[n])
  <1>0. AsMade(n) = v
    BY Zenon DEF AsMade
  <1>1. ASSUME NEW e, NEW d, NEW y, NEW c, exec'[n] = e, did'[n] = d,
               (exec'[n] \in wrote'[n]) = y, closed'[n] = c
        PROVE  AsMade(n)' = Task(e, d, y, c)
    BY <1>1, Zenon DEF AsMade
  <1>2. /\ exec \in [Nodes -> Execs] /\ did \in [Nodes -> Statuses]
        /\ wrote \in [Nodes -> SUBSET Execs] /\ closed \in [Nodes -> BOOLEAN]
        /\ exec[n] \in Nat
    BY LaneAssumption DEF LaneTypes, Execs
  <1>3. \A m \in Nodes \ {n} : AsMade(m)' = AsMade(m)
    BY <1>2 DEF AsMade, Task, LaneStep, Start, Skip, Write, Exit, EndLog, Cancel, Rerun, Says
  <1>. HIDE DEF v
  <1>4. CASE Start(n)
    <2>1. AsMade(n)' = Task(exec[n], "running", x, closed[n])
      BY <1>1, <1>2, <1>4 DEF Start, Says
    <2>2. did[n] = "pending"
      BY <1>4 DEF Start
    <2>3. AsMade(n)' \in Lane!Start(v)
      BY <2>1, <2>2, TaskMoves, Zenon DEF v
    <2>. QED BY <1>0, <1>3, <2>3 DEF Lane!Moves
  <1>5. CASE Skip(n)
    <2>1. AsMade(n)' = Task(exec[n], "skipped", x, TRUE)
      BY <1>1, <1>2, <1>5 DEF Skip, Says
    <2>2. did[n] = "pending"
      BY <1>5 DEF Skip
    <2>3. AsMade(n)' \in Lane!Skip(v)
      BY <2>1, <2>2, TaskMoves, Zenon DEF v
    <2>. QED BY <1>0, <1>3, <2>3 DEF Lane!Moves
  <1>6. CASE Write(n)
    <2>1. AsMade(n)' = Task(exec[n], did[n], TRUE, closed[n])
      BY <1>1, <1>2, <1>6 DEF Write
    <2>2. did[n] \in {"running", "done"} /\ ~closed[n]
      BY <1>6 DEF Write
    <2>3. AsMade(n)' \in Lane!Write(v)
      <3>1. Task(exec[n], did[n], TRUE, closed[n]) \in Lane!Write(Task(exec[n], did[n], x, closed[n]))
        BY <2>2, TaskMoves, ZenonT(60)
      <3>. QED BY <2>1, <3>1, Zenon DEF v
    <2>. QED BY <1>0, <1>3, <2>3 DEF Lane!Moves
  <1>7. CASE Exit(n)
    <2>1. AsMade(n)' = Task(exec[n], "done", x, closed[n])
      BY <1>1, <1>2, <1>7 DEF Exit, Says
    <2>2. did[n] = "running"
      BY <1>7 DEF Exit
    <2>3. AsMade(n)' \in Lane!Exit(v)
      BY <2>1, <2>2, TaskMoves, Zenon DEF v
    <2>. QED BY <1>0, <1>3, <2>3 DEF Lane!Moves
  <1>8. CASE EndLog(n)
    <2>1. AsMade(n)' = Task(exec[n], did[n], x, TRUE)
      BY <1>1, <1>2, <1>8 DEF EndLog
    <2>2. did[n] = "done"
      BY <1>8 DEF EndLog
    <2>3. AsMade(n)' \in Lane!EndLog(v)
      BY <2>1, <2>2, TaskMoves, Zenon DEF v
    <2>. QED BY <1>0, <1>3, <2>3 DEF Lane!Moves
  <1>9. CASE Cancel(n)
    <2>1. AsMade(n)' = Task(exec[n], "done", TRUE, TRUE)
      BY <1>1, <1>2, <1>9 DEF Cancel, Says
    <2>2. did[n] \in {"pending", "running"}
      BY <1>9 DEF Cancel, InFlight
    <2>3. AsMade(n)' \in Lane!Cancel(v)
      BY <2>1, <2>2, TaskMoves, Zenon DEF v
    <2>. QED BY <1>0, <1>3, <2>3 DEF Lane!Moves
  <1>10. CASE Rerun(n)
    <2>1. exec'[n] = exec[n] + 1 /\ did'[n] = "pending" /\ closed'[n] = FALSE /\ wrote'[n] = wrote[n]
      BY <1>2, <1>10 DEF Rerun, Says
    <2>2. exec[n] + 1 \notin wrote[n]
      <3>1. \A e \in wrote[n] : e <= exec[n]
        BY DEF SaidSoFar
      <3>. QED BY <1>2, <3>1
    <2>3. (exec'[n] \in wrote'[n]) = FALSE
      BY <2>1, <2>2
    <2>4. AsMade(n)' = Task(exec[n] + 1, "pending", FALSE, FALSE)
      BY <1>1, <2>1, <2>3
    <2>5. AsMade(n)' \in Lane!Rerun(v)
      BY <2>4, TaskMoves, Zenon DEF v
    <2>. QED BY <1>0, <1>3, <2>5 DEF Lane!Moves
  <1>. QED BY <1>3, <1>4, <1>5, <1>6, <1>7, <1>8, <1>9, <1>10 DEF LaneStep

\* The lanes a run is taken to hear are lanes that LaneNode allows, as LaneRunner's
\* are: each of their steps is one of its moves (runner.ts tick, stamp, cancel, rerun).
THEOREM LanesAreHeard == Spec => Lane!Spec
  <1>1. Init => Gate /\ SaidSoFar
    BY InitGate DEF Init, SaidSoFar
  <1>2. Init => Lane!Init
    <2>. SUFFICES ASSUME Init, NEW n \in Nodes PROVE AsMade(n) = Lane!Fresh(0)
      BY DEF Lane!Init
    <2>1. /\ exec[n] = 0 /\ did[n] = "pending" /\ closed[n] = FALSE
          /\ (exec[n] \in wrote[n]) = FALSE
      BY DEF Init
    <2>. QED BY <2>1 DEF AsMade, Task, Lane!Fresh
  <1>3. Gate /\ SaidSoFar /\ [Next]_vars => Gate' /\ SaidSoFar'
    BY NextGate, SaidSoFarKept DEF Gate
  <1>4. Gate /\ SaidSoFar /\ [Next]_vars => [Lane!Next]_[n \in Nodes |-> AsMade(n)]
    <2>. SUFFICES ASSUME Gate, SaidSoFar, [Next]_vars
                  PROVE  \/ Lane!Next
                         \/ [n \in Nodes |-> AsMade(n)]' = [n \in Nodes |-> AsMade(n)]
      OBVIOUS
    <2>1. ASSUME NEW n \in Nodes, LaneStep(n) PROVE Lane!Next
      <3>1. /\ AsMade(n)' \in Lane!Moves(AsMade(n))
            /\ \A m \in Nodes \ {n} : AsMade(m)' = AsMade(m)
        BY <2>1, LaneStepMoves DEF Gate
      <3>2. ASSUME NEW m \in Nodes PROVE Lane!Turn(AsMade(m), AsMade(m)')
        BY <3>1 DEF Lane!Turn, Lane!After
      <3>. QED BY <3>2 DEF Lane!Next
    <2>2. CASE UNCHANGED laneVars
      BY <2>2 DEF laneVars, AsMade
    <2>3. (\E n \in Nodes : LaneStep(n)) \/ UNCHANGED laneVars
      BY DEF Next, OnNodes, OnNodesAgain, OnLogFrame, DrainLane, StopLane, Complete, Shutdown,
             StopWork, RunEnds, vars
    <2>. QED BY <2>1, <2>2, <2>3
  <1>. QED BY <1>1, <1>2, <1>3, <1>4, PTL DEF Spec, Lane!Spec
=============================================================================
