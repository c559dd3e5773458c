------------------------ MODULE LaneResurrection_proofs ------------------------
(* What is proved of the lanes of a run, whatever the platforms, the tasks *)
(* and the budget.                                                         *)
EXTENDS LaneResurrection, TLAPS

LeaseState == {"none", "held", "given"}
Lane == [up : BOOLEAN, tasks : SUBSET Tasks]

\* The part of the type invariant the proof uses.
Shape ==
    /\ tomb \subseteq Platforms
    /\ asking \in [Platforms -> SUBSET Tasks]
    /\ episode \in [Platforms -> Episodes]
    /\ lane \in [Platforms -> Lane]
    /\ lease \in [Platforms -> [Episodes -> LeaseState]]
    /\ heard \in [Platforms -> SUBSET Episodes]
    /\ built \in [Platforms -> Nat]

\* A claim in flight is for a platform with no lane.
ClaimsHaveNoLane ==
    \A p \in Platforms :
        /\ p \in starting => ~lane[p].up /\ asking[p] = {}
        /\ asking[p] # {} => ~lane[p].up

\* A lane that is up counts for more than the resurrections spent before it.
LaneIsCounted ==
    \A p \in Platforms :
        /\ episode[p] <= built[p]
        /\ lane[p].up => episode[p] < built[p]

\* A box of the present episode that was given back is news to nobody, and no
\* box is of an episode to come.
GivenIsSpent ==
    \A p \in Platforms :
        /\ lease[p][episode[p]] = "given" =>
              p \in tomb \/ episode[p] \in heard[p] \/ over = "yes"
        /\ \A e \in Episodes : e > episode[p] => lease[p][e] = "none"

IInv == Shape /\ BoxPerLane /\ ClaimsHaveNoLane /\ LaneIsCounted /\ GivenIsSpent

\* The variables the invariant speaks of.
iVars == <<starting, asking, episode, tomb, lane, lease, heard, built, over>>

-----------------------------------------------------------------------------
(* Every step keeps the invariant                                          *)

\* The first state of a run holds no box and has no lane.
LEMMA InitIInv == ASSUME Init PROVE IInv
  <1>. USE BudgetAssumption DEF Init
  <1>1. Shape
    BY DEF Shape, Lane, LeaseState, NoLane, Episodes
  <1>2. BoxPerLane
    BY DEF BoxPerLane, NoLane
  <1>3. ClaimsHaveNoLane /\ LaneIsCounted
    BY DEF ClaimsHaveNoLane, LaneIsCounted, NoLane
  <1>4. GivenIsSpent
    <2>1. \A p \in Platforms : episode[p] = 0 /\ \A e \in Episodes : lease[p][e] = "none"
      OBVIOUS
    <2>2. 0 \in Episodes
      BY DEF Episodes
    <2>. QED BY <2>1, <2>2 DEF GivenIsSpent
  <1>. QED BY <1>1, <1>2, <1>3, <1>4 DEF IInv

\* What a lane does and says changes nothing of the roster.
LEMMA QuietStep == ASSUME IInv, UNCHANGED iVars PROVE IInv'
  BY DEF IInv, iVars, Shape, BoxPerLane, ClaimsHaveNoLane, LaneIsCounted, GivenIsSpent

\* Dropping platforms (executions.cancel) keeps the invariant, and so does the
\* answer of their claims.
LEMMA CancelStep ==
    ASSUME IInv, NEW ps \in SUBSET Platforms, Cancel(ps),
           asking' \in [Platforms -> SUBSET Tasks],
           \A p \in Platforms : asking'[p] \in {asking[p], {}},
           UNCHANGED <<starting, episode, heard, built, over>>
    PROVE  IInv'
  <1>. USE DEF IInv, Cancel, GiveBack
  <1>1. Shape'
    BY DEF Shape, Lane, LeaseState, NoLane
  <1>2. \A p \in Platforms, e \in Episodes :
            lease'[p][e] = IF p \in ps /\ lease[p][e] = "held" THEN "given" ELSE lease[p][e]
    BY DEF Shape
  <1>3. \A p \in Platforms : lane'[p] = IF p \in ps THEN NoLane ELSE lane[p]
    BY DEF Shape
  <1>4. BoxPerLane'
    BY <1>2, <1>3 DEF BoxPerLane, NoLane
  <1>5. ClaimsHaveNoLane'
    BY <1>3 DEF ClaimsHaveNoLane, NoLane
  <1>6. LaneIsCounted'
    BY <1>3 DEF LaneIsCounted, NoLane
  <1>7. GivenIsSpent'
    <2>1. \A p \in Platforms : episode[p] \in Episodes
      BY DEF Shape
    <2>. QED BY <1>2, <2>1 DEF GivenIsSpent
  <1>. QED BY <1>1, <1>4, <1>5, <1>6, <1>7

\* A box is accepted for a platform that is acquiring one: a lane more is up.
LEMMA AcceptStep ==
    ASSUME IInv, NEW p \in Platforms, NEW tasks \in SUBSET Tasks, Accept(p, tasks),
           ~lane[p].up, starting' \subseteq starting, p \notin starting',
           asking' = [asking EXCEPT ![p] = {}],
           UNCHANGED <<episode, tomb, heard, over>>
    PROVE  IInv'
  <1>. USE DEF IInv, Accept
  <1>1. Shape'
    BY DEF Shape, Lane, LeaseState, Episodes
  <1>2. \A q \in Platforms, e \in Episodes :
            lease'[q][e] = IF q = p /\ e = episode[p] THEN "held" ELSE lease[q][e]
    BY DEF Shape
  <1>3. \A q \in Platforms :
            lane'[q] = IF q = p THEN [up |-> TRUE, tasks |-> tasks] ELSE lane[q]
    BY DEF Shape
  <1>4. BoxPerLane'
    BY <1>2, <1>3 DEF BoxPerLane
  <1>5. ClaimsHaveNoLane'
    BY <1>3 DEF ClaimsHaveNoLane, Shape
  <1>6. LaneIsCounted'
    BY <1>3 DEF LaneIsCounted, Shape, Episodes
  <1>7. GivenIsSpent'
    <2>1. \A q \in Platforms : episode[q] \in Episodes /\ episode[q] \in Nat
      BY DEF Shape, Episodes
    <2>. QED BY <1>2, <2>1 DEF GivenIsSpent, Episodes
  <1>. QED BY <1>1, <1>4, <1>5, <1>6, <1>7

\* A box that arrives too late is given back and not watched.
LEMMA RefuseStep ==
    ASSUME IInv, NEW p \in Platforms, Refuse(p), ~lane[p].up,
           starting' \subseteq starting,
           asking' \in [Platforms -> SUBSET Tasks],
           \A q \in Platforms : asking'[q] \in {asking[q], {}},
           UNCHANGED <<episode, tomb, lane, built, over>>
    PROVE  IInv'
  <1>. USE DEF IInv, Refuse
  <1>1. Shape'
    BY DEF Shape, LeaseState, Episodes
  <1>2. \A q \in Platforms, e \in Episodes :
            lease'[q][e] = IF q = p /\ e = episode[p] THEN "given" ELSE lease[q][e]
    BY DEF Shape
  <1>3. BoxPerLane'
    BY <1>2 DEF BoxPerLane
  <1>4. ClaimsHaveNoLane' /\ LaneIsCounted'
    BY DEF ClaimsHaveNoLane, LaneIsCounted
  <1>5. GivenIsSpent'
    <2>1. \A q \in Platforms : episode[q] \in Episodes /\ episode[q] \in Nat
      BY DEF Shape, Episodes
    <2>2. \A q \in Platforms :
              heard'[q] = IF q = p THEN heard[p] \cup {episode[p]} ELSE heard[q]
      BY DEF Shape
    <2>. QED BY <1>2, <2>1, <2>2 DEF GivenIsSpent, Episodes
  <1>. QED BY <1>1, <1>3, <1>4, <1>5

\* The death of a lane that is up: a resurrection, or the end of the platform.
LEMMA DiesStep ==
    ASSUME IInv, NEW p \in Platforms, lane[p].up, Dies(p),
           heard' \in [Platforms -> SUBSET Episodes],
           \A q \in Platforms : heard[q] \subseteq heard'[q]
    PROVE  IInv'
  <1>. DEFINE left == Unfinished(p, Freed({p}))
  <1>1. UNCHANGED <<starting, built, over>>
    BY DEF Dies
  <1>2. CASE episode[p] < MaxResurrections /\ Resurrect(p, left)
    <2>. USE DEF IInv, Resurrect, GiveBack
    <2>0. left \in SUBSET Tasks
      BY DEF Unfinished, Of
    <2>. HIDE DEF left
    <2>1. Shape'
      BY <1>1, <1>2, <2>0, BudgetAssumption DEF Shape, Lane, LeaseState, NoLane, Episodes
    <2>2. \A q \in Platforms, e \in Episodes :
              lease'[q][e] = IF q = p /\ lease[q][e] = "held" THEN "given" ELSE lease[q][e]
      BY <1>2 DEF Shape
    <2>3. \A q \in Platforms : /\ lane'[q] = IF q = p THEN NoLane ELSE lane[q]
                               /\ episode'[q] = IF q = p THEN episode[p] + 1 ELSE episode[q]
                               /\ asking'[q] = IF q = p THEN left ELSE asking[q]
                               /\ episode[q] \in Nat /\ episode[q] \in Episodes
                               /\ built[q] \in Nat
      BY <1>2 DEF Shape, Episodes
    <2>4. BoxPerLane'
      BY <2>2, <2>3 DEF BoxPerLane, NoLane
    <2>5. ClaimsHaveNoLane'
      BY <1>1, <2>3 DEF ClaimsHaveNoLane, NoLane
    <2>6. LaneIsCounted'
      BY <1>1, <2>3 DEF LaneIsCounted, NoLane
    <2>7. GivenIsSpent'
      <3>1. tomb' = tomb /\ over' = over
        BY <1>1, <1>2
      <3>2. episode'[p] \in Episodes
        BY <2>1 DEF Shape
      <3>3. lease[p][episode'[p]] = "none"
        BY <2>3, <3>2 DEF GivenIsSpent
      <3>4. \A q \in Platforms : \A e \in Episodes : e > episode'[q] => lease'[q][e] = "none"
        BY <2>2, <2>3 DEF GivenIsSpent, Episodes
      <3>5. \A q \in Platforms : lease'[q][episode'[q]] = "given" =>
                q \in tomb' \/ episode'[q] \in heard'[q] \/ over' = "yes"
        BY <2>2, <2>3, <3>1, <3>2, <3>3 DEF GivenIsSpent
      <3>. QED BY <3>4, <3>5 DEF GivenIsSpent
    <2>. QED BY <2>1, <2>4, <2>5, <2>6, <2>7
  <1>3. CASE GiveUp(p)
    <2>1. Cancel({p}) /\ UNCHANGED <<episode, asking>>
      BY <1>3 DEF GiveUp
    <2>. USE DEF IInv, Cancel, GiveBack
    <2>2. Shape'
      BY <1>1, <2>1 DEF Shape, Lane, LeaseState, NoLane
    <2>3. \A q \in Platforms, e \in Episodes :
              lease'[q][e] = IF q = p /\ lease[q][e] = "held" THEN "given" ELSE lease[q][e]
      BY <2>1 DEF Shape
    <2>4. \A q \in Platforms : /\ lane'[q] = IF q = p THEN NoLane ELSE lane[q]
                               /\ episode[q] \in Episodes
      BY <2>1 DEF Shape
    <2>5. BoxPerLane'
      BY <2>1, <2>3, <2>4 DEF BoxPerLane, NoLane
    <2>6. ClaimsHaveNoLane' /\ LaneIsCounted'
      BY <1>1, <2>1, <2>4 DEF ClaimsHaveNoLane, LaneIsCounted, NoLane
    <2>7. GivenIsSpent'
      BY <1>1, <2>1, <2>3, <2>4 DEF GivenIsSpent
    <2>. QED BY <2>2, <2>5, <2>6, <2>7
  <1>. QED BY <1>2, <1>3 DEF Dies

\* Only the loss of the present box of a lane that is up counts as its death.
LEMMA LossOfALane ==
    ASSUME IInv, Running, NEW p \in Platforms, NEW e \in Episodes, LeaseLost(p, e),
           Latched(p, e), p \notin tomb
    PROVE  lane[p].up
  <1>1. lease[p][e] \in LeaseState
    BY DEF IInv, Shape
  <1>2. lease[p][e] = "held"
    BY <1>1 DEF LeaseLost, Latched, Running, IInv, GivenIsSpent, LeaseState
  <1>. QED BY <1>2 DEF IInv, BoxPerLane

\* Every step keeps what is known of boxes and lanes.
LEMMA NextIInv == ASSUME IInv, [Next]_vars PROVE IInv'
  <1>. USE DEF iVars, claimVars, nodeVars, boxVars
  <1>1. CASE UNCHANGED vars
    BY <1>1, QuietStep DEF vars
  <1>2. CASE Running /\ LaneStep
    <2>1. UNCHANGED iVars
      BY <1>2 DEF LaneStep, SetupDone, Start, Exit, Skip, OnNodes, Release
    <2>. QED BY SMTT(60), <2>1, QuietStep
  <1>3. CASE StartupJudged
    <2>1. CASE UNCHANGED <<tomb, lane, lease>>
      BY <1>3, <2>1, QuietStep DEF StartupJudged
    <2>2. CASE Cancel({p \in Platforms : built[p] > 0})
      <3>1. asking' \in [Platforms -> SUBSET Tasks]
        BY <1>3 DEF StartupJudged, IInv, Shape
      <3>. QED BY <1>3, <2>2, <3>1, CancelStep DEF StartupJudged
    <2>. QED BY <1>3, <2>1, <2>2 DEF StartupJudged
  <1>4. ASSUME NEW p \in Platforms, StartupClaimed(p) PROVE IInv'
    <2>1. ~lane[p].up /\ asking[p] = {}
      BY <1>4 DEF StartupClaimed, IInv, ClaimsHaveNoLane
    <2>2. asking' \in [Platforms -> SUBSET Tasks]
      BY <1>4 DEF StartupClaimed, IInv, Shape
    <2>3. CASE Refuse(p) /\ UNCHANGED <<lane, did, built>>
      BY <1>4, <2>1, <2>2, <2>3, RefuseStep DEF StartupClaimed
    <2>4. CASE Accept(p, Of(p)) /\ UNCHANGED heard
      <3>1. asking' = [asking EXCEPT ![p] = {}]
        BY <1>4, <2>1 DEF StartupClaimed, IInv, Shape
      <3>2. Of(p) \in SUBSET Tasks
        BY DEF Of
      <3>. QED BY <1>4, <2>1, <2>4, <3>1, <3>2, AcceptStep DEF StartupClaimed
    <2>. QED BY <1>4, <2>3, <2>4 DEF StartupClaimed
  <1>5. ASSUME NEW p \in Platforms, StartupFails(p) PROVE IInv'
    BY <1>5 DEF StartupFails, IInv, Shape, BoxPerLane, ClaimsHaveNoLane, LaneIsCounted,
                GivenIsSpent
  <1>6. ASSUME NEW p \in Platforms, ReclaimOk(p) PROVE IInv'
    <2>1. /\ ~lane[p].up /\ p \notin starting
          /\ asking[p] \in SUBSET Tasks
          /\ asking' = [asking EXCEPT ![p] = {}]
          /\ UNCHANGED <<starting, episode, over>>
      BY <1>6 DEF ReclaimOk, Answered, IInv, Shape, ClaimsHaveNoLane
    <2>2. CASE Refuse(p) /\ UNCHANGED <<tomb, lane, did, wire, built>>
      <3>1. /\ asking' \in [Platforms -> SUBSET Tasks]
            /\ \A q \in Platforms : asking'[q] \in {asking[q], {}}
        BY <2>1 DEF IInv, Shape
      <3>. QED BY <2>1, <2>2, <3>1, RefuseStep
    <2>3. CASE Accept(p, asking[p]) /\ UNCHANGED <<tomb, wire, heard>>
      BY <2>1, <2>3, AcceptStep
    <2>. QED BY <1>6, <2>2, <2>3 DEF ReclaimOk
  <1>7. ASSUME NEW p \in Platforms, ReclaimFails(p) PROVE IInv'
    <2>1. /\ asking' = [asking EXCEPT ![p] = {}]
          /\ UNCHANGED <<starting, episode, over, heard, built>>
      BY <1>7 DEF ReclaimFails, Answered
    <2>2. /\ asking' \in [Platforms -> SUBSET Tasks]
          /\ \A q \in Platforms : asking'[q] \in {asking[q], {}}
      BY <2>1 DEF IInv, Shape
    <2>3. CASE UNCHANGED <<tomb, lane, wire, lease>>
      BY <2>1, <2>2, <2>3 DEF IInv, Shape, BoxPerLane, ClaimsHaveNoLane, LaneIsCounted,
                              GivenIsSpent
    <2>4. CASE Cancel({p})
      BY <2>1, <2>2, <2>4, CancelStep
    <2>. QED BY <1>7, <2>3, <2>4 DEF ReclaimFails
  <1>8. ASSUME Running, NEW p \in Platforms, LinkBreaks(p) PROVE IInv'
    <2>1. heard' \in [Platforms -> SUBSET Episodes] /\ heard' = heard
      BY <1>8 DEF LinkBreaks, IInv, Shape
    <2>. QED BY <1>8, <2>1, DiesStep DEF LinkBreaks
  <1>9. ASSUME Running, NEW p \in Platforms, NEW e \in Episodes, LeaseLost(p, e) PROVE IInv'
    <2>1. /\ heard' \in [Platforms -> SUBSET Episodes]
          /\ \A q \in Platforms : heard[q] \subseteq heard'[q]
      BY <1>9 DEF LeaseLost, IInv, Shape
    <2>2. CASE Latched(p, e) /\ p \notin tomb
      <3>2. lane[p].up
        BY <1>9, <2>2, LossOfALane
      <3>. QED BY <1>9, <2>1, <2>2, <3>2, DiesStep DEF LeaseLost
    <2>3. CASE ~(Latched(p, e) /\ p \notin tomb)
      <3>1. UNCHANGED <<starting, asking, episode, tomb, lane, lease, built, over>>
        BY <1>9, <2>3 DEF LeaseLost
      <3>2. Shape'
        BY <2>1, <3>1 DEF IInv, Shape
      <3>3. GivenIsSpent'
        BY <2>1, <3>1 DEF IInv, GivenIsSpent
      <3>. QED BY <3>1, <3>2, <3>3 DEF IInv, BoxPerLane, ClaimsHaveNoLane, LaneIsCounted
    <2>. QED BY <2>2, <2>3
  <1>10. ASSUME NEW p \in Platforms, CancelPlatform(p) PROVE IInv'
    <2>1. asking' \in [Platforms -> SUBSET Tasks] /\ asking' = asking
      BY <1>10 DEF CancelPlatform, IInv, Shape
    <2>. QED BY <1>10, <2>1, CancelStep DEF CancelPlatform
  <1>11. CASE Shutdown
    <2>1. over' # "yes" /\ over = "no"
      BY <1>11 DEF Shutdown
    <2>. QED BY <1>11, <2>1 DEF Shutdown, IInv, Shape, BoxPerLane, ClaimsHaveNoLane,
                                LaneIsCounted, GivenIsSpent
  <1>12. CASE Stops
    <2>. USE DEF IInv, Stops, GiveBack
    <2>1. Shape'
      BY <1>12 DEF Shape, Lane, LeaseState, NoLane
    <2>2. \A q \in Platforms, e \in Episodes :
              lease'[q][e] = IF lease[q][e] = "held" THEN "given" ELSE lease[q][e]
      BY <1>12 DEF Shape
    <2>3. BoxPerLane' /\ ClaimsHaveNoLane' /\ LaneIsCounted'
      BY <1>12, <2>2 DEF BoxPerLane, ClaimsHaveNoLane, LaneIsCounted, NoLane
    <2>4. GivenIsSpent'
      BY <1>12, <2>2 DEF GivenIsSpent
    <2>. QED BY <2>1, <2>3, <2>4
  <1>. QED
    <2>1. CASE Progress
      BY <2>1, <1>2, <1>3, <1>4, <1>5, <1>6, <1>7, <1>12
         DEF Progress, ClaimStep, Complete, StopWork
    <2>2. CASE Running /\ Trouble
      BY <2>2, <1>8, <1>9, <1>10, <1>11 DEF Trouble
    <2>. QED BY <2>1, <2>2, <1>1 DEF Next

-----------------------------------------------------------------------------
\* For any platforms, tasks and budget the invariant holds in every state.
THEOREM Invariance == Spec => []IInv
  <1>1. Init => IInv
    BY InitIInv
  <1>2. IInv /\ [Next]_vars => IInv'
    BY NextIInv
  <1>. QED BY <1>1, <1>2, PTL DEF Spec

\* A box is held exactly while a lane of the present episode is up on it: no
\* claim, death, cancel or stop leaks a box or takes one from under a lane
\* (executionRoster, acceptClaim).
THEOREM BoxesFollowLanes == Spec => []BoxPerLane
  <1>1. IInv => BoxPerLane
    BY DEF IInv
  <1>. QED BY <1>1, Invariance, PTL

\* Of the two signals of one ssh drop at most one spends a resurrection
\* (laneEpisode, watchLease).
THEOREM OneResurrectionPerLane == Spec => []OneDeathPerLane
  <1>1. IInv => OneDeathPerLane
    BY DEF IInv, LaneIsCounted, OneDeathPerLane
  <1>. QED BY <1>1, Invariance, PTL

-----------------------------------------------------------------------------
(* What is known of the statuses, the windows and the tombs                *)

Status == {"pending", "running"} \cup Terminal
Kind == {"cancel", "death"}

\* The statuses of the run are typed.
Board ==
    /\ pub \in [Tasks -> Status]
    /\ held \in [Tasks -> {"none"} \cup Terminal]
    /\ setup \in [Platforms -> {"running"} \cup Terminal]
    /\ stop \in [Platforms -> {"none"} \cup Kind]

\* The statuses of the lanes are, and they and the claims are of tasks of their
\* platform.
Said ==
    /\ did \in [Tasks -> Status]
    /\ DOMAIN wire = Platforms
    /\ \A p \in Platforms : /\ wire[p] \in Seq(Of(p) \X ({"running"} \cup Terminal))
                            /\ asking[p] \subseteq Of(p)

\* The windows are those of the start-up, while it lasts, and of the reclaim in
\* flight; the start-up does not end before its claims.
Windows ==
    /\ starting \subseteq Platforms
    /\ phase \in {"claiming", "started"} /\ refused \in BOOLEAN
    /\ windows \in [Platforms -> Nat]
    /\ \A p \in Platforms :
          windows[p] = (IF phase = "claiming" THEN 1 ELSE 0)
                       + (IF asking[p] # {} THEN 1 ELSE 0)
    /\ phase = "started" => starting = {}

\* No claim window is open once the run has announced its settle.
SettledIsQuiet ==
    /\ settled \in BOOLEAN /\ over \in {"no", "stopping", "yes"}
    /\ settled /\ over = "no" => \A p \in Platforms : windows[p] = 0

\* A cancelled platform has no lane.
TombIsDown == \A p \in tomb : ~lane[p].up

\* Whatever a status was, a stopped platform's is terminal.
LEMMA OverlayEnds ==
    \A kind \in Kind, st \in Status : Overlay(kind, st) \in Terminal
  BY DEF Kind, Status, Overlay, Terminal, Bad

\* What the gate lets go of is typed and takes no verdict back.
LEMMA FreedStatuses ==
    ASSUME Board, NEW ps \in SUBSET Platforms
    PROVE  /\ Freed(ps) \in [Tasks -> Status]
           /\ Unheld(ps) \in [Tasks -> {"none"} \cup Terminal]
           /\ \A t \in Tasks : /\ pub[t] \in Terminal => Freed(ps)[t] \in Terminal
                               /\ PlatformOf[t] \notin ps => Freed(ps)[t] = pub[t]
  BY DEF Board, Status, Freed, Unheld

\* Stopping platforms ends their nodes and leaves the others' alone.
LEMMA TerminalizeEnds ==
    ASSUME Board, NEW ps \in SUBSET Platforms, NEW kind \in [Platforms -> Kind]
    PROVE  /\ Terminalized(ps, kind) \in [Tasks -> Status]
           /\ TerminalSetup(ps, kind) \in [Platforms -> {"running"} \cup Terminal]
           /\ \A t \in Tasks :
                 /\ PlatformOf[t] \in ps => Terminalized(ps, kind)[t] \in Terminal
                 /\ PlatformOf[t] \notin ps => Terminalized(ps, kind)[t] = pub[t]
           /\ \A p \in Platforms :
                 /\ p \in ps => TerminalSetup(ps, kind)[p] \in Terminal
                 /\ p \notin ps => TerminalSetup(ps, kind)[p] = setup[p]
  <1>1. \A p \in Platforms : kind[p] \in Kind /\ setup[p] \in Status
    BY DEF Board, Status
  <1>2. \A t \in Tasks : Freed(ps)[t] \in Status /\ pub[t] \in Status
    BY FreedStatuses DEF Board
  <1>3. \A t \in Tasks :
            PlatformOf[t] \in ps => Overlay(kind[PlatformOf[t]], Freed(ps)[t]) \in Terminal
    BY <1>1, <1>2, OverlayEnds
  <1>4. \A p \in Platforms : Overlay(kind[p], setup[p]) \in Terminal
    BY <1>1, OverlayEnds
  <1>. QED
    BY <1>2, <1>3, <1>4 DEF Terminalized, TerminalSetup, Board, Status

\* The same of a step that stops them.
LEMMA StoppedEnd ==
    ASSUME Board, NEW ps \in SUBSET Platforms, NEW kind \in [Platforms -> Kind],
           Terminalize(ps, kind)
    PROVE  \A q \in Platforms :
             /\ q \in ps => setup'[q] \in Terminal /\ \A t \in Of(q) : pub'[t] \in Terminal
             /\ q \notin ps => setup'[q] = setup[q] /\ \A t \in Of(q) : pub'[t] = pub[t]
  <1>1. pub' = Terminalized(ps, kind) /\ setup' = TerminalSetup(ps, kind)
    BY DEF Terminalize
  <1>2. \A t \in Tasks : PlatformOf[t] \in ps => pub'[t] \in Terminal
    BY <1>1, TerminalizeEnds
  <1>3. \A t \in Tasks : PlatformOf[t] \notin ps => pub'[t] = pub[t]
    BY <1>1, TerminalizeEnds
  <1>4. \A q \in Platforms : q \in ps => setup'[q] \in Terminal
    BY <1>1, TerminalizeEnds
  <1>5. \A q \in Platforms : q \notin ps => setup'[q] = setup[q]
    BY <1>1, TerminalizeEnds
  <1>6. \A q \in Platforms : \A t \in Of(q) : t \in Tasks /\ PlatformOf[t] = q
    BY DEF Of
  <1>7. ASSUME NEW q \in Platforms, q \in ps
        PROVE  setup'[q] \in Terminal /\ \A t \in Of(q) : pub'[t] \in Terminal
    BY <1>2, <1>4, <1>6, <1>7
  <1>8. ASSUME NEW q \in Platforms, q \notin ps
        PROVE  setup'[q] = setup[q] /\ \A t \in Of(q) : pub'[t] = pub[t]
    BY <1>3, <1>5, <1>6, <1>8
  <1>. QED BY <1>7, <1>8

\* What was put off is a cancel or a death.
LEMMA DeferredKinds == ASSUME Board PROVE Deferred \in [Platforms -> Kind]
  BY DEF Board, Deferred, Kind

\* What is known of a run besides its boxes.
RunInv == Board /\ Said /\ Windows /\ SettledIsQuiet /\ TombIsDown /\ CancelIsWholeTruth

AllDeath == [q \in Platforms |-> "death"]

\* What the death of a lane may do: another life, or the end of its platform,
\* put off while a claim window is open.
LEMMA DiesCases ==
    ASSUME IInv, NEW p \in Platforms, lane[p].up, Dies(p)
    PROVE  /\ UNCHANGED <<starting, phase, refused, did, built, over>>
           /\ asking[p] = {}
           /\ \/ /\ \E left \in SUBSET Of(p) : left # {} /\ Resurrect(p, left)
                 /\ pub' = Freed({p}) /\ held' = Unheld({p})
              \/ /\ GiveUp(p)
                 /\ pub' \in {Terminalized({p}, AllDeath), Freed({p}), pub}
                 /\ windows[p] = 0 => pub' = Terminalized({p}, AllDeath)
                 /\ held' \in {Unheld({p}), held}
  <1>1. UNCHANGED <<starting, phase, refused, did, built, over>>
    BY DEF Dies
  <1>2. asking[p] = {}
    BY DEF IInv, ClaimsHaveNoLane
  <1>. DEFINE left == Unfinished(p, Freed({p}))
  <1>3. left \in SUBSET Of(p)
    BY DEF Unfinished
  <1>4. CASE left # {} /\ Resurrect(p, left) /\ pub' = Freed({p}) /\ held' = Unheld({p})
    <2>. HIDE DEF left
    <2>. QED BY <1>1, <1>2, <1>3, <1>4
  <1>5. CASE /\ GiveUp(p)
             /\ pub' = IF windows[p] = 0 THEN Terminalized({p}, AllDeath)
                       ELSE IF episode[p] < MaxResurrections THEN Freed({p}) ELSE pub
             /\ held' = IF windows[p] = 0 \/ episode[p] < MaxResurrections
                        THEN Unheld({p}) ELSE held
    BY <1>1, <1>2, <1>5
  <1>. QED BY <1>4, <1>5 DEF Dies, AllDeath

\* Every step that begins or answers a claim opens or closes its window.
LEMMA WindowsStep == ASSUME IInv, RunInv, Next PROVE Windows'
  <1>. USE DEF RunInv, Windows
  <1>1. CASE LaneStep
    BY <1>1 DEF LaneStep, SetupDone, Start, Exit, Skip, OnNodes, Release, claimVars
  <1>2. CASE StartupJudged
    BY <1>2 DEF StartupJudged, Closed
  <1>3. ASSUME NEW p \in Platforms, StartupClaimed(p) \/ StartupFails(p) PROVE Windows'
    BY <1>3 DEF StartupClaimed, StartupFails
  <1>4. ASSUME NEW p \in Platforms, ReclaimOk(p) \/ ReclaimFails(p) PROVE Windows'
    <2>1. Answered(p) /\ asking[p] # {}
      BY <1>4 DEF ReclaimOk, ReclaimFails, Answered
    <2>2. asking \in [Platforms -> SUBSET Tasks]
      BY DEF IInv, Shape
    <2>. QED BY <2>1, <2>2 DEF Answered
  <1>5. ASSUME NEW p \in Platforms, lane[p].up, Dies(p) PROVE Windows'
    <2>1. UNCHANGED <<starting, phase, refused>> /\ asking[p] = {}
      BY <1>5, DiesCases
    <2>2. asking \in [Platforms -> SUBSET Tasks]
      BY DEF IInv, Shape
    <2>3. ASSUME NEW left \in SUBSET Of(p), left # {}, Resurrect(p, left)
          PROVE  Windows'
      <3>1. \A q \in Platforms :
                /\ asking'[q] = IF q = p THEN left ELSE asking[q]
                /\ windows'[q] = IF q = p THEN windows[p] + 1 ELSE windows[q]
        BY <2>2, <2>3 DEF Resurrect
      <3>2. windows' \in [Platforms -> Nat]
        BY <2>3 DEF Resurrect
      <3>. QED BY <2>1, <2>3, <3>1, <3>2
    <2>4. CASE GiveUp(p)
      BY <2>1, <2>4 DEF GiveUp
    <2>. QED BY <1>5, <2>3, <2>4, DiesCases
  <1>6. ASSUME Running, NEW p \in Platforms, NEW e \in Episodes, LeaseLost(p, e)
        PROVE  Windows'
    <2>1. CASE UNCHANGED claimVars
      BY <2>1 DEF claimVars
    <2>2. CASE lane[p].up /\ Dies(p)
      BY <2>2, <1>5
    <2>. QED BY <1>6, <2>1, <2>2, LossOfALane DEF LeaseLost
  <1>7. CASE Shutdown \/ Stops \/ \E p \in Platforms : CancelPlatform(p)
    BY <1>7 DEF Shutdown, Stops, CancelPlatform, claimVars
  <1>. QED
    BY SMTT(60), <1>1, <1>2, <1>3, <1>4, <1>5, <1>6, <1>7
       DEF Next, Progress, Trouble, ClaimStep, Complete, StopWork, LinkBreaks

\* A settle is announced with every window closed; the run then opens none.
LEMMA SettledStep == ASSUME IInv, RunInv, Next PROVE SettledIsQuiet'
  <1>. USE DEF RunInv, SettledIsQuiet
  <1>1. CASE Shutdown \/ Complete \/ StopWork
    BY <1>1 DEF Shutdown, Complete, StopWork, Stops
  <1>2. ASSUME ~(settled /\ over = "no"), UNCHANGED over,
               CheckSettled \/ settled' = settled
        PROVE  SettledIsQuiet'
    <2>1. CASE settled' = settled
      BY <1>2, <2>1
    <2>2. CASE CheckSettled
      <3>1. settled' \in BOOLEAN
        BY <2>2 DEF CheckSettled
      <3>2. settled' => settled \/ \A p \in Platforms : windows'[p] = 0
        BY <2>2 DEF CheckSettled
      <3>. QED BY <1>2, <3>1, <3>2
    <2>. QED BY <1>2, <2>1, <2>2
  <1>3. CASE Running /\ LaneStep
    <2>1. UNCHANGED over /\ (CheckSettled \/ settled' = settled)
      BY <1>3 DEF LaneStep, SetupDone, Start, Exit, Skip, OnNodes, Release
    <2>. QED BY SMTT(60), <1>2, <1>3, <2>1 DEF Running
  <1>4. CASE Running /\ StartupJudged
    BY <1>2, <1>4 DEF StartupJudged, Running
  <1>5. CASE (Running \/ over = "yes") /\ ClaimStep
    <2>1. UNCHANGED over /\ (CheckSettled \/ settled' = settled)
      BY <1>5 DEF ClaimStep, StartupClaimed, StartupFails, ReclaimOk, ReclaimFails,
                  Answered, StopLate
    <2>. QED BY <1>2, <1>5, <2>1 DEF Running
  <1>6. ASSUME NEW p \in Platforms, Running, Dies(p) PROVE SettledIsQuiet'
    <2>1. UNCHANGED over /\ (CheckSettled \/ settled' = settled)
      BY <1>6 DEF Dies, Resurrect, GiveUp
    <2>. QED BY <1>2, <1>6, <2>1 DEF Running
  <1>7. ASSUME Running, NEW p \in Platforms, NEW e \in Episodes, LeaseLost(p, e)
        PROVE  SettledIsQuiet'
    BY <1>2, <1>6, <1>7 DEF LeaseLost, Running
  <1>8. ASSUME Running, NEW p \in Platforms, CancelPlatform(p) PROVE SettledIsQuiet'
    BY <1>2, <1>8 DEF CancelPlatform, Running
  <1>. QED
    BY <1>1, <1>3, <1>4, <1>5, <1>6, <1>7, <1>8 DEF Next, Progress, Trouble, LinkBreaks

\* A cancelled platform loses its lane and is given no other.
LEMMA TombStep == ASSUME IInv, RunInv, Next PROVE TombIsDown'
  <1>. USE DEF RunInv, TombIsDown
  <1>0. lane \in [Platforms -> Lane] /\ tomb \subseteq Platforms
    BY DEF IInv, Shape
  <1>1. CASE UNCHANGED <<tomb, lane>>
    BY <1>1
  <1>2. ASSUME NEW ps \in SUBSET Platforms, Cancel(ps) PROVE TombIsDown'
    BY <1>0, <1>2 DEF Cancel, NoLane
  <1>3. ASSUME NEW p \in Platforms, NEW tasks, p \notin tomb, UNCHANGED tomb,
               lane' = [lane EXCEPT ![p] = [up |-> TRUE, tasks |-> tasks]]
        PROVE  TombIsDown'
    BY SMTT(60), <1>0, <1>3
  <1>4. CASE LaneStep \/ Shutdown
    BY <1>1, <1>4 DEF LaneStep, SetupDone, Start, Exit, Skip, OnNodes, Release, Shutdown
  <1>5. CASE StartupJudged
    <2>1. CASE Cancel({p \in Platforms : built[p] > 0})
      BY <2>1, <1>2
    <2>. QED BY <1>5, <1>1, <2>1 DEF StartupJudged
  <1>6. ASSUME NEW p \in Platforms, StartupClaimed(p) \/ StartupFails(p) PROVE TombIsDown'
    BY <1>6, <1>1, <1>3 DEF StartupClaimed, StartupFails, Accept
  <1>7. ASSUME NEW p \in Platforms, ReclaimOk(p) PROVE TombIsDown'
    BY <1>7, <1>1, <1>3 DEF ReclaimOk, Accept
  <1>8. ASSUME NEW p \in Platforms, ReclaimFails(p) PROVE TombIsDown'
    BY <1>8, <1>1, <1>2 DEF ReclaimFails
  <1>9. ASSUME NEW p \in Platforms, lane[p].up, Dies(p) PROVE TombIsDown'
    <2>1. CASE \E left \in SUBSET Of(p) : left # {} /\ Resurrect(p, left)
      BY <1>0, <2>1 DEF Resurrect, NoLane
    <2>2. CASE GiveUp(p)
      BY <1>2, <2>2 DEF GiveUp
    <2>. QED BY <1>9, <2>1, <2>2, DiesCases
  <1>10. ASSUME Running, NEW p \in Platforms, NEW e \in Episodes, LeaseLost(p, e)
         PROVE  TombIsDown'
    <2>1. CASE lane[p].up /\ Dies(p)
      BY <2>1, <1>9
    <2>. QED BY <1>10, <1>1, <2>1, LossOfALane DEF LeaseLost
  <1>11. CASE \E p \in Platforms : CancelPlatform(p)
    BY <1>2, <1>11 DEF CancelPlatform
  <1>12. CASE Stops
    BY <1>0, <1>12 DEF Stops, NoLane
  <1>. QED
    BY <1>4, <1>5, <1>6, <1>7, <1>8, <1>9, <1>10, <1>11, <1>12
       DEF Next, Progress, Trouble, ClaimStep, Complete, StopWork, LinkBreaks

\* What lanes say stays typed, and a claim is for tasks of its platform.
LEMMA SaidStep == ASSUME IInv, RunInv, Next PROVE Said'
  <1>. USE DEF RunInv, Said
  <1>1. asking \in [Platforms -> SUBSET Tasks]
    BY DEF IInv, Shape
  <1>2. CASE UNCHANGED <<did, wire, asking>>
    BY <1>2 DEF Of
  <1>3. ASSUME NEW t \in Tasks, NEW st \in {"running"} \cup Terminal,
               did' = [did EXCEPT ![t] = st],
               wire' = [wire EXCEPT ![PlatformOf[t]] = Append(@, <<t, st>>)],
               UNCHANGED asking
        PROVE  Said'
    <2>1. PlatformOf[t] \in Platforms /\ t \in Of(PlatformOf[t])
      BY TaskAssumption DEF Of
    <2>2. did' \in [Tasks -> Status]
      BY <1>3 DEF Status
    <2>3. ASSUME NEW p \in Platforms
          PROVE  wire'[p] \in Seq(Of(p) \X ({"running"} \cup Terminal))
      <3>1. CASE p = PlatformOf[t]
        <4>1. <<t, st>> \in Of(p) \X ({"running"} \cup Terminal)
          BY <2>1, <3>1
        <4>2. wire'[p] = Append(wire[p], <<t, st>>)
          BY <1>3, <3>1
        <4>. QED BY <4>1, <4>2
      <3>. QED BY <1>3, <3>1
    <2>. QED BY <1>3, <2>2, <2>3
  <1>4. CASE LaneStep
    <2>1. ASSUME NEW t \in Tasks, Start(t) \/ Skip(t) PROVE Said'
      BY <2>1, <1>3 DEF Start, Skip, claimVars, Terminal, Bad
    <2>2. ASSUME NEW t \in Tasks, NEW st \in {"ok", "failed"}, Exit(t, st) PROVE Said'
      BY <2>2, <1>3 DEF Exit, claimVars, Terminal, Bad
    <2>3. ASSUME NEW p \in Platforms, NEW hold \in BOOLEAN, OnNodes(p, hold) PROVE Said'
      <3>1. Tail(wire[p]) \in Seq(Of(p) \X ({"running"} \cup Terminal))
        BY <2>3 DEF OnNodes
      <3>. QED BY <2>3, <3>1 DEF OnNodes, claimVars
    <2>4. CASE (\E p \in Platforms : SetupDone(p)) \/ (\E t \in Tasks : Release(t))
      BY <2>4, <1>2 DEF SetupDone, Release, claimVars
    <2>. QED BY <1>4, <2>1, <2>2, <2>3, <2>4 DEF LaneStep
  <1>5. ASSUME DOMAIN wire' = Platforms,
               \A p \in Platforms : wire'[p] \in {wire[p], <<>>} /\ asking'[p] \subseteq Of(p),
               did' \in [Tasks -> Status]
        PROVE  Said'
    <2>1. ASSUME NEW p \in Platforms
          PROVE  wire'[p] \in Seq(Of(p) \X ({"running"} \cup Terminal))
      <3>1. CASE wire'[p] = <<>>
        BY <3>1
      <3>. QED BY <1>5, <3>1
    <2>. QED BY <1>5, <2>1
  <1>6. ASSUME NEW ps \in SUBSET Platforms, Cancel(ps), UNCHANGED did,
               \A p \in Platforms : asking'[p] \subseteq Of(p)
        PROVE  Said'
    BY <1>5, <1>6 DEF Cancel
  <1>7. CASE StartupJudged
    <2>1. CASE Cancel({p \in Platforms : built[p] > 0})
      BY <2>1, <1>6, <1>7 DEF StartupJudged
    <2>. QED BY <1>2, <1>7, <2>1 DEF StartupJudged
  <1>8. ASSUME NEW p \in Platforms, StartupClaimed(p) \/ StartupFails(p) PROVE Said'
    BY <1>8 DEF StartupClaimed, StartupFails, Accept, Status
  <1>9. ASSUME NEW p \in Platforms, ReclaimOk(p) \/ ReclaimFails(p) PROVE Said'
    <2>1. \A q \in Platforms : asking'[q] \subseteq Of(q)
      BY <1>1, <1>9 DEF ReclaimOk, ReclaimFails, Answered
    <2>2. CASE wire' = wire
      BY <1>9, <2>1, <2>2 DEF ReclaimOk, ReclaimFails, Accept, Status
    <2>3. CASE Cancel({p}) /\ UNCHANGED did
      BY <1>6, <2>1, <2>3
    <2>. QED BY <1>9, <2>2, <2>3 DEF ReclaimOk, ReclaimFails
  <1>10. ASSUME NEW p \in Platforms, lane[p].up, Dies(p) PROVE Said'
    <2>1. UNCHANGED did
      BY <1>10, DiesCases
    <2>2. ASSUME NEW left \in SUBSET Of(p), Resurrect(p, left) PROVE Said'
      <3>1. \A q \in Platforms : asking'[q] \subseteq Of(q) /\ wire'[q] \in {wire[q], <<>>}
        BY <1>1, <2>2 DEF Resurrect
      <3>2. DOMAIN wire' = Platforms
        BY <2>2 DEF Resurrect
      <3>. QED BY <1>5, <2>1, <3>1, <3>2
    <2>3. CASE GiveUp(p)
      BY <1>6, <2>1, <2>3 DEF GiveUp
    <2>. QED BY <1>10, <2>2, <2>3, DiesCases
  <1>11. ASSUME Running, NEW p \in Platforms, NEW e \in Episodes, LeaseLost(p, e)
         PROVE  Said'
    <2>1. CASE lane[p].up /\ Dies(p)
      BY <2>1, <1>10
    <2>. QED BY <1>2, <1>11, <2>1, LossOfALane DEF LeaseLost, claimVars
  <1>12. ASSUME NEW p \in Platforms, CancelPlatform(p) PROVE Said'
    BY <1>6, <1>12 DEF CancelPlatform, claimVars
  <1>13. CASE Shutdown
    BY <1>2, <1>13 DEF Shutdown, claimVars
  <1>14. CASE Stops
    BY <1>5, <1>14 DEF Stops, claimVars
  <1>. QED
    BY <1>4, <1>7, <1>8, <1>9, <1>10, <1>11, <1>12, <1>13, <1>14
       DEF Next, Progress, Trouble, ClaimStep, Complete, StopWork, LinkBreaks

\* The statuses stay typed, and whatever stops a platform, puts the stop off or
\* answers its claim, its nodes have ended once its windows have closed.
LEMMA TruthStep == ASSUME IInv, RunInv, Next PROVE Board' /\ CancelIsWholeTruth'
  <1>. DEFINE Goal == Board' /\ CancelIsWholeTruth'
  <1>. USE DEF RunInv
  <1>0. tomb \subseteq Platforms /\ asking \in [Platforms -> SUBSET Tasks]
    BY DEF IInv, Shape
  <1>1. ASSUME UNCHANGED <<pub, held, setup, over>>,
               stop' \in [Platforms -> {"none"} \cup Kind],
               \A q \in tomb' : windows'[q] = 0 => q \in tomb /\ windows[q] = 0
        PROVE  Goal
    BY <1>1 DEF Board, CancelIsWholeTruth
  <1>2. ASSUME Board', over' # "no" PROVE Goal
    BY <1>2 DEF CancelIsWholeTruth
  <1>3. ASSUME NEW ps \in SUBSET Platforms, NEW kind \in [Platforms -> Kind],
               Terminalize(ps, kind), UNCHANGED <<stop, over>>, tomb' \subseteq Platforms,
               \A q \in tomb' \ ps : q \in tomb /\ (windows'[q] = 0 => windows[q] = 0)
        PROVE  Goal
    <2>1. Board'
      BY <1>3, TerminalizeEnds, FreedStatuses DEF Terminalize, Board
    <2>2. \A q \in Platforms :
            /\ q \in ps => setup'[q] \in Terminal /\ \A t \in Of(q) : pub'[t] \in Terminal
            /\ q \notin ps => setup'[q] = setup[q] /\ \A t \in Of(q) : pub'[t] = pub[t]
      BY <1>3, StoppedEnd
    <2>3. CancelIsWholeTruth'
      BY <1>3, <2>2 DEF CancelIsWholeTruth, Of
    <2>. QED BY <2>1, <2>3
  <1>4. ASSUME LaneStep PROVE Goal
    <2>1. ASSUME NEW p \in Platforms, SetupDone(p) PROVE Goal
      BY <2>1 DEF SetupDone, Board, CancelIsWholeTruth, Terminal, claimVars, Of
    <2>2. ASSUME NEW t \in Tasks, Release(t) PROVE Goal
      BY <2>2 DEF Release, Board, Status, CancelIsWholeTruth, claimVars, Of
    <2>3. ASSUME NEW p \in Platforms, NEW hold \in BOOLEAN, OnNodes(p, hold) PROVE Goal
      <3>. DEFINE t == Head(wire[p])[1]
                  st == Head(wire[p])[2]
      <3>1. t \in Of(p) /\ st \in {"running"} \cup Terminal
        <4>1. /\ wire[p] \in Seq(Of(p) \X ({"running"} \cup Terminal))
              /\ wire[p] # <<>>
          BY <2>3 DEF OnNodes, Said
        <4>2. Head(wire[p]) \in Of(p) \X ({"running"} \cup Terminal)
          BY <4>1
        <4>. QED BY <4>2
      <3>2. /\ UNCHANGED <<setup, stop, tomb, windows, over>>
            /\ \/ pub' = pub /\ held' = [held EXCEPT ![t] = st] /\ st \in Terminal
               \/ held' = held /\ pub' = [pub EXCEPT ![t] = st]
        BY <2>3 DEF OnNodes, claimVars
      <3>3. p \notin tomb
        BY <2>3 DEF OnNodes, TombIsDown
      <3>. HIDE DEF t, st
      <3>4. Board'
        BY <3>1, <3>2 DEF Board, Status, Of
      <3>5. CancelIsWholeTruth'
        BY <3>1, <3>2, <3>3 DEF CancelIsWholeTruth, Board, Of
      <3>. QED BY <3>4, <3>5
    <2>4. CASE \E t \in Tasks : Start(t) \/ Skip(t) \/ \E st \in {"ok", "failed"} : Exit(t, st)
      BY <1>1, <2>4 DEF Start, Skip, Exit, Board, nodeVars, claimVars
    <2>. QED BY <1>4, <2>1, <2>2, <2>3, <2>4 DEF LaneStep
  <1>5. ASSUME StartupJudged PROVE Goal
    <2>. DEFINE kind == [p \in Platforms |-> IF p \in tomb THEN Deferred[p] ELSE "death"]
    <2>1. Deferred \in [Platforms -> Kind] /\ kind \in [Platforms -> Kind]
      BY DeferredKinds DEF Kind
    <2>2. CASE over # "no"
      BY <1>2, <1>5, <2>2 DEF StartupJudged, nodeVars, Board
    <2>3. CASE refused /\ over = "no"
      <3>1. tomb' \subseteq Platforms
        BY <1>0, <1>5, <2>3 DEF StartupJudged, Cancel
      <3>. HIDE DEF kind
      <3>2. Terminalize(Platforms, kind)
        BY <1>5, <2>3 DEF StartupJudged, kind
      <3>. QED BY <1>3, <1>5, <2>1, <3>1, <3>2 DEF StartupJudged
    <2>4. CASE ~refused /\ over = "no"
      BY <1>0, <1>3, <1>5, <2>1, <2>4 DEF StartupJudged
    <2>. QED BY <2>2, <2>3, <2>4
  <1>6. ASSUME NEW p \in Platforms, StartupClaimed(p) \/ StartupFails(p) PROVE Goal
    BY <1>1, <1>6 DEF StartupClaimed, StartupFails, Board, nodeVars
  <1>7. ASSUME NEW p \in Platforms, StopLate(p), Answered(p), UNCHANGED tomb PROVE Goal
    <2>1. Terminalize({p}, Deferred) /\ Deferred \in [Platforms -> Kind]
      BY <1>7, DeferredKinds DEF StopLate
    <2>2. UNCHANGED <<stop, over>>
      BY <1>7 DEF Answered
    <2>3. \A q \in tomb' \ {p} : q \in tomb /\ windows'[q] = windows[q]
      BY <1>0, <1>7 DEF Answered, Windows
    <2>. QED BY <1>0, <1>3, <1>7, <2>1, <2>2, <2>3
  <1>8. ASSUME NEW p \in Platforms, ReclaimOk(p) PROVE Goal
    <2>1. CASE over # "no"
      BY <1>2, <1>8, <2>1 DEF ReclaimOk, Answered, nodeVars, Board
    <2>2. CASE over = "no" /\ p \in tomb
      BY <1>7, <1>8, <2>2 DEF ReclaimOk
    <2>3. CASE over = "no" /\ p \notin tomb
      <3>1. /\ pub' = [t \in Tasks |-> IF t \in asking[p] THEN "pending" ELSE pub[t]]
            /\ UNCHANGED <<held, setup, stop, tomb, over>>
            /\ \A q \in Platforms \ {p} : windows'[q] = windows[q]
        BY <1>8, <2>3 DEF ReclaimOk, Answered, Windows
      <3>2. Board'
        BY <3>1 DEF Board, Status
      <3>3. asking[p] \subseteq Of(p)
        BY DEF Said
      <3>4. CancelIsWholeTruth'
        BY <1>0, <2>3, <3>1, <3>3 DEF CancelIsWholeTruth, Of
      <3>. QED BY <3>2, <3>4
    <2>. QED BY <2>1, <2>2, <2>3
  <1>9. ASSUME NEW p \in Platforms, ReclaimFails(p) PROVE Goal
    <2>1. CASE over # "no"
      BY <1>2, <1>9, <2>1 DEF ReclaimFails, Answered, nodeVars, Board
    <2>2. CASE over = "no" /\ p \in tomb
      BY <1>7, <1>9, <2>2 DEF ReclaimFails
    <2>3. CASE over = "no" /\ p \notin tomb
      <3>1. /\ Terminalize({p}, AllDeath) /\ AllDeath \in [Platforms -> Kind]
            /\ tomb' = tomb \cup {p} /\ UNCHANGED <<stop, over>>
            /\ \A q \in Platforms \ {p} : windows'[q] = windows[q]
        BY <1>9, <2>3
           DEF ReclaimFails, Answered, Cancel, AllDeath, Kind, Windows
      <3>. QED BY <1>0, <1>3, <3>1
    <2>. QED BY <2>1, <2>2, <2>3
  <1>10. ASSUME NEW p \in Platforms, lane[p].up, Dies(p) PROVE Goal
    <2>1. p \notin tomb /\ UNCHANGED over
      BY <1>10, DiesCases DEF TombIsDown
    <2>2. AllDeath \in [Platforms -> Kind]
      BY DEF AllDeath, Kind
    <2>3. /\ pub' \in [Tasks -> Status] /\ held' \in [Tasks -> {"none"} \cup Terminal]
          /\ \A t \in Tasks : PlatformOf[t] # p => pub'[t] = pub[t]
      <3>. DEFINE T == Terminalized({p}, AllDeath)
                  F == Freed({p})
                  U == Unheld({p})
      <3>1. T \in [Tasks -> Status] /\ \A t \in Tasks : PlatformOf[t] # p => T[t] = pub[t]
        BY <2>2, TerminalizeEnds
      <3>2. /\ F \in [Tasks -> Status] /\ U \in [Tasks -> {"none"} \cup Terminal]
            /\ \A t \in Tasks : PlatformOf[t] # p => F[t] = pub[t]
        BY DEF Freed, Unheld, Board, Status
      <3>3. pub' \in {F, T, pub} /\ held' \in {U, held}
        BY <1>10, DiesCases
      <3>. HIDE DEF T, F, U
      <3>. QED BY <3>1, <3>2, <3>3 DEF Board
    <2>4. ASSUME NEW left \in SUBSET Of(p), Resurrect(p, left) PROVE Goal
      <3>1. /\ setup' = [setup EXCEPT ![p] = "running"]
            /\ UNCHANGED <<tomb, stop>>
            /\ \A q \in Platforms \ {p} : windows'[q] = windows[q]
        BY <2>4 DEF Resurrect, Windows
      <3>2. Board'
        BY <2>3, <3>1 DEF Board
      <3>3. CancelIsWholeTruth'
        BY <1>0, <2>1, <2>3, <3>1 DEF CancelIsWholeTruth, Board, Of
      <3>. QED BY <3>2, <3>3
    <2>5. CASE GiveUp(p) /\ windows[p] = 0 /\ pub' = Terminalized({p}, AllDeath)
      <3>1. /\ setup' = TerminalSetup({p}, AllDeath)
            /\ tomb' = tomb \cup {p} /\ UNCHANGED <<stop, windows>>
        BY <2>5 DEF GiveUp, Cancel, AllDeath
      <3>2. /\ setup' \in [Platforms -> {"running"} \cup Terminal]
            /\ setup'[p] \in Terminal
            /\ \A q \in Platforms : q # p => setup'[q] = setup[q]
        BY <2>2, <3>1, TerminalizeEnds
      <3>3. \A t \in Of(p) : pub'[t] \in Terminal
        BY <2>2, <2>5, TerminalizeEnds DEF Of
      <3>4. Board'
        BY <2>3, <3>1, <3>2 DEF Board
      <3>5. CancelIsWholeTruth'
        BY <1>0, <2>1, <2>3, <3>1, <3>2, <3>3 DEF CancelIsWholeTruth, Of
      <3>. QED BY <3>4, <3>5
    <2>6. CASE GiveUp(p) /\ windows[p] # 0
      <3>1. /\ stop' = [stop EXCEPT ![p] = "death"]
            /\ tomb' = tomb \cup {p} /\ UNCHANGED <<setup, windows>>
        BY <2>6 DEF GiveUp, Cancel, Windows
      <3>2. Board'
        BY <2>3, <3>1 DEF Board, Kind
      <3>3. CancelIsWholeTruth'
        BY <1>0, <2>1, <2>3, <2>6, <3>1 DEF CancelIsWholeTruth, Of
      <3>. QED BY <3>2, <3>3
    <2>. QED BY <1>10, <2>4, <2>5, <2>6, DiesCases
  <1>11. ASSUME Running, NEW p \in Platforms, NEW e \in Episodes, LeaseLost(p, e)
         PROVE  Goal
    <2>1. CASE lane[p].up /\ Dies(p)
      BY <2>1, <1>10
    <2>2. CASE UNCHANGED <<claimVars, tomb, stop, nodeVars, over>>
      BY <1>1, <2>2 DEF claimVars, nodeVars, Board
    <2>. QED BY <1>11, <2>1, <2>2, LossOfALane DEF LeaseLost
  <1>12. ASSUME NEW p \in Platforms, CancelPlatform(p) PROVE Goal
    <2>1. tomb' = tomb \cup {p} /\ UNCHANGED <<windows, over>>
      BY <1>12 DEF CancelPlatform, Cancel, claimVars
    <2>2. CASE windows[p] > 0
      <3>1. /\ stop' = [stop EXCEPT ![p] = "cancel"] /\ UNCHANGED <<pub, held, setup>>
        BY <1>12, <2>2 DEF CancelPlatform, nodeVars
      <3>2. stop' \in [Platforms -> {"none"} \cup Kind]
        BY <3>1 DEF Board, Kind
      <3>. QED BY <1>1, <2>1, <2>2, <3>1, <3>2
    <2>3. CASE ~(windows[p] > 0)
      BY <1>0, <1>3, <1>12, <2>1, <2>3, DeferredKinds DEF CancelPlatform
    <2>. QED BY <2>2, <2>3
  <1>13. ASSUME Shutdown PROVE Goal
    <2>1. Freed(Platforms) \in [Tasks -> Status]
          /\ Unheld(Platforms) \in [Tasks -> {"none"} \cup Terminal]
      BY FreedStatuses
    <2>. QED BY <1>2, <1>13, <2>1 DEF Shutdown, Board
  <1>14. ASSUME Stops PROVE Goal
    BY <1>2, <1>14 DEF Stops, Board, nodeVars
  <1>. HIDE DEF Goal
  <1>15. ASSUME Progress PROVE Goal
    BY <1>4, <1>5, <1>6, <1>8, <1>9, <1>14, <1>15
       DEF Progress, ClaimStep, Complete, StopWork
  <1>16. ASSUME Running, Trouble PROVE Goal
    BY <1>10, <1>11, <1>12, <1>13, <1>16 DEF Trouble, LinkBreaks
  <1>17. Goal
    BY <1>15, <1>16 DEF Next
  <1>. QED BY <1>17 DEF Goal

\* A platform has had a lane for each of its lives, less the one it is acquiring.
Built ==
    \A p \in Platforms :
        /\ built[p] <= episode[p] + 1
        /\ p \in starting \/ asking[p] # {} => built[p] <= episode[p]

\* A lane is built for a claim only, and a claim is for a new life.
LEMMA BuiltStep == ASSUME IInv, Built, [Next]_vars PROVE Built'
  <1>. USE DEF Built
  <1>0. /\ built \in [Platforms -> Nat] /\ asking \in [Platforms -> SUBSET Tasks]
        /\ episode \in [Platforms -> Nat]
    BY DEF IInv, Shape, Episodes
  <1>1. ASSUME UNCHANGED <<built, episode>>,
               \A q \in Platforms : (q \in starting' => q \in starting)
                                    /\ (asking'[q] # {} => asking[q] # {})
        PROVE  Built'
    BY <1>1
  <1>2. ASSUME NEW p \in Platforms, NEW tasks, Accept(p, tasks),
               p \in starting \/ asking[p] # {}, p \notin starting', asking'[p] = {},
               \A q \in Platforms \ {p} : (q \in starting' => q \in starting)
                                          /\ (asking'[q] # {} => asking[q] # {}),
               UNCHANGED episode
        PROVE  Built'
    BY <1>0, <1>2 DEF Accept
  <1>3. CASE UNCHANGED <<built, episode, starting, asking>>
    BY SMTT(60), <1>1, <1>3
  <1>4. CASE LaneStep \/ StartupJudged \/ Shutdown \/ Stops \/ UNCHANGED vars
    BY <1>3, <1>4
       DEF LaneStep, SetupDone, Start, Exit, Skip, OnNodes, Release, StartupJudged,
           Shutdown, Stops, claimVars, vars
  <1>5. ASSUME NEW p \in Platforms, CancelPlatform(p) PROVE Built'
    BY <1>3, <1>5 DEF CancelPlatform, claimVars
  <1>6. ASSUME NEW p \in Platforms, StartupClaimed(p) PROVE Built'
    <2>1. p \in starting /\ asking[p] = {}
      BY <1>6 DEF StartupClaimed, IInv, ClaimsHaveNoLane
    <2>. QED BY <1>1, <1>2, <1>6, <2>1 DEF StartupClaimed
  <1>7. ASSUME NEW p \in Platforms, StartupFails(p) PROVE Built'
    BY <1>1, <1>7 DEF StartupFails
  <1>8. ASSUME NEW p \in Platforms, ReclaimOk(p) \/ ReclaimFails(p) PROVE Built'
    <2>1. /\ p \notin starting /\ asking[p] # {} /\ UNCHANGED <<starting, episode>>
          /\ \A q \in Platforms : asking'[q] = IF q = p THEN {} ELSE asking[q]
      BY <1>0, <1>8 DEF ReclaimOk, ReclaimFails, Answered, IInv, ClaimsHaveNoLane
    <2>2. CASE built' = built
      BY <1>1, <2>1, <2>2
    <2>. QED BY <1>2, <1>8, <2>1, <2>2 DEF ReclaimOk, ReclaimFails
  <1>9. ASSUME NEW p \in Platforms, lane[p].up, Dies(p) PROVE Built'
    <2>1. UNCHANGED <<starting, built>> /\ p \notin starting
      BY <1>9, DiesCases DEF IInv, ClaimsHaveNoLane
    <2>2. ASSUME NEW left \in SUBSET Of(p), Resurrect(p, left) PROVE Built'
      <3>1. \A q \in Platforms :
                /\ episode'[q] = IF q = p THEN episode[p] + 1 ELSE episode[q]
                /\ q # p => asking'[q] = asking[q]
        BY <1>0, <2>2 DEF Resurrect
      <3>. QED BY <1>0, <2>1, <3>1
    <2>3. CASE GiveUp(p)
      BY <1>3, <2>1, <2>3 DEF GiveUp
    <2>. QED BY <1>9, <2>2, <2>3, DiesCases
  <1>10. ASSUME Running, NEW p \in Platforms, NEW e \in Episodes, LeaseLost(p, e)
         PROVE  Built'
    <2>1. CASE lane[p].up /\ Dies(p)
      BY <2>1, <1>9
    <2>. QED BY <1>3, <1>10, <2>1, LossOfALane DEF LeaseLost, claimVars
  <1>. QED
    BY <1>4, <1>5, <1>6, <1>7, <1>8, <1>9, <1>10
       DEF Next, Progress, Trouble, ClaimStep, Complete, StopWork, LinkBreaks

\* It is known of the first state, and every step keeps it.
LEMMA InitRunInv == ASSUME Init PROVE RunInv /\ Built
  <1>1. Board
    BY DEF Init, Board, Status
  <1>2. Windows
    <2>1. phase = "claiming" /\ starting = Platforms /\ refused = FALSE
      BY DEF Init
    <2>2. windows \in [Platforms -> Nat]
      BY DEF Init
    <2>3. ASSUME NEW p \in Platforms
          PROVE  windows[p] = (IF phase = "claiming" THEN 1 ELSE 0)
                              + (IF asking[p] # {} THEN 1 ELSE 0)
      <3>1. windows[p] = 1 /\ asking[p] = {}
        BY DEF Init
      <3>. QED BY <2>1, <3>1
    <2>. QED BY <2>1, <2>2, <2>3 DEF Windows
  <1>3. Built
    <2>1. ASSUME NEW p \in Platforms PROVE built[p] <= episode[p] /\ built[p] <= episode[p] + 1
      <3>1. built[p] = 0 /\ episode[p] = 0
        BY DEF Init
      <3>. QED BY <3>1
    <2>. QED BY <2>1 DEF Built
  <1>4. Said
    BY DEF Init, Said, Status
  <1>5. SettledIsQuiet /\ TombIsDown /\ CancelIsWholeTruth
    BY DEF Init, SettledIsQuiet, TombIsDown, CancelIsWholeTruth
  <1>. QED BY <1>1, <1>2, <1>3, <1>4, <1>5 DEF RunInv

LEMMA NextRunInv == ASSUME IInv, RunInv, [Next]_vars PROVE RunInv'
  <1>1. CASE Next
    BY <1>1, WindowsStep, SettledStep, TombStep, SaidStep, TruthStep DEF RunInv
  <1>2. CASE UNCHANGED vars
    BY <1>2 DEF vars, claimVars, nodeVars, boxVars, RunInv, Board, Said, Windows, SettledIsQuiet,
                TombIsDown, CancelIsWholeTruth, Of
  <1>. QED BY <1>1, <1>2

\* For any platforms, tasks and budget what is known holds in every state.
THEOREM Knowledge == Spec => [](IInv /\ RunInv /\ Built)
  <1>1. Init => IInv /\ RunInv /\ Built
    BY InitIInv, InitRunInv
  <1>2. (IInv /\ RunInv /\ Built) /\ [Next]_vars => (IInv /\ RunInv /\ Built)'
    BY NextIInv, NextRunInv, BuiltStep
  <1>. QED BY <1>1, <1>2, PTL DEF Spec

\* A run never announces its settle while a box is being acquired, whichever of
\* its platforms' claims and deaths race (claimsInFlight, checkSettled).
THEOREM SettleAwaitsClaims == Spec => []NoSettleMidClaim
  <1>1. RunInv => NoSettleMidClaim
    <2>. SUFFICES ASSUME RunInv, settled, over = "no"
                  PROVE  starting = {} /\ \A p \in Platforms : asking[p] = {}
      BY DEF NoSettleMidClaim
    <2>1. \A p \in Platforms : windows[p] = 0
      BY DEF RunInv, SettledIsQuiet
    <2>2. ASSUME NEW p \in Platforms PROVE phase # "claiming" /\ asking[p] = {}
      <3>1. 0 = (IF phase = "claiming" THEN 1 ELSE 0) + (IF asking[p] # {} THEN 1 ELSE 0)
        BY <2>1 DEF RunInv, Windows
      <3>. QED BY <3>1
    <2>3. starting = {}
      BY <2>2 DEF RunInv, Windows
    <2>. QED BY <2>2, <2>3
  <1>. QED BY <1>1, Knowledge, PTL

\* Once no claim window of a cancelled platform is open its every node is
\* terminal, whichever way its stop was put off (deferredPlatformStops).
THEOREM CancelsEnd == Spec => []CancelIsWholeTruth
  <1>1. RunInv => CancelIsWholeTruth
    BY DEF RunInv
  <1>. QED BY <1>1, Knowledge, PTL

\* Every reachable state is typed; no platform has more than two windows open.
THEOREM TypeCorrect == Spec => []TypeOK
  <1>1. IInv /\ RunInv /\ Built => TypeOK
    <2>. SUFFICES ASSUME IInv, RunInv, Built PROVE TypeOK
      OBVIOUS
    <2>1. windows \in [Platforms -> 0 .. 2]
      BY DEF RunInv, Windows
    <2>2. built \in [Platforms -> 0 .. MaxResurrections + 1]
      <3>1. ASSUME NEW p \in Platforms
            PROVE  built[p] \in Nat /\ built[p] <= MaxResurrections + 1
        <4>1. episode[p] \in 0 .. MaxResurrections /\ built[p] \in Nat
          BY DEF IInv, Shape, Episodes
        <4>2. built[p] <= episode[p] + 1
          BY DEF Built
        <4>. QED BY <4>1, <4>2, BudgetAssumption
      <3>. QED BY <3>1, BudgetAssumption DEF IInv, Shape
    <2>3. \A p \in Platforms : \A i \in DOMAIN wire[p] : wire[p][i][1] \in Of(p)
      <3>. SUFFICES ASSUME NEW p \in Platforms, NEW i \in DOMAIN wire[p]
                    PROVE  wire[p][i][1] \in Of(p)
        OBVIOUS
      <3>1. wire[p] \in Seq(Of(p) \X ({"running"} \cup Terminal))
        BY DEF RunInv, Said
      <3>2. wire[p][i] \in Of(p) \X ({"running"} \cup Terminal)
        BY <3>1
      <3>. QED BY <3>2
    <2>4. /\ pub \in [Tasks -> Status] /\ held \in [Tasks -> {"none"} \cup Terminal]
          /\ did \in [Tasks -> Status] /\ setup \in [Platforms -> {"running"} \cup Terminal]
          /\ stop \in [Platforms -> {"none", "cancel", "death"}]
      BY DEF RunInv, Board, Said, Kind
    <2>. QED
      BY <2>1, <2>2, <2>3, <2>4
         DEF TypeOK, Status, RunInv, Windows, SettledIsQuiet, IInv, Shape, Lane, LeaseState
  <1>. QED BY <1>1, Knowledge, PTL

-----------------------------------------------------------------------------
(* Verdicts and retries: what has been heard of a task is final, and what    *)
(* runs again has its needs met.                                             *)

\* Nothing final has been heard of t.
Open(t) == pub[t] \notin Terminal /\ held[t] = "none"

\* A verdict is held or published, not both.
HeldIsUnsaid == \A t \in Tasks : held[t] # "none" => pub[t] \notin Terminal

LaneTasks ==
    \A p \in Platforms : /\ lane[p].tasks \subseteq Of(p)
                         /\ ~lane[p].up => lane[p].tasks = {}

\* What is on the wire is news: nothing follows a verdict, which is the lane's
\* own, and nothing is said of a task whose verdict was heard.
WireIsNews ==
    \A p \in Platforms : \A i \in DOMAIN wire[p] : \A t \in Tasks : wire[p][i][1] = t =>
        /\ t \in lane[p].tasks /\ Open(t)
        /\ \/ did[t] = "running" /\ wire[p][i][2] = "running"
           \/ /\ did[t] \in Terminal
              /\ wire[p][i][2] \in Terminal =>
                    \A j \in DOMAIN wire[p] : j > i => wire[p][j][1] # t

\* A lane's verdict comes before the coordinator's.
LaneIsFirst ==
    \A p \in Platforms : \A t \in lane[p].tasks : did[t] \notin Terminal => Open(t)

\* A claim that is still wanted is for tasks without a verdict.
AskedIsOpen ==
    \A p \in Platforms \ tomb : \A t \in Of(p) : p \in starting \/ t \in asking[p] => Open(t)

\* A reclaim is for another life than the first.
ClaimIsALife == \A p \in Platforms : asking[p] # {} => episode[p] > 0

HeardInv ==
    HeldIsUnsaid /\ LaneTasks /\ WireIsNews /\ LaneIsFirst /\ AskedIsOpen /\ ClaimIsALife

-----------------------------------------------------------------------------
(* What a step does to a task's status and to the verdict held for it        *)

SameTask(t) == pub'[t] = pub[t] /\ held'[t] = held[t]
FreedTask(t) ==
    held'[t] = "none" /\ pub'[t] = IF held[t] # "none" THEN held[t] ELSE pub[t]
EndedTask(t) ==
    /\ held'[t] = "none" /\ pub'[t] \in Terminal
    /\ held[t] # "none" => pub'[t] = held[t]
    /\ held[t] = "none" /\ pub[t] \in Terminal => pub'[t] = pub[t]

\* Nobody will run the tasks of p again.
Gone(p) ==
    p \in tomb \/ (~lane[p].up /\ p \notin starting /\ asking[p] = {})

\* Letting go of a verdict, or stopping its platform, keeps it.
LEMMA FreedTasks ==
    ASSUME NEW ps \in SUBSET Platforms, NEW t \in Tasks,
           pub' = Freed(ps), held' = Unheld(ps)
    PROVE  FreedTask(t) \/ SameTask(t)
  BY DEF Freed, Unheld, FreedTask, SameTask

LEMMA EndedTasks ==
    ASSUME Board, NEW ps \in SUBSET Platforms, NEW kind \in [Platforms -> Kind], NEW t \in Tasks,
           pub' = Terminalized(ps, kind), held' = Unheld(ps)
    PROVE  SameTask(t) \/ (PlatformOf[t] \in ps /\ EndedTask(t))
  <1>1. CASE PlatformOf[t] \notin ps
    BY <1>1 DEF Terminalized, Unheld, SameTask
  <1>2. CASE PlatformOf[t] \in ps
    <2>1. /\ Freed(ps)[t] = IF held[t] # "none" THEN held[t] ELSE pub[t]
          /\ pub'[t] = Overlay(kind[PlatformOf[t]], Freed(ps)[t])
          /\ held'[t] = "none"
      BY <1>2 DEF Freed, Unheld, Terminalized
    <2>2. pub'[t] \in Terminal
      BY <1>2, TerminalizeEnds
    <2>3. ASSUME NEW k, NEW s \in Terminal PROVE Overlay(k, s) = s
      BY <2>3 DEF Overlay, Terminal, Bad
    <2>4. held[t] # "none" => held[t] \in Terminal
      BY DEF Board
    <2>. QED BY <1>2, <2>1, <2>2, <2>3, <2>4 DEF EndedTask
  <1>. QED BY <1>1, <1>2

\* A step that hears nothing from a lane and reopens nothing ends the tasks of
\* platforms nobody will run again, and lets go of held verdicts.
Still == \A t \in Tasks : SameTask(t) \/ FreedTask(t) \/ (EndedTask(t) /\ Gone(PlatformOf[t])')

LEMMA DeathIsKind == AllDeath \in [Platforms -> Kind]
  BY DEF AllDeath, Kind

LEMMA StartupStill == ASSUME IInv, RunInv, HeardInv, StartupJudged PROVE Still
  <1>. USE DEF RunInv
  <1>1. ASSUME UNCHANGED nodeVars PROVE Still
    BY <1>1 DEF nodeVars, Still, SameTask
  <1>2. CASE over = "no" /\ refused
    <2>. PICK kind : kind = [p \in Platforms |-> IF p \in tomb THEN Deferred[p] ELSE "death"]
      OBVIOUS
    <2>1. kind \in [Platforms -> Kind]
      BY DeferredKinds DEF Kind
    <2>2. pub' = Terminalized(Platforms, kind) /\ held' = Unheld(Platforms)
      BY <1>2 DEF StartupJudged, Terminalize
    <2>3. ASSUME NEW p \in Platforms PROVE Gone(p)'
      <3>1. /\ starting' = {} /\ asking' = asking
            /\ tomb' = tomb \cup {q \in Platforms : built[q] > 0}
            /\ lane' = [q \in Platforms |-> IF q \in {r \in Platforms : built[r] > 0}
                                           THEN NoLane ELSE lane[q]]
        BY <1>2 DEF StartupJudged, Cancel
      <3>2. CASE built[p] > 0
        BY <3>1, <3>2 DEF Gone
      <3>3. CASE ~(built[p] > 0)
        <4>1. built[p] = 0 /\ episode[p] \in Nat
          BY <3>3 DEF IInv, Shape, Episodes
        <4>2. ~lane[p].up /\ ~(episode[p] > 0)
          BY <4>1 DEF IInv, LaneIsCounted
        <4>3. asking[p] = {}
          BY <4>2 DEF HeardInv, ClaimIsALife
        <4>. QED BY <3>1, <3>3, <4>2, <4>3 DEF Gone
      <3>. QED BY <3>2, <3>3
    <2>. QED BY <2>1, <2>2, <2>3, EndedTasks, TaskAssumption DEF Still
  <1>3. CASE over = "no" /\ ~refused
    <2>1. pub' = Terminalized(tomb, Deferred) /\ held' = Unheld(tomb) /\ tomb' = tomb
      BY <1>3 DEF StartupJudged, Terminalize
    <2>2. tomb \in SUBSET Platforms /\ Deferred \in [Platforms -> Kind]
      BY DeferredKinds DEF IInv, Shape
    <2>3. \A t \in Tasks : SameTask(t) \/ (PlatformOf[t] \in tomb /\ EndedTask(t))
      BY <2>1, <2>2, EndedTasks
    <2>. QED BY <2>1, <2>3 DEF Still, Gone
  <1>4. CASE over # "no"
    BY <1>1, <1>4 DEF StartupJudged
  <1>. QED BY <1>2, <1>3, <1>4

LEMMA DiesStill == ASSUME IInv, RunInv, NEW p \in Platforms, lane[p].up, Dies(p) PROVE Still
  <1>. USE DEF RunInv
  <1>1. CASE pub' = Freed({p}) /\ held' = Unheld({p})
    BY <1>1, FreedTasks DEF Still
  <1>2. CASE GiveUp(p) /\ pub' = Terminalized({p}, AllDeath) /\ held' = Unheld({p})
    <2>1. p \in tomb'
      BY <1>2 DEF GiveUp, Cancel
    <2>2. \A t \in Tasks : SameTask(t) \/ (PlatformOf[t] \in {p} /\ EndedTask(t))
      BY <1>2, EndedTasks, DeathIsKind
    <2>. QED BY <2>1, <2>2 DEF Still, Gone
  <1>3. CASE pub' = pub /\ held' = held
    BY <1>3 DEF Still, SameTask
  <1>4. \/ pub' = Freed({p}) /\ held' = Unheld({p})
        \/ GiveUp(p) /\ pub' = Terminalized({p}, AllDeath) /\ held' = Unheld({p})
        \/ pub' = pub /\ held' = held
    BY DEF Dies, AllDeath
  <1>. QED BY <1>1, <1>2, <1>3, <1>4

\* A step that stops p leaves it to nobody.
LEMMA StopStill ==
    ASSUME Board, NEW p \in Platforms, NEW kind \in [Platforms -> Kind],
           Terminalize({p}, kind), p \in tomb'
    PROVE  Still
  <1>1. \A t \in Tasks : SameTask(t) \/ (PlatformOf[t] \in {p} /\ EndedTask(t))
    BY EndedTasks DEF Terminalize
  <1>. QED BY <1>1 DEF Still, Gone

LEMMA StillSteps ==
    ASSUME IInv, RunInv, HeardInv, Next,
           \A p \in Platforms : \A hold \in BOOLEAN : ~OnNodes(p, hold),
           \A p \in Platforms : ReclaimOk(p) => over # "no" \/ p \in tomb
    PROVE  Still
  <1>. USE DEF RunInv
  <1>1. ASSUME UNCHANGED <<pub, held>> PROVE Still
    BY <1>1 DEF Still, SameTask
  <1>2. CASE LaneStep
    <2>1. ASSUME NEW t \in Tasks, Release(t) PROVE Still
      <3>1. ASSUME NEW u \in Tasks PROVE SameTask(u) \/ FreedTask(u)
        BY <2>1, <3>1 DEF Release, SameTask, FreedTask, Board
      <3>. QED BY <3>1 DEF Still
    <2>2. ASSUME NEW p \in Platforms, SetupDone(p) PROVE Still
      BY <1>1, <2>2 DEF SetupDone
    <2>3. ASSUME NEW t \in Tasks, Start(t) \/ Skip(t) \/ \E st \in {"ok", "failed"} : Exit(t, st)
          PROVE  Still
      BY <1>1, <2>3 DEF Start, Skip, Exit, nodeVars
    <2>. QED BY <1>2, <2>1, <2>2, <2>3 DEF LaneStep
  <1>3. ASSUME NEW p \in Platforms, StartupClaimed(p) \/ StartupFails(p) PROVE Still
    BY <1>1, <1>3 DEF StartupClaimed, StartupFails, nodeVars
  <1>4. ASSUME NEW p \in Platforms, StopLate(p), p \in tomb, tomb' = tomb PROVE Still
    BY <1>4, StopStill, DeferredKinds DEF StopLate
  <1>5. ASSUME NEW p \in Platforms, ReclaimOk(p) PROVE Still
    <2>1. CASE over # "no"
      BY <1>1, <1>5, <2>1 DEF ReclaimOk, nodeVars
    <2>2. CASE over = "no"
      BY <1>4, <1>5, <2>2 DEF ReclaimOk
    <2>. QED BY <2>1, <2>2
  <1>6. ASSUME NEW p \in Platforms, ReclaimFails(p) PROVE Still
    <2>1. CASE over # "no"
      BY <1>1, <1>6, <2>1 DEF ReclaimFails, nodeVars
    <2>2. CASE over = "no" /\ p \in tomb
      BY <1>4, <1>6, <2>2 DEF ReclaimFails
    <2>3. CASE over = "no" /\ p \notin tomb
      <3>1. p \in tomb' /\ Terminalize({p}, AllDeath)
        BY <1>6, <2>3 DEF ReclaimFails, Cancel, AllDeath
      <3>. QED BY <3>1, StopStill, DeathIsKind
    <2>. QED BY <2>1, <2>2, <2>3
  <1>7. ASSUME NEW p \in Platforms, CancelPlatform(p) PROVE Still
    <2>1. CASE windows[p] > 0
      BY <1>1, <1>7, <2>1 DEF CancelPlatform, nodeVars
    <2>2. CASE ~(windows[p] > 0)
      <3>1. p \in tomb' /\ Terminalize({p}, Deferred)
        BY <1>7, <2>2 DEF CancelPlatform, Cancel
      <3>. QED BY <3>1, StopStill, DeferredKinds
    <2>. QED BY <2>1, <2>2
  <1>8. CASE Shutdown
    BY <1>8, FreedTasks DEF Shutdown, Still
  <1>9. CASE Stops
    BY <1>1, <1>9 DEF Stops, nodeVars
  <1>10. ASSUME Running, NEW p \in Platforms, NEW e \in Episodes, LeaseLost(p, e) PROVE Still
    <2>1. CASE lane[p].up /\ Dies(p)
      BY <2>1, DiesStill
    <2>. QED BY <1>1, <1>10, <2>1, LossOfALane DEF LeaseLost, nodeVars
  <1>11. ASSUME NEW p \in Platforms, LinkBreaks(p) PROVE Still
    BY <1>11, DiesStill DEF LinkBreaks
  <1>12. CASE Progress
    BY <1>2, <1>3, <1>5, <1>6, <1>9, <1>12, StartupStill
       DEF Progress, ClaimStep, Complete, StopWork
  <1>13. CASE Running /\ Trouble
    BY <1>7, <1>8, <1>10, <1>11, <1>13 DEF Trouble
  <1>. QED BY <1>12, <1>13 DEF Next

-----------------------------------------------------------------------------
(* Every step keeps what is heard                                            *)

\* A step that starts no lane and says nothing: platforms lose lanes and what
\* was on the wire from them.
Lowers ==
    /\ did' = did
    /\ \A p \in Platforms : \/ lane'[p] = lane[p] /\ wire'[p] = wire[p]
                            \/ lane'[p] = NoLane /\ wire'[p] = <<>>

LEMMA LowersKeeps ==
    ASSUME HeardInv, Lowers,
           \A t \in Tasks : Open(t) /\ lane'[PlatformOf[t]].up => Open(t)'
    PROVE  LaneTasks' /\ WireIsNews' /\ LaneIsFirst'
  <1>. USE DEF HeardInv, Lowers
  <1>1. LaneTasks'
    BY DEF LaneTasks, NoLane, Of
  <1>2. ASSUME NEW p \in Platforms, NEW t \in lane'[p].tasks
        PROVE  /\ t \in Tasks /\ PlatformOf[t] = p /\ lane'[p].up
               /\ lane'[p] = lane[p] /\ wire'[p] = wire[p]
    <2>1. lane'[p].tasks \subseteq Of(p) /\ (~lane'[p].up => lane'[p].tasks = {})
      BY <1>1 DEF LaneTasks, Of
    <2>2. lane'[p] # NoLane
      BY <1>2 DEF NoLane
    <2>. QED BY <1>2, <2>1, <2>2 DEF Of
  <1>3. WireIsNews'
    <2>. SUFFICES ASSUME NEW p \in Platforms, NEW i \in DOMAIN wire'[p], NEW t \in Tasks,
                         wire'[p][i][1] = t
                  PROVE  /\ t \in lane'[p].tasks /\ Open(t)'
                         /\ \/ did'[t] = "running" /\ wire'[p][i][2] = "running"
                            \/ /\ did'[t] \in Terminal
                               /\ wire'[p][i][2] \in Terminal =>
                                     \A j \in DOMAIN wire'[p] : j > i => wire'[p][j][1] # t
      BY DEF WireIsNews
    <2>1. wire'[p] = wire[p] /\ lane'[p] = lane[p]
      BY DEF NoLane
    <2>2. t \in lane[p].tasks /\ Open(t)
      BY <2>1 DEF WireIsNews
    <2>3. Open(t)'
      BY <1>2, <2>1, <2>2
    <2>. QED BY <2>1, <2>2, <2>3 DEF WireIsNews
  <1>4. LaneIsFirst'
    BY <1>2 DEF LaneIsFirst
  <1>. QED BY <1>1, <1>3, <1>4

\* What holds of the tasks after a step that is still.
LEMMA StillKeeps ==
    ASSUME RunInv, RunInv', HeardInv, Still,
           \A p \in Platforms : p \in starting' => p \in starting \/ p \in tomb',
           tomb \subseteq tomb',
           \A p \in Platforms \ tomb' : \A t \in asking'[p] : t \in asking[p] \/ Open(t)'
    PROVE  /\ HeldIsUnsaid' /\ AskedIsOpen'
           /\ \A t \in Tasks : Open(t) /\ lane'[PlatformOf[t]].up => Open(t)'
  <1>. USE DEF HeardInv
  <1>1. ASSUME NEW t \in Tasks PROVE held'[t] # "none" => pub'[t] \notin Terminal
    BY <1>1 DEF Still, SameTask, FreedTask, EndedTask, HeldIsUnsaid
  <1>2. ASSUME NEW t \in Tasks, Open(t), ~Gone(PlatformOf[t])' PROVE Open(t)'
    BY <1>2 DEF Still, SameTask, FreedTask, EndedTask, Open
  <1>3. \A t \in Tasks : Open(t) /\ lane'[PlatformOf[t]].up => Open(t)'
    BY <1>2, TaskAssumption DEF Gone, RunInv, TombIsDown
  <1>4. AskedIsOpen'
    <2>. SUFFICES ASSUME NEW p \in Platforms, p \notin tomb', NEW t \in Of(p),
                         p \in starting' \/ t \in asking'[p]
                  PROVE  Open(t)'
      BY DEF AskedIsOpen, Of
    <2>1. t \in Tasks /\ PlatformOf[t] = p
      BY DEF Of
    <2>2. CASE Open(t)
      BY <1>2, <2>1, <2>2 DEF Gone
    <2>. QED BY <2>2 DEF AskedIsOpen
  <1>. QED BY <1>1, <1>3, <1>4 DEF HeldIsUnsaid

\* A lane that is started for what nobody has a verdict on says nothing yet.
LEMMA AcceptKeeps ==
    ASSUME IInv, RunInv, HeardInv, NEW p \in Platforms, ~lane[p].up,
           NEW tasks \in SUBSET Of(p), Accept(p, tasks), wire' = wire,
           \A t \in Tasks : Open(t) => Open(t)',
           \A t \in tasks : Open(t)
    PROVE  LaneTasks' /\ WireIsNews' /\ LaneIsFirst'
  <1>. USE DEF HeardInv
  <1>1. /\ \A q \in Platforms : lane'[q] = IF q = p THEN [up |-> TRUE, tasks |-> tasks] ELSE lane[q]
        /\ \A t \in Tasks : did'[t] = IF t \in tasks THEN "pending" ELSE did[t]
    BY DEF Accept, IInv, Shape
  <1>2. LaneTasks'
    BY <1>1 DEF LaneTasks, Of
  <1>3. ASSUME NEW q \in Platforms, NEW t \in lane[q].tasks PROVE q # p /\ t \notin tasks /\ t \in Tasks
    BY <1>3 DEF LaneTasks, Of
  <1>4. WireIsNews'
    <2>. SUFFICES ASSUME NEW q \in Platforms, NEW i \in DOMAIN wire[q], NEW t \in Tasks,
                         wire[q][i][1] = t
                  PROVE  /\ t \in lane'[q].tasks /\ Open(t)'
                         /\ \/ did'[t] = "running" /\ wire[q][i][2] = "running"
                            \/ /\ did'[t] \in Terminal
                               /\ wire[q][i][2] \in Terminal =>
                                     \A j \in DOMAIN wire[q] : j > i => wire[q][j][1] # t
      BY DEF WireIsNews
    <2>1. t \in lane[q].tasks /\ Open(t)
      BY DEF WireIsNews
    <2>2. did'[t] = did[t] /\ lane'[q] = lane[q]
      BY <1>1, <1>3, <2>1
    <2>. QED BY <2>1, <2>2 DEF WireIsNews
  <1>5. LaneIsFirst'
    <2>. SUFFICES ASSUME NEW q \in Platforms, NEW t \in lane'[q].tasks, did'[t] \notin Terminal
                  PROVE  Open(t)'
      BY DEF LaneIsFirst
    <2>1. CASE q = p
      BY <1>1, <2>1 DEF Of
    <2>2. CASE q # p
      BY <1>1, <1>3, <2>2 DEF LaneIsFirst
    <2>. QED BY <2>1, <2>2
  <1>. QED BY <1>2, <1>4, <1>5

\* A lane says what has become of a task of its own.
LEMMA SpeaksKeeps ==
    ASSUME IInv, RunInv, HeardInv, NEW t \in Tasks, NEW st \in {"running"} \cup Terminal,
           t \in lane[PlatformOf[t]].tasks,
           did[t] = "pending" \/ (did[t] = "running" /\ st \in Terminal),
           did' = [did EXCEPT ![t] = st],
           wire' = [wire EXCEPT ![PlatformOf[t]] = Append(@, <<t, st>>)],
           UNCHANGED <<lane, pub, held>>
    PROVE  LaneTasks' /\ WireIsNews' /\ LaneIsFirst'
  <1>. USE DEF HeardInv
  <1>0. PlatformOf[t] \in Platforms /\ did \in [Tasks -> Status]
    BY TaskAssumption DEF RunInv, Said
  <1>. PICK p \in Platforms : p = PlatformOf[t]
    BY <1>0
  <1>1. Open(t)
    BY <1>0 DEF LaneIsFirst, Terminal, Bad
  <1>2. did'[t] = st /\ \A u \in Tasks \ {t} : did'[u] = did[u]
    BY <1>0
  <1>3. LaneTasks' /\ LaneIsFirst'
    <2>1. LaneTasks'
      BY DEF LaneTasks, Of
    <2>2. LaneIsFirst'
      BY <1>1, <1>2 DEF LaneIsFirst, Open, LaneTasks, Of
    <2>. QED BY <2>1, <2>2
  <1>4. /\ wire[p] \in Seq(Of(p) \X ({"running"} \cup Terminal)) /\ Len(wire[p]) \in Nat
        /\ wire'[p] = Append(wire[p], <<t, st>>)
        /\ \A q \in Platforms \ {p} : wire'[q] = wire[q]
    BY <1>0 DEF RunInv, Said
  <1>5. /\ DOMAIN wire[p] = 1 .. Len(wire[p]) /\ DOMAIN wire'[p] = 1 .. Len(wire[p]) + 1
        /\ wire'[p][Len(wire[p]) + 1] = <<t, st>>
        /\ \A i \in 1 .. Len(wire[p]) : wire'[p][i] = wire[p][i]
    BY <1>4
  <1>6. \A i \in DOMAIN wire[p] : wire[p][i][1] = t => did[t] = "running" /\ wire[p][i][2] = "running"
    BY <1>0, <1>1 DEF WireIsNews, Terminal, Bad
  <1>7. "running" \notin Terminal
    BY DEF Terminal, Bad
  <1>8. WireIsNews'
    <2>. SUFFICES ASSUME NEW q \in Platforms, NEW i \in DOMAIN wire'[q], NEW u \in Tasks,
                         wire'[q][i][1] = u
                  PROVE  /\ u \in lane[q].tasks /\ Open(u)
                         /\ \/ did'[u] = "running" /\ wire'[q][i][2] = "running"
                            \/ /\ did'[u] \in Terminal
                               /\ wire'[q][i][2] \in Terminal =>
                                     \A j \in DOMAIN wire'[q] : j > i => wire'[q][j][1] # u
      BY DEF WireIsNews, Open
    <2>1. CASE q # p
      <3>1. u \in lane[q].tasks /\ u # t /\ Open(u)
        BY <1>4, <2>1 DEF WireIsNews, LaneTasks, Of
      <3>. QED BY SMTT(60), <1>2, <1>4, <2>1, <3>1 DEF WireIsNews
    <2>2. CASE q = p /\ i = Len(wire[p]) + 1
      <3>1. u = t /\ wire'[q][i][2] = st
        BY <1>5, <2>2
      <3>2. \A j \in DOMAIN wire'[q] : ~(j > i)
        BY <1>4, <1>5, <2>2
      <3>. QED BY <1>1, <1>2, <2>2, <3>1, <3>2
    <2>3. CASE q = p /\ i # Len(wire[p]) + 1
      <3>1. i \in DOMAIN wire[p] /\ wire'[p][i] = wire[p][i]
        BY <1>4, <1>5, <2>3
      <3>2. CASE u = t
        BY <1>1, <1>2, <1>6, <1>7, <2>3, <3>1, <3>2
      <3>3. CASE u # t
        <4>1. /\ u \in lane[p].tasks /\ Open(u) /\ did'[u] = did[u]
              /\ \/ did[u] = "running" /\ wire[p][i][2] = "running"
                 \/ /\ did[u] \in Terminal
                    /\ wire[p][i][2] \in Terminal =>
                          \A j \in DOMAIN wire[p] : j > i => wire[p][j][1] # u
          BY <1>2, <2>3, <3>1, <3>3 DEF WireIsNews
        <4>2. wire[p][i][2] \in Terminal /\ did[u] \in Terminal =>
                  \A j \in DOMAIN wire'[p] : j > i => wire'[p][j][1] # u
          <5>. SUFFICES ASSUME wire[p][i][2] \in Terminal, did[u] \in Terminal,
                               NEW j \in DOMAIN wire'[p], j > i
                        PROVE  wire'[p][j][1] # u
            OBVIOUS
          <5>1. CASE j = Len(wire[p]) + 1
            BY <1>5, <3>3, <5>1
          <5>2. CASE j # Len(wire[p]) + 1
            <6>1. j \in DOMAIN wire[p] /\ wire'[p][j] = wire[p][j]
              BY <1>4, <1>5, <5>2
            <6>. QED BY <1>7, <4>1, <6>1
          <5>. QED BY <5>1, <5>2
        <4>. QED BY <2>3, <3>1, <4>1, <4>2
      <3>. QED BY <3>2, <3>3
    <2>. QED BY <2>1, <2>2, <2>3
  <1>. QED BY <1>3, <1>8

\* What the first status on the wire does when it is heard.
LEMMA HearingKeeps ==
    ASSUME IInv, RunInv, HeardInv, NEW p \in Platforms, NEW hold \in BOOLEAN, OnNodes(p, hold)
    PROVE  /\ HeardInv'
           /\ \A t \in Tasks : /\ pub[t] \in Terminal => pub'[t] = pub[t]
                               /\ held[t] # "none" => pub'[t] = held[t] \/ held'[t] = held[t]
  <1>. USE DEF HeardInv
  <1>1. /\ wire[p] \in Seq(Of(p) \X ({"running"} \cup Terminal)) /\ wire[p] # <<>>
        /\ DOMAIN wire = Platforms
    BY DEF RunInv, Said, OnNodes
  <1>2. /\ Len(wire[p]) \in Nat /\ Len(wire[p]) >= 1 /\ DOMAIN wire[p] = 1 .. Len(wire[p])
        /\ Head(wire[p]) = wire[p][1] /\ wire[p][1] \in Of(p) \X ({"running"} \cup Terminal)
        /\ DOMAIN Tail(wire[p]) = 1 .. Len(wire[p]) - 1
        /\ \A i \in 1 .. Len(wire[p]) - 1 : Tail(wire[p])[i] = wire[p][i + 1]
    BY <1>1
  <1>. PICK t, st : t = wire[p][1][1] /\ st = wire[p][1][2]
    OBVIOUS
  <1>3. t \in Of(p) /\ t \in Tasks /\ PlatformOf[t] = p /\ st \in {"running"} \cup Terminal
    BY <1>2 DEF Of
  <1>4. /\ lane[p].up /\ (hold => st \in Terminal)
        /\ wire' = [wire EXCEPT ![p] = Tail(@)]
        /\ pub' = IF hold THEN pub ELSE [pub EXCEPT ![t] = st]
        /\ held' = IF hold THEN [held EXCEPT ![t] = st] ELSE held
        /\ UNCHANGED <<starting, asking, episode, tomb, lane, did>>
    BY <1>2 DEF OnNodes, claimVars
  <1>5. /\ 1 \in DOMAIN wire[p] /\ t \in lane[p].tasks /\ Open(t)
        /\ \/ did[t] = "running" /\ st = "running"
           \/ /\ did[t] \in Terminal
              /\ st \in Terminal => \A j \in DOMAIN wire[p] : j > 1 => wire[p][j][1] # t
    BY <1>2, <1>3 DEF WireIsNews
  <1>6. /\ pub \in [Tasks -> Status] /\ held \in [Tasks -> {"none"} \cup Terminal]
        /\ "running" \notin Terminal /\ "none" \notin Terminal
    BY DEF RunInv, Board, Terminal, Bad
  <1>7. /\ \A u \in Tasks \ {t} : pub'[u] = pub[u] /\ held'[u] = held[u]
        /\ pub'[t] = IF hold THEN pub[t] ELSE st
        /\ held'[t] = IF hold THEN st ELSE held[t]
    BY <1>3, <1>4, <1>6
  <1>8. /\ \A u \in Tasks \ {t} : Open(u)' <=> Open(u)
        /\ st = "running" => Open(t)'
    BY <1>3, <1>4, <1>5, <1>6, <1>7 DEF Open
  <1>9. HeldIsUnsaid'
    BY <1>5, <1>6, <1>7 DEF HeldIsUnsaid, Open
  <1>10. LaneTasks' /\ ClaimIsALife'
    BY <1>4 DEF LaneTasks, ClaimIsALife, Of
  <1>11. LaneIsFirst'
    <2>. SUFFICES ASSUME NEW q \in Platforms, NEW u \in lane[q].tasks, did[u] \notin Terminal
                  PROVE  Open(u)'
      BY <1>4 DEF LaneIsFirst
    <2>1. u \in Tasks /\ Open(u)
      BY DEF LaneIsFirst, LaneTasks, Of
    <2>. QED BY <1>5, <1>8, <2>1
  <1>12. AskedIsOpen'
    <2>. SUFFICES ASSUME NEW q \in Platforms, q \notin tomb, NEW u \in Of(q),
                         q \in starting \/ u \in asking[q]
                  PROVE  Open(u)'
      BY <1>4 DEF AskedIsOpen, Of
    <2>1. u \in Tasks /\ Open(u) /\ ~lane[q].up
      BY DEF AskedIsOpen, IInv, ClaimsHaveNoLane, Of
    <2>2. u # t
      BY <1>3, <1>4, <2>1 DEF Of
    <2>. QED BY <1>8, <2>1, <2>2
  <1>13. WireIsNews'
    <2>. SUFFICES ASSUME NEW q \in Platforms, NEW i \in DOMAIN wire'[q], NEW u \in Tasks,
                         wire'[q][i][1] = u
                  PROVE  /\ u \in lane[q].tasks /\ Open(u)'
                         /\ \/ did[u] = "running" /\ wire'[q][i][2] = "running"
                            \/ /\ did[u] \in Terminal
                               /\ wire'[q][i][2] \in Terminal =>
                                     \A j \in DOMAIN wire'[q] : j > i => wire'[q][j][1] # u
      BY <1>4 DEF WireIsNews
    <2>1. CASE q # p
      <3>1. wire'[q] = wire[q]
        BY <1>1, <1>4, <2>1
      <3>2. u \in lane[q].tasks /\ Open(u)
        BY <3>1 DEF WireIsNews
      <3>3. u # t
        BY <1>3, <2>1, <3>2 DEF LaneTasks, Of
      <3>. QED BY <1>8, <3>1, <3>2, <3>3 DEF WireIsNews
    <2>2. CASE q = p
      <3>1. /\ i \in 1 .. Len(wire[p]) - 1 /\ DOMAIN wire'[p] = 1 .. Len(wire[p]) - 1
            /\ \A j \in 1 .. Len(wire[p]) - 1 : wire'[p][j] = wire[p][j + 1]
        BY <1>1, <1>2, <1>4, <2>2
      <3>2. i + 1 \in DOMAIN wire[p] /\ i + 1 > 1 /\ wire[p][i + 1][1] = u
        BY <1>2, <2>2, <3>1
      <3>3. /\ u \in lane[p].tasks /\ Open(u)
            /\ \/ did[u] = "running" /\ wire[p][i + 1][2] = "running"
               \/ /\ did[u] \in Terminal
                  /\ wire[p][i + 1][2] \in Terminal =>
                        \A j \in DOMAIN wire[p] : j > i + 1 => wire[p][j][1] # u
        BY <3>2 DEF WireIsNews
      <3>4. Open(u)'
        <4>1. CASE u # t
          BY <1>8, <3>3, <4>1
        <4>2. CASE u = t
          <5>1. ~(st \in Terminal)
            BY <1>5, <3>2, <4>2, <1>6
          <5>. QED BY <1>3, <1>8, <4>2, <5>1
        <4>. QED BY <4>1, <4>2
      <3>5. ASSUME wire[p][i + 1][2] \in Terminal, did[u] \in Terminal,
                   NEW j \in DOMAIN wire'[p], j > i
            PROVE  wire'[p][j][1] # u
        <4>1. j + 1 \in DOMAIN wire[p] /\ j + 1 > i + 1 /\ wire'[p][j] = wire[p][j + 1]
          BY <1>2, <3>1, <3>5
        <4>. QED BY <1>6, <3>3, <3>5, <4>1
      <3>. QED BY <2>2, <3>1, <3>3, <3>4, <3>5
    <2>. QED BY <2>1, <2>2
  <1>14. ASSUME NEW u \in Tasks
         PROVE  /\ pub[u] \in Terminal => pub'[u] = pub[u]
                /\ held[u] # "none" => pub'[u] = held[u] \/ held'[u] = held[u]
    BY <1>5, <1>7, <1>14 DEF Open
  <1>. QED BY <1>9, <1>10, <1>11, <1>12, <1>13, <1>14

\* A lane is started for the tasks of a claim that is still wanted.
LEMMA ReopenKeeps ==
    ASSUME IInv, RunInv, HeardInv, NEW p \in Platforms, ReclaimOk(p), over = "no", p \notin tomb
    PROVE  /\ HeardInv'
           /\ \A t \in Tasks : (pub[t] \in Terminal => pub'[t] = pub[t]) /\ held'[t] = held[t]
  <1>. USE DEF HeardInv
  <1>1. /\ asking \in [Platforms -> SUBSET Tasks] /\ asking[p] \subseteq Of(p) /\ asking[p] # {}
        /\ ~lane[p].up /\ tomb \subseteq Platforms
    BY DEF IInv, Shape, RunInv, Said, ReclaimOk, Answered, ClaimsHaveNoLane
  <1>2. /\ pub' = [t \in Tasks |-> IF t \in asking[p] THEN "pending" ELSE pub[t]]
        /\ Accept(p, asking[p]) /\ asking' = [asking EXCEPT ![p] = {}]
        /\ UNCHANGED <<held, tomb, wire, starting, episode>>
    BY DEF ReclaimOk, Answered
  <1>3. \A t \in asking[p] : t \in Tasks /\ Open(t)
    BY <1>1 DEF AskedIsOpen, Of
  <1>4. \A t \in Tasks : Open(t) => Open(t)'
    BY <1>2 DEF Open, Terminal, Bad
  <1>5. LaneTasks' /\ WireIsNews' /\ LaneIsFirst'
    BY <1>1, <1>2, <1>3, <1>4, AcceptKeeps
  <1>6. HeldIsUnsaid'
    BY <1>2, <1>3 DEF HeldIsUnsaid, Open
  <1>7. AskedIsOpen' /\ ClaimIsALife'
    <2>1. \A q \in Platforms : asking'[q] = IF q = p THEN {} ELSE asking[q]
      BY <1>1, <1>2
    <2>2. AskedIsOpen'
      BY <1>2, <1>4, <2>1 DEF AskedIsOpen, Of
    <2>. QED BY <1>2, <2>1, <2>2 DEF ClaimIsALife
  <1>8. \A t \in Tasks : pub[t] \in Terminal => pub'[t] = pub[t]
    BY <1>2, <1>3 DEF Open
  <1>. QED BY <1>2, <1>5, <1>6, <1>7, <1>8

\* How claims and tombs move while nothing is heard or reopened.
Roster ==
    /\ starting' \subseteq starting /\ tomb \subseteq tomb'
    /\ \A p \in Platforms \ tomb' : \A t \in asking'[p] : t \in asking[p] \/ Open(t)'
    /\ ClaimIsALife'

\* How lanes do.
Lanes ==
    \/ Lowers
    \/ LaneTasks' /\ WireIsNews' /\ LaneIsFirst'

LEMMA DiesMoves ==
    ASSUME IInv, RunInv, HeardInv, NEW p \in Platforms, lane[p].up, Dies(p)
    PROVE  Roster /\ Lowers
  <1>. USE DEF HeardInv
  <1>1. UNCHANGED <<starting, did>> /\ DOMAIN wire = Platforms
    BY DiesCases DEF RunInv, Said
  <1>2. /\ asking \in [Platforms -> SUBSET Tasks] /\ lane \in [Platforms -> Lane]
        /\ episode \in [Platforms -> Nat]
    BY DEF IInv, Shape, Episodes
  <1>3. CASE GiveUp(p)
    <2>1. Lowers
      BY <1>1, <1>2, <1>3 DEF GiveUp, Cancel, Lowers
    <2>. QED BY <1>1, <1>3, <2>1 DEF GiveUp, Cancel, Roster, ClaimIsALife
  <1>4. ASSUME Resurrect(p, Unfinished(p, Freed({p}))), pub' = Freed({p}), held' = Unheld({p})
        PROVE  Roster /\ Lowers
    <2>1. ASSUME NEW t \in Unfinished(p, Freed({p})) PROVE Open(t)'
      <3>1. t \in Tasks /\ PlatformOf[t] = p /\ Freed({p})[t] \notin Terminal
        BY <2>1 DEF Unfinished, Of
      <3>. QED BY <1>4, <3>1 DEF Open, Unheld
    <2>2. PICK left : left = Unfinished(p, Freed({p}))
      OBVIOUS
    <2>3. /\ \A q \in Platforms : /\ asking'[q] = IF q = p THEN left ELSE asking[q]
                                  /\ episode'[q] = IF q = p THEN episode[q] + 1 ELSE episode[q]
                                  /\ q = p \/ (lane'[q] = lane[q] /\ wire'[q] = wire[q])
          /\ lane'[p] = NoLane /\ wire'[p] = <<>> /\ tomb' = tomb
      BY <1>1, <1>2, <1>4, <2>2 DEF Resurrect
    <2>4. Lowers
      BY <1>1, <2>3 DEF Lowers
    <2>5. ClaimIsALife'
      BY <1>2, <2>3 DEF ClaimIsALife
    <2>. QED BY <1>1, <2>1, <2>2, <2>3, <2>4, <2>5 DEF Roster
  <1>. QED BY <1>3, <1>4 DEF Dies

LEMMA Moves ==
    ASSUME IInv, RunInv, HeardInv, Next,
           \A p \in Platforms : \A hold \in BOOLEAN : ~OnNodes(p, hold),
           \A p \in Platforms : ReclaimOk(p) => over # "no" \/ p \in tomb
    PROVE  Roster /\ Lanes
  <1>. USE DEF HeardInv
  <1>0. /\ asking \in [Platforms -> SUBSET Tasks] /\ lane \in [Platforms -> Lane]
        /\ tomb \subseteq Platforms /\ DOMAIN wire = Platforms
    BY DEF IInv, Shape, RunInv, Said
  <1>1. ASSUME UNCHANGED <<starting, tomb, asking, episode>> PROVE Roster
    BY <1>1 DEF Roster, ClaimIsALife
  <1>2. ASSUME UNCHANGED <<lane, wire, did>> PROVE Lanes
    BY <1>2 DEF Lanes, Lowers
  <1>3. ASSUME NEW ps \in SUBSET Platforms, Cancel(ps), did' = did PROVE Lowers
    <2>1. /\ lane' = [q \in Platforms |-> IF q \in ps THEN NoLane ELSE lane[q]]
          /\ wire' = [q \in Platforms |-> IF q \in ps THEN <<>> ELSE wire[q]]
      BY <1>3 DEF Cancel
    <2>. QED BY <1>3, <2>1 DEF Lowers
  <1>4. CASE LaneStep
    <2>1. ASSUME NEW t \in Tasks, NEW st \in {"running"} \cup Terminal,
                 lane[PlatformOf[t]].up, t \in lane[PlatformOf[t]].tasks,
                 did[t] = "pending" \/ (did[t] = "running" /\ st \in Terminal),
                 did' = [did EXCEPT ![t] = st],
                 wire' = [wire EXCEPT ![PlatformOf[t]] = Append(@, <<t, st>>)],
                 UNCHANGED <<lane, pub, held>>
          PROVE  Lanes
      BY <2>1, SpeaksKeeps DEF Lanes
    <2>2. ASSUME NEW t \in Tasks, Start(t) PROVE Roster /\ Lanes
      BY <1>1, <2>1, <2>2 DEF Start, Ready, claimVars, nodeVars
    <2>3. ASSUME NEW t \in Tasks, Skip(t) PROVE Roster /\ Lanes
      BY <1>1, <2>1, <2>3 DEF Skip, claimVars, nodeVars, Terminal, Bad
    <2>4. ASSUME NEW t \in Tasks, NEW st \in {"ok", "failed"}, Exit(t, st) PROVE Roster /\ Lanes
      BY <1>1, <2>1, <2>4 DEF Exit, claimVars, nodeVars, Terminal, Bad
    <2>5. ASSUME NEW p \in Platforms, SetupDone(p) PROVE Roster /\ Lanes
      BY <1>1, <1>2, <2>5 DEF SetupDone, claimVars
    <2>6. ASSUME NEW t \in Tasks, Release(t) PROVE Roster /\ Lanes
      BY <1>1, <1>2, <2>6 DEF Release, claimVars
    <2>. QED BY <1>4, <2>2, <2>3, <2>4, <2>5, <2>6 DEF LaneStep
  <1>5. ASSUME NEW p \in Platforms, StartupClaimed(p) PROVE Roster /\ Lanes
    <2>1. UNCHANGED <<asking, episode, tomb, wire, pub, held>> /\ starting' \subseteq starting
      BY <1>5 DEF StartupClaimed, nodeVars
    <2>2. Roster
      BY <2>1 DEF Roster, ClaimIsALife
    <2>3. CASE over # "no" \/ p \in tomb
      BY <1>2, <1>5, <2>2, <2>3 DEF StartupClaimed
    <2>4. CASE ~(over # "no" \/ p \in tomb)
      <3>1. Accept(p, Of(p)) /\ p \in starting
        BY <1>5, <2>4 DEF StartupClaimed
      <3>2. ~lane[p].up
        BY <3>1 DEF IInv, ClaimsHaveNoLane
      <3>3. \A t \in Of(p) : Open(t)
        BY <2>4, <3>1 DEF AskedIsOpen
      <3>4. \A t \in Tasks : Open(t) => Open(t)'
        BY <2>1 DEF Open
      <3>. QED BY <2>1, <2>2, <3>1, <3>2, <3>3, <3>4, AcceptKeeps DEF Lanes
    <2>. QED BY <2>3, <2>4
  <1>6. ASSUME NEW p \in Platforms, StartupFails(p) PROVE Roster /\ Lanes
    <2>1. Roster
      BY <1>6 DEF StartupFails, Roster, ClaimIsALife
    <2>. QED BY <1>2, <1>6, <2>1 DEF StartupFails
  <1>7. CASE StartupJudged
    <2>1. Roster
      BY <1>7 DEF StartupJudged, Cancel, Roster, ClaimIsALife
    <2>2. CASE UNCHANGED <<lane, wire>>
      BY <1>2, <1>7, <2>1, <2>2 DEF StartupJudged
    <2>3. CASE Cancel({p \in Platforms : built[p] > 0})
      BY <1>3, <1>7, <2>1, <2>3 DEF StartupJudged, Lanes
    <2>. QED BY <1>7, <2>2, <2>3 DEF StartupJudged
  <1>8. ASSUME NEW p \in Platforms, Answered(p), tomb \subseteq tomb' PROVE Roster
    <2>1. \A q \in Platforms : asking'[q] \subseteq asking[q]
      BY <1>0, <1>8 DEF Answered
    <2>. QED BY <1>8, <2>1 DEF Answered, Roster, ClaimIsALife
  <1>9. ASSUME NEW p \in Platforms, ReclaimOk(p) PROVE Roster /\ Lanes
    BY <1>2, <1>8, <1>9 DEF ReclaimOk
  <1>10. ASSUME NEW p \in Platforms, ReclaimFails(p) PROVE Roster /\ Lanes
    <2>1. did' = did /\ Answered(p)
      BY <1>10 DEF ReclaimFails
    <2>2. CASE UNCHANGED <<tomb, lane, wire>>
      BY <1>2, <1>8, <2>1, <2>2
    <2>3. CASE Cancel({p})
      BY <1>3, <1>8, <2>1, <2>3 DEF Cancel, Lanes
    <2>. QED BY <1>10, <2>2, <2>3 DEF ReclaimFails
  <1>11. ASSUME NEW p \in Platforms, CancelPlatform(p) PROVE Roster /\ Lanes
    <2>1. Cancel({p}) /\ UNCHANGED <<starting, asking, episode, did>>
      BY <1>11 DEF CancelPlatform, claimVars
    <2>2. Roster
      BY <2>1 DEF Cancel, Roster, ClaimIsALife
    <2>. QED BY <1>3, <2>1, <2>2 DEF Lanes
  <1>12. CASE Shutdown
    BY <1>1, <1>2, <1>12 DEF Shutdown, claimVars
  <1>13. CASE Stops
    <2>1. Lowers
      BY <1>13 DEF Stops, Lowers
    <2>. QED BY <1>1, <1>13, <2>1 DEF Stops, claimVars, Lanes
  <1>14. ASSUME NEW p \in Platforms, lane[p].up, Dies(p) PROVE Roster /\ Lanes
    BY <1>14, DiesMoves DEF Lanes
  <1>15. ASSUME Running, NEW p \in Platforms, NEW e \in Episodes, LeaseLost(p, e)
         PROVE  Roster /\ Lanes
    <2>1. CASE lane[p].up /\ Dies(p)
      BY <1>14, <2>1
    <2>. QED BY <1>1, <1>2, <1>15, <2>1, LossOfALane DEF LeaseLost, claimVars
  <1>16. CASE Progress
    BY <1>4, <1>5, <1>6, <1>7, <1>9, <1>10, <1>13, <1>16 DEF Progress, ClaimStep, Complete, StopWork
  <1>17. CASE Running /\ Trouble
    BY <1>11, <1>12, <1>14, <1>15, <1>17 DEF Trouble, LinkBreaks
  <1>. QED BY <1>16, <1>17 DEF Next

Verdicts ==
    \A t \in Tasks : /\ pub[t] \in Terminal => pub'[t] = pub[t]
                     /\ held[t] # "none" => pub'[t] = held[t] \/ held'[t] = held[t]

\* Every step keeps what is heard, and takes back no verdict.
LEMMA HeardStep == ASSUME IInv, RunInv, HeardInv, Next PROVE HeardInv' /\ Verdicts
  <1>1. ASSUME NEW p \in Platforms, NEW hold \in BOOLEAN, OnNodes(p, hold)
        PROVE  HeardInv' /\ Verdicts
    BY <1>1, HearingKeeps DEF Verdicts
  <1>2. ASSUME NEW p \in Platforms, ReclaimOk(p), over = "no", p \notin tomb
        PROVE  HeardInv' /\ Verdicts
    BY <1>2, ReopenKeeps DEF Verdicts
  <1>3. ASSUME \A p \in Platforms : \A hold \in BOOLEAN : ~OnNodes(p, hold),
               \A p \in Platforms : ReclaimOk(p) => over # "no" \/ p \in tomb
        PROVE  HeardInv' /\ Verdicts
    <2>1. Still /\ Roster /\ Lanes
      BY <1>3, StillSteps, Moves
    <2>2. RunInv'
      BY NextRunInv
    <2>3. /\ HeldIsUnsaid' /\ AskedIsOpen' /\ ClaimIsALife'
          /\ \A t \in Tasks : Open(t) /\ lane'[PlatformOf[t]].up => Open(t)'
      BY <2>1, <2>2, StillKeeps DEF Roster
    <2>4. LaneTasks' /\ WireIsNews' /\ LaneIsFirst'
      BY <2>1, <2>3, LowersKeeps DEF Lanes
    <2>5. Verdicts
      BY <2>1 DEF Still, SameTask, FreedTask, EndedTask, Verdicts, HeardInv, HeldIsUnsaid
    <2>. QED BY <2>3, <2>4, <2>5 DEF HeardInv
  <1>. QED BY <1>1, <1>2, <1>3

LEMMA InitHeard == ASSUME Init PROVE HeardInv /\ NeverUnblocked
  <1>1. /\ \A t \in Tasks : Open(t)
        /\ \A p \in Platforms : lane[p] = NoLane /\ asking[p] = {} /\ wire[p] = <<>>
    BY DEF Init, Open, Terminal, Bad
  <1>. QED
    BY <1>1 DEF HeardInv, HeldIsUnsaid, LaneTasks, WireIsNews, LaneIsFirst, AskedIsOpen,
       ClaimIsALife, NeverUnblocked, NoLane, Open, Of

-----------------------------------------------------------------------------
(* A retry runs nothing whose needs are not met                              *)

\* The recursion of unfinishedTasksFor has a solution, whatever needs what: the
\* least set of tasks that are blocked.
LEMMA BlockedExists ==
    ASSUME NEW open \in SUBSET Tasks, NEW bad \in SUBSET Tasks
    PROVE  \E f : f = [t \in Tasks |-> \E d \in Needs[t] : IF d \in open THEN f[d] ELSE d \in bad]
  <1>. DEFINE Block(X) == {t \in Tasks : \E d \in Needs[t] : IF d \in open THEN d \in X ELSE d \in bad}
              Least == {t \in Tasks : \A X \in SUBSET Tasks : Block(X) \subseteq X => t \in X}
  <1>1. \A t \in Tasks : Needs[t] \subseteq Tasks
    BY TaskAssumption
  <1>2. Block(Least) \subseteq Least
    <2>. SUFFICES ASSUME NEW t \in Block(Least), NEW X \in SUBSET Tasks, Block(X) \subseteq X
                  PROVE  t \in X
      OBVIOUS
    <2>1. Least \subseteq X
      OBVIOUS
    <2>. HIDE DEF Least
    <2>2. t \in Block(X)
      BY <2>1
    <2>. QED BY <2>2
  <1>3. Least \subseteq Block(Least)
    <2>1. Block(Block(Least)) \subseteq Block(Least)
      <3>. HIDE DEF Least
      <3>. QED BY <1>2
    <2>2. Block(Least) \in SUBSET Tasks
      OBVIOUS
    <2>. QED BY <2>1, <2>2
  <1>. HIDE DEF Least
  <1>. DEFINE f == [t \in Tasks |-> t \in Least]
  <1>4. \A t \in Tasks : t \in Least <=> \E d \in Needs[t] : IF d \in open THEN d \in Least ELSE d \in bad
    BY <1>2, <1>3
  <1>. DEFINE Blk(g, t) == \E d \in Needs[t] : IF d \in open THEN g[d] ELSE d \in bad
  <1>5. ASSUME NEW t \in Tasks PROVE f[t] = Blk(f, t)
    <2>1. \A d \in Needs[t] : f[d] = (d \in Least)
      BY <1>1
    <2>0. f[t] = (t \in Least) /\ (t \in Least) \in BOOLEAN
      OBVIOUS
    <2>. HIDE DEF f
    <2>2. f[t] \in BOOLEAN /\ (f[t] <=> t \in Least)
      BY <2>0
    <2>3. (\E d \in Needs[t] : IF d \in open THEN d \in Least ELSE d \in bad) <=> Blk(f, t)
      BY <2>1
    <2>4. Blk(f, t) \in BOOLEAN
      OBVIOUS
    <2>5. t \in Least <=> \E d \in Needs[t] : IF d \in open THEN d \in Least ELSE d \in bad
      BY <1>4
    <2>6. f[t] <=> Blk(f, t)
      BY <2>2, <2>3, <2>5
    <2>. HIDE DEF Blk
    <2>. QED BY <2>2, <2>4, <2>6
  <1>6. f = [t \in Tasks |-> Blk(f, t)]
    <2>1. f = [t \in Tasks |-> f[t]]
      OBVIOUS
    <2>. HIDE DEF f, Blk
    <2>. QED BY <1>5, <2>1
  <1>. QED BY <1>6

\* What a retry takes needs only what it takes, or what is green.
LEMMA UnfinishedIsReady ==
    ASSUME NEW p \in Platforms, NEW st, NEW t \in Unfinished(p, st), NEW d \in Needs[t]
    PROVE  d \in Unfinished(p, st) \/ st[d] = "ok"
  <1>. DEFINE open == {u \in Of(p) : st[u] \notin Terminal}
              bad == {u \in Tasks : st[u] # "ok"}
              blocked == CHOOSE f : f = [u \in Tasks |->
                            \E n \in Needs[u] : IF n \in open THEN f[n] ELSE st[n] # "ok"]
  <1>1. open \in SUBSET Tasks /\ bad \in SUBSET Tasks /\ \A u \in Tasks : Needs[u] \subseteq Tasks
    BY TaskAssumption DEF Of
  <1>2. \E f : f = [u \in Tasks |-> \E n \in Needs[u] : IF n \in open THEN f[n] ELSE st[n] # "ok"]
    <2>1. PICK f : f = [u \in Tasks |-> \E n \in Needs[u] : IF n \in open THEN f[n] ELSE n \in bad]
      <3>. HIDE DEF open, bad
      <3>. QED BY <1>1, BlockedExists
    <2>2. \A u \in Tasks :
              (\E n \in Needs[u] : IF n \in open THEN f[n] ELSE n \in bad)
              = (\E n \in Needs[u] : IF n \in open THEN f[n] ELSE st[n] # "ok")
      BY <1>1
    <2>3. f = [u \in Tasks |-> \E n \in Needs[u] : IF n \in open THEN f[n] ELSE st[n] # "ok"]
      BY <2>1, <2>2
    <2>. QED BY <2>3
  <1>3. blocked = [u \in Tasks |->
                      \E n \in Needs[u] : IF n \in open THEN blocked[n] ELSE st[n] # "ok"]
    BY <1>2
  <1>4. Unfinished(p, st) = {u \in open : ~blocked[u]}
    BY DEF Unfinished
  <1>. HIDE DEF blocked
  <1>5. t \in Tasks /\ blocked[t] = \E n \in Needs[t] : IF n \in open THEN blocked[n] ELSE st[n] # "ok"
    BY <1>1, <1>3, <1>4
  <1>. QED BY <1>4, <1>5

\* What p has taken on: its lane's tasks and those a claim in flight is for.
Work(p) == lane[p].tasks \cup asking[p]

LEMMA UnblockedStep ==
    ASSUME IInv, RunInv, HeardInv, NeverUnblocked, Next
    PROVE  NeverUnblocked'
  <1>0. /\ asking \in [Platforms -> SUBSET Tasks] /\ lane \in [Platforms -> Lane]
        /\ \A p \in Platforms : lane[p].tasks \subseteq Of(p) /\ asking[p] \subseteq Of(p)
        /\ \A p \in Platforms : asking[p] # {} => lane[p].tasks = {}
    BY DEF IInv, Shape, RunInv, Said, HeardInv, LaneTasks, ClaimsHaveNoLane
  <1>1. \A t \in Tasks : pub[t] = "ok" => pub'[t] = "ok"
    BY HeardStep DEF Verdicts, Terminal
  <1>2. \A p \in Platforms : \A t \in Of(p) : t \in Tasks /\ Needs[t] \subseteq Of(p)
    BY TaskAssumption DEF Of
  <1>3. ASSUME \A p \in Platforms : Work(p)' \in {Work(p), {}, Of(p)} PROVE NeverUnblocked'
    <2>. SUFFICES ASSUME NEW p \in Platforms, NEW t \in Work(p)', NEW d \in Needs[t]
                  PROVE  d \in Work(p)' \/ pub'[d] = "ok"
      BY DEF NeverUnblocked, Work
    <2>1. CASE Work(p)' = Of(p)
      BY <1>2, <2>1
    <2>2. CASE Work(p)' = Work(p)
      <3>1. d \in Work(p) \/ pub[d] = "ok"
        BY <2>2 DEF NeverUnblocked, Work
      <3>2. d \in Tasks
        BY <1>0, <1>2, <2>2 DEF Work, Of
      <3>. QED BY <1>1, <2>2, <3>1, <3>2
    <2>. QED BY <1>3, <2>1, <2>2
  <1>4. ASSUME UNCHANGED <<lane, asking>> PROVE NeverUnblocked'
    BY <1>3, <1>4 DEF Work
  <1>5. ASSUME UNCHANGED asking, \A p \in Platforms : lane'[p] \in {lane[p], NoLane}
        PROVE  NeverUnblocked'
    <2>1. ASSUME NEW p \in Platforms PROVE Work(p)' \in {Work(p), {}, Of(p)}
      <3>1. CASE asking[p] = {}
        BY <1>5, <3>1 DEF Work, NoLane
      <3>2. CASE asking[p] # {}
        BY <1>0, <1>5, <3>2 DEF Work, NoLane
      <3>. QED BY <3>1, <3>2
    <2>. QED BY <1>3, <2>1
  <1>6. ASSUME NEW ps \in SUBSET Platforms, Cancel(ps) PROVE \A p \in Platforms : lane'[p] \in {lane[p], NoLane}
    BY SMTT(60), <1>6 DEF Cancel
  <1>7. CASE LaneStep
    BY <1>4, <1>7 DEF LaneStep, SetupDone, Start, Exit, Skip, OnNodes, Release, claimVars
  <1>8. ASSUME NEW p \in Platforms, StartupClaimed(p) PROVE NeverUnblocked'
    <2>1. CASE over # "no" \/ p \in tomb
      BY <1>4, <1>8, <2>1 DEF StartupClaimed
    <2>2. CASE ~(over # "no" \/ p \in tomb)
      <3>1. Accept(p, Of(p)) /\ asking' = asking /\ asking[p] = {}
        BY <1>8, <2>2 DEF StartupClaimed, IInv, ClaimsHaveNoLane
      <3>2. \A q \in Platforms : Work(q)' = IF q = p THEN Of(p) ELSE Work(q)
        BY <1>0, <3>1 DEF Accept, Work
      <3>. QED BY <1>3, <3>2
    <2>. QED BY <2>1, <2>2
  <1>9. ASSUME NEW p \in Platforms, StartupFails(p) PROVE NeverUnblocked'
    BY <1>4, <1>9 DEF StartupFails
  <1>10. CASE StartupJudged
    <2>1. CASE lane' = lane
      BY <1>4, <1>10, <2>1 DEF StartupJudged
    <2>2. CASE Cancel({p \in Platforms : built[p] > 0})
      BY <1>5, <1>6, <1>10, <2>2 DEF StartupJudged
    <2>. QED BY <1>10, <2>1, <2>2 DEF StartupJudged
  <1>11. ASSUME NEW p \in Platforms, ReclaimOk(p) \/ ReclaimFails(p) PROVE NeverUnblocked'
    <2>1. /\ asking[p] # {} /\ lane[p].tasks = {}
          /\ \A q \in Platforms : asking'[q] = IF q = p THEN {} ELSE asking[q]
      BY <1>0, <1>11 DEF ReclaimOk, ReclaimFails, Answered
    <2>2. CASE lane' = lane \/ Cancel({p})
      <3>1. \A q \in Platforms : lane'[q] = lane[q] \/ (q = p /\ lane'[q] = NoLane)
        BY <2>2 DEF Cancel
      <3>2. \A q \in Platforms : Work(q)' \in {Work(q), {}}
        BY <2>1, <3>1 DEF Work, NoLane
      <3>. QED BY <1>3, <3>2
    <2>3. CASE Accept(p, asking[p])
      <3>1. \A q \in Platforms : lane'[q] = IF q = p THEN [up |-> TRUE, tasks |-> asking[p]]
                                            ELSE lane[q]
        BY <1>0, <2>3 DEF Accept
      <3>2. \A q \in Platforms : Work(q)' = Work(q)
        BY <2>1, <3>1 DEF Work
      <3>. QED BY <1>3, <3>2
    <2>. QED BY <1>11, <2>2, <2>3 DEF ReclaimOk, ReclaimFails
  <1>12. ASSUME NEW p \in Platforms, CancelPlatform(p) PROVE NeverUnblocked'
    BY <1>5, <1>6, <1>12 DEF CancelPlatform, claimVars
  <1>13. CASE Shutdown
    BY <1>4, <1>13 DEF Shutdown, claimVars
  <1>14. CASE Stops
    BY <1>5, <1>14 DEF Stops, claimVars
  <1>15. ASSUME NEW p \in Platforms, lane[p].up, Dies(p) PROVE NeverUnblocked'
    <2>1. CASE GiveUp(p)
      BY <1>5, <1>6, <2>1 DEF GiveUp
    <2>2. ASSUME Resurrect(p, Unfinished(p, Freed({p}))), pub' = Freed({p})
          PROVE  NeverUnblocked'
      <3>1. PICK left : left = Unfinished(p, Freed({p}))
        OBVIOUS
      <3>2. \A q \in Platforms : Work(q)' = IF q = p THEN left ELSE Work(q)
        BY <1>0, <2>2, <3>1 DEF Resurrect, Work, NoLane
      <3>. SUFFICES ASSUME NEW q \in Platforms, NEW t \in Work(q)', NEW d \in Needs[t]
                    PROVE  d \in Work(q)' \/ pub'[d] = "ok"
        BY DEF NeverUnblocked, Work
      <3>3. CASE q = p
        <4>1. d \in Unfinished(p, Freed({p})) \/ Freed({p})[d] = "ok"
          BY <3>1, <3>2, <3>3, UnfinishedIsReady
        <4>. QED BY <2>2, <3>1, <3>2, <3>3, <4>1
      <3>4. CASE q # p
        <4>1. d \in Work(q) \/ pub[d] = "ok"
          BY <3>2, <3>4 DEF NeverUnblocked, Work
        <4>2. d \in Tasks
          BY <1>0, <1>2, <3>2, <3>4 DEF Work, Of
        <4>. QED BY <1>1, <3>2, <3>4, <4>1, <4>2
      <3>. QED BY <3>3, <3>4
    <2>. QED BY <1>15, <2>1, <2>2 DEF Dies
  <1>16. ASSUME Running, NEW p \in Platforms, NEW e \in Episodes, LeaseLost(p, e)
         PROVE  NeverUnblocked'
    <2>1. CASE lane[p].up /\ Dies(p)
      BY <1>15, <2>1
    <2>. QED BY <1>4, <1>16, <2>1, LossOfALane DEF LeaseLost, claimVars
  <1>17. CASE Progress
    BY <1>7, <1>8, <1>9, <1>10, <1>11, <1>14, <1>17 DEF Progress, ClaimStep, Complete, StopWork
  <1>18. CASE Running /\ Trouble
    BY <1>12, <1>13, <1>15, <1>16, <1>18 DEF Trouble, LinkBreaks
  <1>. QED BY <1>17, <1>18 DEF Next

LEMMA NextHeard ==
    ASSUME IInv, RunInv, HeardInv, NeverUnblocked, [Next]_vars
    PROVE  HeardInv' /\ NeverUnblocked'
  <1>1. CASE UNCHANGED vars
    BY <1>1 DEF vars, claimVars, nodeVars, HeardInv, HeldIsUnsaid, LaneTasks, WireIsNews,
       LaneIsFirst, AskedIsOpen, ClaimIsALife, NeverUnblocked, Open, Of
  <1>. QED BY <1>1, HeardStep, UnblockedStep

\* The lanes are typed, and for any tasks, whatever needs what, no retry runs a
\* node that needs a verdict already reached badly (unfinishedTasksFor).
THEOREM RetriesAreSound == Spec => []Inv
  <1>1. Init => HeardInv /\ NeverUnblocked
    BY InitHeard
  <1>2. IInv /\ RunInv /\ HeardInv /\ NeverUnblocked /\ [Next]_vars => (HeardInv /\ NeverUnblocked)'
    BY NextHeard
  <1>3. Spec => []NeverUnblocked
    BY <1>1, <1>2, Knowledge, PTL DEF Spec
  <1>. QED BY <1>3, TypeCorrect, PTL DEF Inv

\* A verdict that was heard is published and never taken back, though its lane
\* dies, its box is lost or its platform is dropped (laneDied).
THEOREM VerdictsStay == Spec => VerdictsOutliveTheLane
  <1>1. Init => HeardInv /\ NeverUnblocked
    BY InitHeard
  <1>2. IInv /\ RunInv /\ HeardInv /\ NeverUnblocked /\ [Next]_vars => (HeardInv /\ NeverUnblocked)'
    BY NextHeard
  <1>3. IInv /\ RunInv /\ HeardInv /\ [Next]_vars => [Verdicts]_vars
    BY HeardStep
  <1>4. Spec => [][Verdicts]_vars
    BY <1>1, <1>2, <1>3, Knowledge, PTL DEF Spec
  <1>. QED BY <1>4 DEF VerdictsOutliveTheLane, Verdicts
=============================================================================
