--------------------------- MODULE LaneResurrection ---------------------------
(***************************************************************************)
(* The lanes of a run and the boxes they run on: a platform claims a venue *)
(* and starts a lane there; a broken link or a lost lease moves what is    *)
(* unfinished to another box, within a budget; an operator may drop a      *)
(* platform or stop the run at any point of it.  The code is orchestrate   *)
(* of coordinator/run.ts and executionRoster.ts.                           *)
(*                                                                         *)
(* A step is one turn of the event loop.  Statuses arrive in the order the *)
(* lane gave them and a lane that dies takes those on the wire with it; of *)
(* the verdict gate (NodeVerdict) only the held verdict is kept.  Every    *)
(* platform is remote, claimed and unsharded, so that it may be rebuilt;   *)
(* the setup of a lane succeeds or the link dies.                          *)
(***************************************************************************)
EXTENDS Naturals, Sequences

CONSTANTS
    Platforms,
    Tasks,
    PlatformOf,      \* the platform of each task
    Needs,           \* the tasks of its platform it needs
    MaxResurrections \* the budget of a platform

ASSUME TaskAssumption ==
    /\ PlatformOf \in [Tasks -> Platforms]
    /\ Needs \in [Tasks -> SUBSET Tasks]
    /\ \A t \in Tasks : \A d \in Needs[t] : PlatformOf[d] = PlatformOf[t]
ASSUME BudgetAssumption == MaxResurrections \in Nat

VARIABLES
    starting, \* platforms whose startup claim has not been answered
    phase,    \* "claiming", then "started" once the startup claims are judged
    refused,  \* a startup claim has failed
    asking,   \* what a reclaim in flight is for: the tasks to run again
    windows,  \* claimsInFlight: the claim windows open on each platform
    episode,  \* laneEpisode: the resurrections a platform has spent
    tomb,     \* cancelled platforms
    stop,     \* deferredPlatformStops
    lane,     \* the tasks of the lane a platform has up; NoLane if none
    did,      \* the lane's own status of each task
    wire,     \* the statuses on their way from it
    pub,      \* published statuses
    held,     \* verdicts that wait for a log
    setup,    \* published status of the setup node
    lease,    \* of each platform and episode: "none", "held" or "given" back
    heard,    \* leases whose loss has been heard of, or is not watched
    built,    \* how many lanes each platform has had
    settled,  \* the run has announced its settle
    over      \* "no", then "stopping" on an interrupt, then "yes"

claimVars == <<starting, phase, refused, asking, windows>>
nodeVars == <<pub, held, setup>>
boxVars == <<lease, heard>>
vars == <<claimVars, episode, tomb, stop, lane, did, wire, nodeVars, boxVars, built,
          settled, over>>

Of(p) == {t \in Tasks : PlatformOf[t] = p}
Episodes == 0 .. MaxResurrections
NoLane == [up |-> FALSE, tasks |-> {}]
Bad == {"failed", "skipped", "cancelled", "errored"}
Terminal == {"ok"} \cup Bad

-----------------------------------------------------------------------------
(* releaseAll, overlayOnLaneStop, terminalizePlatformNodes                 *)

\* Mutant: the gate keeps the verdicts of a dying lane.
Freed_Kept(ps) == pub

\* The statuses once the gate has let go of the verdicts of platforms ps.
Freed(ps) ==
    [t \in Tasks |-> IF PlatformOf[t] \in ps /\ held[t] # "none" THEN held[t] ELSE pub[t]]
Unheld(ps) == [t \in Tasks |-> IF PlatformOf[t] \in ps THEN "none" ELSE held[t]]

Overlay(kind, st) ==
    IF st = "running" THEN IF kind = "death" THEN "errored" ELSE "cancelled"
    ELSE IF st = "pending" THEN IF kind = "death" THEN "skipped" ELSE "cancelled"
    ELSE st

\* The platforms ps stop, each in its way.
Terminalized(ps, kind) ==
    [t \in Tasks |-> IF PlatformOf[t] \in ps
                     THEN Overlay(kind[PlatformOf[t]], Freed(ps)[t]) ELSE pub[t]]
TerminalSetup(ps, kind) ==
    [p \in Platforms |-> IF p \in ps THEN Overlay(kind[p], setup[p]) ELSE setup[p]]

Terminalize(ps, kind) ==
    /\ pub' = Terminalized(ps, kind)
    /\ held' = Unheld(ps)
    /\ setup' = TerminalSetup(ps, kind)

\* What stops a cancelled platform: what was deferred, else the operator.
Deferred == [p \in Platforms |-> IF stop[p] = "none" THEN "cancel" ELSE stop[p]]

\* Mutant: a settle is announced whatever claim is in flight.
CheckSettled_Claiming ==
    settled' = (settled \/ (/\ over = "no"
                            /\ \A t \in Tasks : pub'[t] \in Terminal
                            /\ \A p \in Platforms : setup'[p] \in Terminal))

\* checkSettled, over what the handler leaves.
CheckSettled ==
    settled' = (settled \/ (/\ over = "no"
                            /\ \A p \in Platforms : windows'[p] = 0
                            /\ \A t \in Tasks : pub'[t] \in Terminal
                            /\ \A p \in Platforms : setup'[p] \in Terminal))

-----------------------------------------------------------------------------
(* The roster                                                              *)

\* Mutant: a dropped platform keeps the boxes it holds.
GiveBack_None(ps) == UNCHANGED lease

\* releaseLeases of platforms ps.
GiveBack(ps) ==
    lease' = [p \in Platforms |->
                 [e \in Episodes |-> IF p \in ps /\ lease[p][e] = "held" THEN "given"
                                     ELSE lease[p][e]]]

\* executions.cancel: the tombstone, the lanes closed, the boxes given back.
Cancel(ps) ==
    /\ tomb' = tomb \cup ps
    /\ lane' = [p \in Platforms |-> IF p \in ps THEN NoLane ELSE lane[p]]
    /\ wire' = [p \in Platforms |-> IF p \in ps THEN <<>> ELSE wire[p]]
    /\ GiveBack(ps)

\* acceptClaim and startPrimaryLane: the box of the present episode, a lane on it.
Accept(p, tasks) ==
    /\ lease' = [lease EXCEPT ![p][episode[p]] = "held"]
    /\ lane' = [lane EXCEPT ![p] = [up |-> TRUE, tasks |-> tasks]]
    /\ did' = [t \in Tasks |-> IF t \in tasks THEN "pending" ELSE did[t]]
    /\ built' = [built EXCEPT ![p] = @ + 1]

\* A box that arrives too late is given straight back, and not watched.
Refuse(p) ==
    /\ lease' = [lease EXCEPT ![p][episode[p]] = "given"]
    /\ heard' = [heard EXCEPT ![p] = @ \cup {episode[p]}]

-----------------------------------------------------------------------------
Init ==
    /\ starting = Platforms
    /\ phase = "claiming"
    /\ refused = FALSE
    /\ asking = [p \in Platforms |-> {}]
    /\ windows = [p \in Platforms |-> 1]
    /\ episode = [p \in Platforms |-> 0]
    /\ tomb = {}
    /\ stop = [p \in Platforms |-> "none"]
    /\ lane = [p \in Platforms |-> NoLane]
    /\ did = [t \in Tasks |-> "pending"]
    /\ wire = [p \in Platforms |-> <<>>]
    /\ pub = [t \in Tasks |-> "pending"]
    /\ held = [t \in Tasks |-> "none"]
    /\ setup = [p \in Platforms |-> "running"]
    /\ lease = [p \in Platforms |-> [e \in Episodes |-> "none"]]
    /\ heard = [p \in Platforms |-> {}]
    /\ built = [p \in Platforms |-> 0]
    /\ settled = FALSE
    /\ over = "no"

(* The startup claims *)

StartupClaimed(p) ==
    /\ p \in starting
    /\ starting' = starting \ {p}
    /\ IF over # "no" \/ p \in tomb
       THEN Refuse(p) /\ UNCHANGED <<lane, did, built>>
       ELSE Accept(p, Of(p)) /\ UNCHANGED heard
    /\ UNCHANGED <<phase, refused, asking, windows, episode, tomb, stop, wire, nodeVars,
                   settled, over>>

StartupFails(p) ==
    /\ p \in starting
    /\ starting' = starting \ {p}
    /\ refused' = TRUE
    /\ UNCHANGED <<phase, asking, windows, episode, tomb, stop, lane, did, wire, nodeVars,
                   boxVars, built, settled, over>>

\* The startup phase's own windows, closed.
Closed == [p \in Platforms |-> windows[p] - 1]

\* Every startup claim has been answered: a failed one stops the run's every
\* platform, else those cancelled meanwhile are terminalized.
StartupJudged ==
    /\ phase = "claiming" /\ starting = {}
    /\ phase' = "started"
    /\ windows' = Closed
    /\ IF over # "no"
       THEN UNCHANGED <<tomb, lane, wire, lease, nodeVars, settled>>
       ELSE /\ IF refused
               THEN /\ Cancel({p \in Platforms : built[p] > 0})
                    /\ Terminalize(Platforms, [p \in Platforms |->
                                                  IF p \in tomb THEN Deferred[p] ELSE "death"])
               ELSE /\ Terminalize(tomb, Deferred)
                    /\ UNCHANGED <<tomb, lane, wire, lease>>
            /\ CheckSettled
    /\ UNCHANGED <<starting, refused, asking, episode, stop, did, heard, built, over>>

-----------------------------------------------------------------------------
(* The lane, and what is heard of it                                       *)

Ready(p) == lane[p].up /\ setup[p] = "ok"

SetupDone(p) ==
    /\ lane[p].up /\ setup[p] = "running"
    /\ setup' = [setup EXCEPT ![p] = "ok"]
    /\ UNCHANGED <<claimVars, episode, tomb, stop, lane, did, wire, pub, held, boxVars,
                   built, over>>
    /\ CheckSettled

\* The needs of t the lane was given.
LaneNeeds(t) == Needs[t] \cap lane[PlatformOf[t]].tasks

Start(t) ==
    /\ Ready(PlatformOf[t]) /\ t \in lane[PlatformOf[t]].tasks
    /\ did[t] = "pending" /\ \A d \in LaneNeeds(t) : did[d] = "ok"
    /\ did' = [did EXCEPT ![t] = "running"]
    /\ wire' = [wire EXCEPT ![PlatformOf[t]] = Append(@, <<t, "running">>)]
    /\ UNCHANGED <<claimVars, episode, tomb, stop, lane, nodeVars, boxVars, built, settled,
                   over>>

Exit(t, st) ==
    /\ lane[PlatformOf[t]].up /\ t \in lane[PlatformOf[t]].tasks /\ did[t] = "running"
    /\ did' = [did EXCEPT ![t] = st]
    /\ wire' = [wire EXCEPT ![PlatformOf[t]] = Append(@, <<t, st>>)]
    /\ UNCHANGED <<claimVars, episode, tomb, stop, lane, nodeVars, boxVars, built, settled,
                   over>>

\* tick's skips, a frame after the one that blocked t.
Skip(t) ==
    /\ lane[PlatformOf[t]].up /\ t \in lane[PlatformOf[t]].tasks
    /\ did[t] = "pending" /\ \E d \in LaneNeeds(t) : did[d] \in Bad
    /\ did' = [did EXCEPT ![t] = "skipped"]
    /\ wire' = [wire EXCEPT ![PlatformOf[t]] = Append(@, <<t, "skipped">>)]
    /\ UNCHANGED <<claimVars, episode, tomb, stop, lane, nodeVars, boxVars, built, settled,
                   over>>

\* A status is heard: a verdict may be held for its log.
OnNodes(p, hold) ==
    LET t == Head(wire[p])[1]
        st == Head(wire[p])[2] IN
    /\ lane[p].up /\ wire[p] # <<>>
    /\ hold => st \in Terminal
    /\ wire' = [wire EXCEPT ![p] = Tail(@)]
    /\ pub' = IF hold THEN pub ELSE [pub EXCEPT ![t] = st]
    /\ held' = IF hold THEN [held EXCEPT ![t] = st] ELSE held
    /\ UNCHANGED setup
    /\ UNCHANGED <<claimVars, episode, tomb, stop, lane, did, boxVars, built, over>>
    /\ CheckSettled

\* Its log has ended, or a drain has given up on it.
Release(t) ==
    /\ held[t] # "none"
    /\ pub' = [pub EXCEPT ![t] = held[t]]
    /\ held' = [held EXCEPT ![t] = "none"]
    /\ UNCHANGED setup
    /\ UNCHANGED <<claimVars, episode, tomb, stop, lane, did, wire, boxVars, built, over>>
    /\ CheckSettled

-----------------------------------------------------------------------------
(* A lane's death                                                          *)

\* Mutant: the needs that cannot be met are dropped, not the task.
Unfinished_Unblocked(p, st) == {t \in Of(p) : st[t] \notin Terminal}

\* unfinishedTasksFor: what is not terminal, less what needs a verdict that is
\* neither ok nor about to be run again.
Unfinished(p, st) ==
    LET open == {t \in Of(p) : st[t] \notin Terminal}
        blocked[t \in Tasks] ==
            \E d \in Needs[t] : IF d \in open THEN blocked[d] ELSE st[d] # "ok"
    IN {t \in open : ~blocked[t]}

\* resurrectLane, up to the claim it starts.
Resurrect(p, tasks) ==
    /\ episode' = [episode EXCEPT ![p] = @ + 1]
    /\ windows' = [windows EXCEPT ![p] = @ + 1]
    /\ asking' = [asking EXCEPT ![p] = tasks]
    /\ lane' = [lane EXCEPT ![p] = NoLane]
    /\ wire' = [wire EXCEPT ![p] = <<>>]
    /\ GiveBack({p})
    /\ setup' = [setup EXCEPT ![p] = "running"]
    /\ UNCHANGED <<tomb, stop, settled>>

\* The budget is spent or nothing is left to run: the platform stops, at once
\* or, when a claim is in flight, when that returns.
GiveUp(p) ==
    /\ Cancel({p})
    /\ IF windows[p] > 0
       THEN /\ stop' = [stop EXCEPT ![p] = "death"]
            /\ UNCHANGED setup
       ELSE /\ setup' = TerminalSetup({p}, [q \in Platforms |-> "death"])
            /\ UNCHANGED stop
    /\ UNCHANGED <<episode, windows, asking>>
    /\ CheckSettled

\* laneDied, for the lane or the lease of the present episode.
Dies(p) ==
    LET within == episode[p] < MaxResurrections
        freed == Freed({p})
        left == Unfinished(p, freed)
        stopped == Terminalized({p}, [q \in Platforms |-> "death"])
    IN /\ \/ /\ within /\ left # {}
             /\ Resurrect(p, left)
             /\ pub' = freed /\ held' = Unheld({p})
          \/ /\ ~within \/ left = {}
             /\ pub' = IF windows[p] = 0 THEN stopped ELSE IF within THEN freed ELSE pub
             /\ held' = IF windows[p] = 0 \/ within THEN Unheld({p}) ELSE held
             /\ GiveUp(p)
       /\ UNCHANGED <<starting, phase, refused, did, built, over>>

\* The link breaks: onDead of the lane that is up.
LinkBreaks(p) == lane[p].up /\ Dies(p) /\ UNCHANGED heard

\* Mutant: every loss of a lease is the death of the present lane.
Latched_Always(p, e) == TRUE

\* The latch: a lease of a superseded episode is news about a box nobody uses.
Latched(p, e) == e = episode[p]

\* The lease of episode e is lost, or was lost as it was being given back.
LeaseLost(p, e) ==
    /\ lease[p][e] # "none" /\ e \notin heard[p]
    /\ heard' = [heard EXCEPT ![p] = @ \cup {e}]
    /\ IF Latched(p, e) /\ p \notin tomb
       THEN Dies(p)
       ELSE UNCHANGED <<claimVars, episode, tomb, stop, lane, did, wire, nodeVars, lease,
                        built, settled, over>>

-----------------------------------------------------------------------------
(* The answer of a reclaim                                                 *)

\* Mutant: the stop a claim put off is forgotten.
StopLate_Forgotten(p) == UNCHANGED nodeVars /\ CheckSettled

\* The stop the claim in flight put off.
StopLate(p) == Terminalize({p}, Deferred) /\ CheckSettled

Answered(p) ==
    /\ asking[p] # {}
    /\ asking' = [asking EXCEPT ![p] = {}]
    /\ windows' = [windows EXCEPT ![p] = @ - 1]
    /\ UNCHANGED <<starting, phase, refused, episode, stop, over>>

\* There is a box: back it goes, or the unfinished tasks are reopened and a lane
\* started on it.
ReclaimOk(p) ==
    /\ Answered(p)
    /\ \/ /\ over # "no"
          /\ Refuse(p)
          /\ UNCHANGED <<tomb, lane, did, wire, nodeVars, built, settled>>
       \/ /\ over = "no" /\ p \in tomb
          /\ Refuse(p)
          /\ StopLate(p)
          /\ UNCHANGED <<tomb, lane, did, wire, built>>
       \/ /\ over = "no" /\ p \notin tomb
          /\ pub' = [t \in Tasks |-> IF t \in asking[p] THEN "pending" ELSE pub[t]]
          /\ Accept(p, asking[p])
          /\ UNCHANGED <<held, setup>>
          /\ CheckSettled
          /\ UNCHANGED <<tomb, wire, heard>>

\* There is none: the platform is red.
ReclaimFails(p) ==
    /\ Answered(p)
    /\ \/ /\ over # "no"
          /\ UNCHANGED <<tomb, lane, wire, lease, nodeVars, settled>>
       \/ /\ over = "no" /\ p \in tomb
          /\ StopLate(p)
          /\ UNCHANGED <<tomb, lane, wire, lease>>
       \/ /\ over = "no" /\ p \notin tomb
          /\ Cancel({p})
          /\ Terminalize({p}, [q \in Platforms |-> "death"])
          /\ CheckSettled
    /\ UNCHANGED <<did, heard, built>>

-----------------------------------------------------------------------------
(* The operator, and the end                                               *)

CancelPlatform(p) ==
    /\ p \notin tomb
    /\ Cancel({p})
    /\ IF windows[p] > 0
       THEN stop' = [stop EXCEPT ![p] = "cancel"] /\ UNCHANGED nodeVars
       ELSE Terminalize({p}, Deferred) /\ UNCHANGED stop
    /\ UNCHANGED <<claimVars, episode, did, heard, built, over>>
    /\ IF windows[p] > 0 THEN UNCHANGED settled ELSE CheckSettled

\* An interrupt: the held verdicts are let go, and no settle is announced.
Shutdown ==
    /\ over = "no"
    /\ over' = "stopping"
    /\ pub' = Freed(Platforms)
    /\ held' = Unheld(Platforms)
    /\ UNCHANGED <<claimVars, episode, tomb, stop, lane, did, wire, setup, boxVars, built,
                   settled>>

\* The lanes are closed and the boxes given back.
Stops ==
    /\ over' = "yes"
    /\ lane' = [p \in Platforms |-> NoLane]
    /\ wire' = [p \in Platforms |-> <<>>]
    /\ GiveBack(Platforms)
    /\ UNCHANGED <<claimVars, episode, tomb, stop, did, nodeVars, heard, built, settled>>

StopWork == over = "stopping" /\ Stops

Complete == over = "no" /\ settled /\ Stops

\* What goes on by itself.
LaneStep ==
    \/ \E p \in Platforms : SetupDone(p)
    \/ \E t \in Tasks : Start(t)
    \/ \E t \in Tasks, st \in {"ok", "failed"} : Exit(t, st)
    \/ \E t \in Tasks : Skip(t)
    \/ \E p \in Platforms, hold \in BOOLEAN : OnNodes(p, hold)
    \/ \E t \in Tasks : Release(t)

ClaimStep ==
    \/ \E p \in Platforms : StartupClaimed(p) \/ StartupFails(p)
    \/ \E p \in Platforms : ReclaimOk(p) \/ ReclaimFails(p)

\* What need not happen.
Trouble ==
    \/ \E p \in Platforms : LinkBreaks(p)
    \/ \E p \in Platforms, e \in Episodes : LeaseLost(p, e)
    \/ \E p \in Platforms : CancelPlatform(p)
    \/ Shutdown

\* The run completes in the turn it settles in.
Running == over # "yes" /\ ~(settled /\ over = "no")

Progress ==
    \/ Running /\ (LaneStep \/ StartupJudged)
    \/ (Running \/ over = "yes") /\ ClaimStep
    \/ Complete
    \/ StopWork

Next == Progress \/ (Running /\ Trouble)

Spec == Init /\ [][Next]_vars
FairSpec == Spec /\ WF_vars(Progress)

-----------------------------------------------------------------------------
\* The types; a platform has at most two claim windows open at once, its own
\* start-up one and one resurrection.
TypeOK ==
    /\ starting \subseteq Platforms
    /\ phase \in {"claiming", "started"} /\ refused \in BOOLEAN
    /\ asking \in [Platforms -> SUBSET Tasks]
    /\ windows \in [Platforms -> 0 .. 2]
    /\ episode \in [Platforms -> Episodes]
    /\ tomb \subseteq Platforms
    /\ stop \in [Platforms -> {"none", "cancel", "death"}]
    /\ lane \in [Platforms -> [up : BOOLEAN, tasks : SUBSET Tasks]]
    /\ did \in [Tasks -> {"pending", "running"} \cup Terminal]
    /\ \A p \in Platforms : \A i \in DOMAIN wire[p] : wire[p][i][1] \in Of(p)
    /\ pub \in [Tasks -> {"pending", "running"} \cup Terminal]
    /\ held \in [Tasks -> {"none"} \cup Terminal]
    /\ setup \in [Platforms -> {"running"} \cup Terminal]
    /\ lease \in [Platforms -> [Episodes -> {"none", "held", "given"}]]
    /\ heard \in [Platforms -> SUBSET Episodes]
    /\ built \in [Platforms -> 0 .. MaxResurrections + 1]
    /\ settled \in BOOLEAN /\ over \in {"no", "stopping", "yes"}

\* One ssh drop kills the lane and the lease under it, and only one of the two
\* signals may spend a resurrection: no platform has had more resurrections than
\* lanes to lose (laneEpisode, watchLease).
OneDeathPerLane == \A p \in Platforms : episode[p] <= built[p]

\* A run does not announce its settle while a platform is acquiring a box,
\* however terminal its nodes look (claimsInFlight, checkSettled).
NoSettleMidClaim ==
    settled /\ over = "no" => starting = {} /\ \A p \in Platforms : asking[p] = {}

\* A box is held exactly while a lane of the present episode is up on it,
\* whatever claim, cancel, death and stop it raced (executionRoster, acceptClaim).
BoxPerLane ==
    \A p \in Platforms, e \in Episodes :
        lease[p][e] = "held" <=> lane[p].up /\ e = episode[p]

\* A retry runs no node that needs a verdict the lane before it had already
\* reached badly (unfinishedTasksFor).
NeverUnblocked ==
    \A p \in Platforms : \A t \in lane[p].tasks \cup asking[p] : \A d \in Needs[t] :
        d \in lane[p].tasks \cup asking[p] \/ pub[d] = "ok"

\* Once no claim of a cancelled platform is in flight its every node, setup too,
\* says that it is over (deferredPlatformStops).
CancelIsWholeTruth ==
    over = "no" => \A p \in tomb : windows[p] = 0 =>
        setup[p] \in Terminal /\ \A t \in Of(p) : pub[t] \in Terminal

\* A verdict the coordinator has heard is kept through the death of its lane:
\* it is published, and what is published is never taken back (laneDied,
\* terminalizePlatformNodes).
VerdictsOutliveTheLane ==
    [][\A t \in Tasks :
         /\ pub[t] \in Terminal => pub'[t] = pub[t]
         /\ held[t] # "none" => pub'[t] = held[t] \/ held'[t] = held[t]]_vars

\* A retry takes every node the dead lane left unfinished: while a lane is up no
\* node is open that nobody runs (run.ts:2530).
NobodyLeftBehind ==
    over = "no" => \A p \in Platforms :
        lane[p].up => \A t \in Of(p) \ lane[p].tasks : pub[t] \in Terminal

\* Under fairness no death, lost lease, drop or stop put off keeps a run from its
\* end, as long as no retry has left a node behind, which one that is blocked by
\* a verdict lost with the link may (checkSettled, unfinishedTasksFor).
EveryRunEnds == []NobodyLeftBehind => <>(over # "no")

\* The lanes are typed and no retry runs a node whose needs were not met.
Inv == TypeOK /\ NeverUnblocked
=============================================================================
