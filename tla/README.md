# odu, modelled

TLA+ modules for the parts of odu where several processes, streams or timers
meet: who may write a run's record, how a lane runs its recipes, how a verdict
and its log come together, how a lane that died is replaced, how the result
reaches GitHub, how runs share the build machines and a checkout, what a waiter
may conclude, what a repeated request may do, and how the binary cache keeps what
was pushed.  TLC checks the modules on small instances; TLAPS proves theorems
about every component that is modelled, for every value of their constants.  `PROJECT.json` lists the
components, the runs, the mutants (one plausible bug for each checked property,
which TLC finds), the source lines each definition stands for, the hazards and
the theorems.

    tlc -workers 2 -config lane_chain.cfg MCLaneRunner
    tlapm LaneRunner_proofs.tla

Paths below are under `src/packages/`; `run.ts`, `lane.ts`, `statuses.ts` and the
like are in `execution/src/coordinator/`.

## 1. The system

odu runs a `just` pipeline on one or more machines.  A **coordinator** process
(one per run) reads the pipeline, **claims a venue** (a machine, by a flock held
over ssh) for each platform, starts a **lane runner** there, and folds the lanes'
statuses and logs into one board.  It writes a durable **run record**, serves the
board on a socket, and posts commit statuses to GitHub.  A long-lived **service**
starts, watches, cancels and retries runs and serves the web face; a **binary
cache** receives what the recipes built.

| Component | State | Operations | Talks to | What is hard | What makes it right |
|---|---|---|---|---|---|
| run ownership and journal (`run-history/src/owner.ts`, `store.ts`, `retention.ts`; `history.ts`) | `owner.json`, `owner.<n>.claim`, journal, verdict, tombstone | claim, heartbeat, release, append, finalize, expire | files shared by processes, perhaps of several hosts | every system call interleaves; death between any two; torn writes | one writer at a time; an epoch is one process's; a sequence number is one line |
| lane runner (`execution/src/runner/runner.ts`, `reap.ts`, `pushResults.ts`, `workspace.ts`) | node statuses, invocations, logs, process groups, worktrees | configure, extend, rerun, cancel, dispose; child callbacks | the coordinator, by two streams; children; the cache | callbacks of a superseded child; exit, close and push in any order | a log and a verdict belong to the present execution; nothing waits for ever; no process survives |
| verdict gate and log join (`verdictGate.ts`, `nodeLogSink.ts`, `lane.ts`, `run.ts`) | published and held statuses, the served log, attempts | offer, release, drain, stamp, seal, settle | a lane's status and log streams, the history | two streams without a common order; logs that never end; reruns | a verdict is published behind its log; the run settles all the same; a short log says so |
| lanes and boxes (`run.ts`, `executionRoster.ts`, `laneResurrection.ts`) | claims in flight, episodes, lanes, leases, tombs | claim, accept, die, resurrect, give up, cancel, shutdown | venue claims that take minutes, two death signals | every answer may be late and unwanted | a box is held while a lane is up on it; no settle mid-claim; a budget spent once a death |
| commit statuses (`statuses.ts`, `common/forge.ts`) | desired, confirmed and in-flight payload of each context; queue; phase | seed, post, debounce, send, back off, interrupt, finalize | the node transitions; `gh` | GitHub is ahead of or behind what is known of it; posts during the last drain | the last verdict is shown or recorded as owed; foreign contexts are untouched; the drain ends |
| venue lease (`lease.ts`, `runner/leaseHold.ts`) | a flock held by an ssh child, pulses | claim, queue, pulse, release | remote hosts | lost against released on purpose | one run a box; a loss is noticed |
| checkout lock and start (`checkoutLock.ts`, `launcher.ts`, `socket.ts`) | pid file, socket | acquire, supersede, serve | other starters in the checkout | a stale file and a fresh one look alike | one coordinator a checkout |
| waiting (`waitForSettle.ts`) | last live frame, deadline | subscribe, redial, answer | the socket, the ledger, the dead run's files | the end is seen by three witnesses in any order | no red run is called green |
| retry and receipts (`recovery.ts`, `run-history/src/receipts.ts`, `reconcile.ts`; `service/src/retry.ts`, `requests.ts`) | a receipt for each request | claim, mark dispatched, complete, reconcile | coordinators, several callers | a repeated request after a crash | at most one effect a request; an answer in the end |
| history queries (`run-history/src/attention.ts`, `query.ts`) | none | folds over the journal | readers with cursors | trimmed pages | a cursor skips nothing and moves |
| service (`service/src/*`) | registry keyed by fingerprints, request receipts, push grants | start, list, wait, logs, cancel, retry | coordinators, the catalog | a cached answer of a changed run | an answer is of one moment of the run |
| binary cache (`cache/src/*`, `objects/src/*`) | rows, objects, staged uploads, pins | upload, prove, record, pin, collect, sweep | object stores, pushers | twins sharing an object; a crash between object and row | what is recorded is there; what is pinned stays |
| identity, edge tunnel, launch, host, composition, faces | sessions; DNS records; daemon; routes | request handlers | browsers, GitHub, a DNS vendor | reconciling with a vendor | not part of the core |

## 2. What each module models

| Module | Component | A step is |
|---|---|---|
| `OwnershipFence` | run ownership and journal | one system call of one process |
| `LaneRunner` | lane runner | one turn of the lane's event loop |
| `LaneNode` | what a coordinator may hear of a lane | a turn of the lane: at most three moves of each task |
| `NodeVerdict` | verdict gate and log join, settling | one turn of the coordinator's event loop, or a step of the lane it hears |
| `LaneResurrection` | lanes and boxes | the same |
| `StatusPoster` | commit statuses, both ends of a run | the same; the wire's answers are steps too |
| `VenueLease` | venue leases: several runs and the boxes | one turn of a coordinator's loop for one claim, or what a box does alone |
| `CheckoutRun` | checkout lock, start, both ends of a run | one file operation of one process, as others see it |
| `SettleWait` | the settle wait, over `CheckoutRun` | one await of the waiter, or a step of a run |
| `Requests` | request receipts, retry, start, reconciliation | one file operation or answer of one call |
| `OneEffect` | what a request promises | an effect, or an answer |
| `CacheBucket` | a bucket of the binary cache | the code from one await to the next |
| `MC...` | the instances' constants | |
| `RunEnds_proofs` | theorems about `StatusPoster`, `CheckoutRun` and `SettleWait` | |
| the other `..._proofs` | theorems about the module of that name | |

`NodeVerdict`, `LaneResurrection` and `StatusPoster` are three views of one
coordinator.  Each keeps what it needs of the others: the lane of `NodeVerdict`
is `LaneRunner` reduced to a status, a line and the end of a log, which is `LaneNode`;
`LaneResurrection` keeps of the gate only that a verdict may be held;
`StatusPoster` keeps of a node only that it starts, ends or is dropped.
`VenueLease` is what `LaneResurrection` takes a venue claim to be, seen from the
boxes and between runs; `SettleWait` EXTENDS `CheckoutRun` and composes the two;
`Requests` implements `OneEffect`, and `LaneRunner` implements `LaneNode`, through
refinement mappings.

**OwnershipFence.** `published` is `owner.json`, `claims` the exclusive claim
files, `journal` the lines with the sequence number each carries.  A claim is
look, choose, create, fill, publish (`owner.ts` 239-286); a writer registers,
opens the journal, then for ever checks the fence and appends, stamps or
releases.  A stamp is three steps: the clock is read (`ReadClock`), the owner is read,
the record is replaced.  `Crash` may come at any pc; `AppendFails`,
`CrashMidAppend` are the failed and the torn write, of the registration's line too.
The janitor is retention.ts's.  Not modelled: what a line says, the catalog, the
per-node status files.

**LaneRunner.** `kids[n]` is the sequence of a node's children, of which the last
holds the node; `phase` is the invocation's.  Each handler includes the `tick` it
ends with.  `logs` keeps which attempts wrote to a log and whether it has ended:
`append` on an ended log throws in the code and sets `threw` here.

**LaneNode.** Of a task its execution, the status the lane gives it, whether the
execution has said a line and whether its log has ended, and the seven moves that
change them: `Start`, `Skip`, `Write`, `Exit`, `EndLog`, `Cancel`, `Rerun`.  The mapping
(`AsHeard`) counts resets as executions and takes every verdict but `skipped` for one.
The lanes of `NodeVerdict` make these moves one by one, with the frames each puts on
the two streams, and no others (`LanesAreHeard`).  That none of the moves is missing
there, but for a second line of an execution, is seen by reading: it is a statement
about ENABLED, which the prover cannot make.

**NodeVerdict.** `wire` and `out` are the two streams of a lane, unordered with
one another, each in order; an execution of a node writes one line, a cancel one more.  `pub`, `held` and `sink` are what the board, the
gate and the log tail hold; `att` is the history's attempts with their seal.

**LaneResurrection.** `windows` is `claimsInFlight`, `episode` is `laneEpisode`,
`stop` is `deferredPlatformStops`.  A start-up claim and a resurrection's claim
may overlap on one platform, as they do in the code.  Platforms are remote and
unsharded; the setup of a lane succeeds or its link dies.

**StatusPoster.** An entry is `ContextPost`; `queue` is the promise chain with the
current send first; `awaited` is the part of it that `finalize` waits for.  A
payload stands for a status with its exact wording, because dedup compares the
wording too.  Left out: attempt counts, delays, error texts (they choose when a
retry comes, which the model leaves open), a poster that is not enabled, and an
interrupt before the seed has answered (nothing has been posted then, and
nothing can be).

**VenueLease.** A claim is one platform of one run (`leaseLanes` is called once for
each platform).  `lock[s]` is the flock of a slot: free, kept by the agent of a
claim's present session, or by an orphan whose caller has gone; `late` is a claim
RPC that was delivered and whose caller gave up.  A session that is destroyed turns
a hold into an orphan, which ends by EOF or by the dead-man in its own time.  `Wants`
says which platforms each run claims; a run keeps its venues until all of it has
settled.

**CheckoutRun.** The lock file is an inode (`lock` is its creator and whether it has
a pid), because the pid a holder writes goes nowhere when another has unlinked the
file.  `tryAcquireRunLock` is look, unlink, create, write.  Both ends of a run are
here: finalize, record, close at the natural end; snapshot, post, record, close at
an interrupt; each may find the other under way.

**SettleWait.** A wait dials, takes frames, and at the end of a subscription asks the
record, then the residue, then its own last frame.  `since` is a history variable:
what the run of the last frame has said from that frame on.

**Requests.** One request id, presented several times by calls in several processes:
the receipt on disk and its states, the live retry of several roots with its guard,
the linked replay, the start with a planned child, reconciliation after a crash, the
coordinator's `rerunNode`.  Between two file operations of one call no other call of
that process moves, but every other process may.  `OneEffect` says what the
repeated request promises: at most one of its two effects ever happens, and an
answer that speaks of one is true when given and stays true.  The mapping takes the
effect from the resets and the child's run, and an answer from `told`.

**CacheBucket.** Rows and pins (the database), archives in two stores, pushes, pins,
`missing`, the collection with its sweep, a move between stores with its copier, and
the self-proof pass.  `writer` is the write lock; what runs outside it in the code
runs outside it here.  A row carries what the narinfo said that was recorded last
(`info`: the object's key and the references), and a later push of the path replaces
it (`db.ts` 866-872); `Infos` are the narinfos that may be pushed of a path, and `Old`
those held from before, which the self-proof pass is about.  Twins are paths whose
objects have one NarHash (`HashOf`).  `stored`, `asked` and `stale` are history
variables; `stale` are the rows that the self-proof pass wrote back as its snapshot
had them, over an eviction or over a later push.

## 3. The runs

A name joined by "and" in the second column is one property of several named parts.

| Run | Shows | Instance |
|---|---|---|
| `fence_cross_host` | types; one writer past the fence at a time; a sequence number is one line | 2 processes on 2 hosts, 5 ticks with a grace of 2, 4 lines, one failed or torn append |
| `fence_race` | an epoch is held by one process | 3 processes claiming at once, each on a host of its own, 3 epochs, 2 tries |
| `lane_chain` | a log and a verdict are of the present execution; a log is never written past its end and ends; the lane rests at `tick`'s fixed point; green means served by the cache and of this tree; one start a reset; no survivor; a verdict is final until a reset, and what is heard is `LaneNode`'s | 2 tasks in a chain, the second brought by `extend`, one that pushes, one that leaves a stray, one rerun |
| `gate_lane` | verdict behind log; held means unpublished; the drain is running when only logs are missing; a held verdict is what is published, a log that ended takes nothing and short stays short; whole means whole; the run settles | 2 nodes of a lane, one rerun, one status frame in flight |
| `revive` | no settle while a box is being acquired; a box exactly while a lane is up; a cancel is the whole truth once its claims are answered; a death spends one resurrection; a retry runs nothing that is blocked; verdicts outlive the lane; the run ends | 1 platform, a chain of 2 and a free task, two resurrections |
| `poster` | nothing owed is forgotten; the last verdict is shown or owed and a run that ended strands nothing; foreign contexts untouched; the drain ends | 2 contexts, 2 starts or drops in all, seeds pending, success and error |
| `requests` | live and partial answers are true for good, one presentation is at work at a time and the receipt is marked before it acts; at most one effect and every answer true for good (`OneEffect`); a claim is settled | 2 presentations, 2 processes of one host, 2 roots, one guarded |
| `requests_doubled` (violated) | a lost reply may double a retry, if the live coordinator then ends before the new run takes the checkout's lock | the same, with lost replies |
| `cache` | the bytes of every row that no snapshot has undone are in the store the bucket names; pins hold; the collection takes only what nothing fresh or pinned reaches | 3 paths of which two are twins and one, held from before, may be pushed again with other bytes; 1 push, 1 collection, 1 move, 1 crash, a day |
| `cache_stored` (violated) | a push does not renew what is already there | the same |
| `lease` | never two sound holds at work on a slot; a lost hold is heard of; the line moves | 2 runs at one linux box, one of them with a darwin box its sharded lane needs; 1 fault, 1 resurrection, `--no-wait` or not |
| `wait` | an ordinal is one run's; a settled verdict is true of the run it names; no live run is reported dead; the wait returns | a lingering run that is up and a second that starts or supersedes it, 1 fault, 1 rerun |

**Why the bounds are enough.**  The races are between two: two claimants and the
incumbent (`fence_race` has three processes, so that a loser meets a second
winner), an execution and the one that replaces it (one rerun), a lane and its
successors (two resurrections, so that the budget is spent and refused), a
dependent and what it needs, a status and the one that overtakes it, a holder and
who waits for it, a request and its repeat, a push and the collection.  `MaxTime`
exceeds twice the grace, so that a takeover and the return of the displaced
owner both happen; `MaxLines` lets each of two owners write twice; the queue of
the poster has no bound of its own.  Two platforms of one run meet only in the
start-up claims, in the interrupt and in settling; what is proved of
`LaneResurrection` is proved of any number of them, and `revive_two` below checks
two.  Each bound is a constant named in a guard.

**Further configurations.**  They are kept beside the runs, to be started by hand
(`tlc -config <name>.cfg <module>`).  Larger instances that pass:
`revive_two` (`MCLaneResurrection`, two platforms, some two million states) and
`lease_two` (`MCVenueLease`, one platform, two faults).  And one for each of
the disagreements of section 6 that has no run above; TLC finds each violated:

| Configuration | Module | Violated |
|---|---|---|
| `fence_winners` | `MCOwnershipFence` | `ExactlyOneWins` |
| `gate_stale` | `MCNodeVerdict` | `VerdictBehindLog` |
| `revive_blocked` | `MCLaneResurrection` | `NobodyLeftBehind` |
| `poster_stranded` | `MCStatusPoster` | `InterruptStrandsNothing` |
| `poster_stuck` | `MCStatusPoster` | `FinishedIsShown` |
| `record_inflight` | `MCCheckoutRun` | `NeverGreenInFlight` |
| `lock_race` | `MCCheckoutRun` | `OneHolder` |
| `lease_line` | `MCVenueLease` | `NoCircularWait` |
| `cache_served` | `MCCacheBucket` | `Served` |

**Assumptions of an instance.**  `fence_cross_host` takes claims that do not
overlap (`Serial`) and live owners whose stamp never gets a grace old
(`Punctual`).  Without either, two writers are possible: fencing by a clock needs
them, and `fence_race` makes neither.  `poster` takes a failed send to be one
that did not arrive (`Landing` FALSE) and no rerun dropped before it starts
(`DropReruns` FALSE); `requests` takes a lane's answer to reach its coordinator
(`LostReplies` FALSE) and a launch that is given up never to register
(`LateChild` FALSE); section 6 says what comes of the other values.  `lease` has one contested
platform: with two, runs may wait for each other (`lease_line`).  `EveryRunEnds` is
claimed of runs in which no retry left a blocked task behind (`revive_blocked`);
`VerdictIsTrue` excepts a run whose record was written over resumed nodes
(`record_inflight`), and `NeverBuried` one whose lock file another starter took
(`lock_race`).

**Deadlock** is checked where the system never stops by itself; a run that is
over, a lane that waits for its coordinator and processes that have closed stop
rightly, and their configurations say so.

## 4. Fairness

* `LaneRunner`: an exited child's stdio closes and a send to the cache settles
  (Node emits `close`; the send has a deadline).  No recipe is assumed to end, no
  operator to do anything.
* `NodeVerdict`: status frames that were sent arrive, a drain's wait ends (it has
  an idle timer and a ceiling) and a run that has settled completes.  The end of a
  log is not assumed to arrive: that is what the drain is for.
* `LaneResurrection`: one weak fairness on `Progress`: a claim is answered (it
  has a deadline), a lane makes progress or dies, what it says is heard, a held
  verdict is let go in the drain's bound, a settled run completes.  Deaths, lost
  leases and operators are never fair.
* `StatusPoster`: a send is answered (a timeout answers it if nothing else does)
  and the drain's continuation runs.  Debounce and backoff timers are not needed
  for what is checked.
* `VenueLease`: the loop of a claim and the callbacks of its session come round, a box
  carries out what it was asked and notices in the end that its caller has gone
  (EOF or the dead-man's 45 s).  `LineMoves` also takes recipes to end; `LossIsHeard`
  does not.  No fault is fair, and no max-hold.
* `SettleWait`: the coordinators' own steps and the waiter's.  No timeout is assumed
  to come: the wait returns without one.
* `Requests`: one weak fairness on the calls, the coordinator and the launched run.
  `ClaimsSettle` asks that of every claim, a start's too, and whatever becomes of the
  coordinator; it excepts a claim whose process died, and one whose retry was left by
  an exception (section 6, `recovery.ts` 480).

## 5. What is proved

Every theorem holds for all values of the constants that meet the assumptions named,
without fairness.  An assumption written `~X` is a hypothesis of that theorem, not
of the module.

| Theorem | Says | From |
|---|---|---|
| **`OwnershipFence_proofs`** | | `EpochAssumption`, `TimeAssumption`, `BoundAssumption`, `SwitchAssumption` |
| `TypeCorrect` | every reachable state is typed | neither `Serial` nor `Punctual` |
| `EpochsUnique` | `UniqueEpoch`: no epoch is held by two processes | neither `Serial` nor `Punctual` |
| `OneWriter` | `SoleWriter`: one process at a time is past the fence | `Serial`, `Punctual`, `Grace > 0` |
| `OneLinePerSeq` | `SeqMeansOneLine`: no two readable lines share an ordinal | the same |
| **`LaneRunner_proofs`** | | `NodeAssumption`, `NeedsAssumption` |
| `LaneIsSound` | `Inv`: types; a log that ended is not written; one start a reset | |
| `OwnWordsOnly` | `LogOfThisAttempt`: a log holds the words of the present attempt | |
| `NothingWaits` | `AtRest`: every handler leaves the lane at `tick`'s fixed point | `AcyclicAssumption`, which it alone needs |
| `GreenSpeaksTrue` | `GreenIsTrue`: what is green ran in this workspace and is served | |
| `NobodySurvives` | `NoSurvivors`: no process group outlives the lane | |
| `VerdictsAreFinal` | `TerminalIsFinal`: only a reset takes a verdict back | |
| `LaneIsHeard` | `ImplementsLane`: each turn is, of each task, at most three moves of `LaneNode` | |
| `HeardFollows` | `HeardInOrder`: the two before | |
| **`NodeVerdict_proofs`** | | `LaneAssumption` |
| `GateIsSound` | `Inv`: held means unpublished and waiting; a drain bounds the wait | |
| `WhatWasHeardIsKept` | `HeardIsKept`: over a held verdict only it or a restart is published; an ended log takes nothing; short stays short | |
| `FirstVerdictAfterLog` | `FirstVerdictBehindLog`: a first verdict is behind its log | |
| `WholeHasItsLine` | `WholeUnlessLost`: what is called whole has all that was written | |
| `LanesAreHeard` | the lanes it hears are `LaneNode`'s | |
| **`LaneResurrection_proofs`** | | `TaskAssumption`, `BudgetAssumption` |
| `BoxesFollowLanes` | `BoxPerLane`: a box is held exactly while a lane of the present episode is up | |
| `OneResurrectionPerLane` | `OneDeathPerLane`: no more resurrections than lanes to lose | |
| `SettleAwaitsClaims` | `NoSettleMidClaim`: no settle while any platform is acquiring a box | |
| `CancelsEnd` | `CancelIsWholeTruth`: a cancelled platform has ended once its windows have closed | |
| `RetriesAreSound` | `Inv`: types; a retry runs nothing whose needs were not met | no acyclicity |
| `VerdictsStay` | `VerdictsOutliveTheLane`: a verdict that was heard is published for good | |
| `TypeCorrect` | `TypeOK`: types; at most two windows open, no more lanes than lives | |
| **`RunEnds_proofs`**, statuses | | `PosterAssumption` |
| `NothingForgotten` | `Inv`: what is owed has a timer or a place in the queue | |
| `ForeignLeftAlone` | `ForeignUntouched`: a context no node posted to is never written | |
| `ClosesTruly` | `ClosesTrue`: a closed poster has shown the last verdicts or recorded the debt | `~Landing`, `~DropReruns` |
| **`RunEnds_proofs`**, checkout | | `RunsAssumption`, `CheckoutBounds`, `NobodyAssumption` |
| `OneServes` | at most one coordinator is up, and an ordinal that was shown is one run's | |
| `GreenUnlessResumed` | the ledger says passed of a live run only when its nodes do, unless a rerun came after its end was taken down | |
| **`RunEnds_proofs`**, wait | | the same, `WaitAssumption` |
| `WaitInvHolds` | `WaitInv`: types of the wait and of the runs; an ordinal is one run's | |
| `VerdictIsTrueHolds` | `VerdictIsTrue`: a settled verdict is what its run said in the last frame or later | |
| `NeverBuriedHolds` | `NeverBuried`: no run that holds its lock is reported dead | |
| **`VenueLease_proofs`** | | `PoolAssumption`, `BoundsAssumption` |
| `ExclusiveVenues` | `Inv`: types; two claims never work on one slot while the hold of each is sound | |
| `Holding` | `IInv`: who says it holds has the lock; between two sessions a claim has no agent | |
| **`Requests_proofs`** | | `RequestsAssumption`, `NobodyAssumption`; `~LostReplies`, `~LateChild` |
| `AnswersStayTrue` | `Inv`: types; one claimant; marked before acted; a live or partial answer stays true | |
| `OneEffectRefined` | `ImplementsOneEffect`: every step is one of `OneEffect` or a stutter | |
| `NeverBothKept` | `NeverBoth`: no retry both resets roots and starts a run | |
| **`CacheBucket_proofs`** | | `CacheAssumption`, `CacheNames` |
| `RowsCanBeServed` | `Inv`: types; the bytes of a row are in the bucket's store, unless the self-proof pass has put it back over its eviction or over a later push | |
| `PinsAreHeld` | `PinsHold`: what a pin was resolved to stays while the pin does | |
| `OnlyUnwantedGo` | `EvictsOnlyUnwanted`: what goes is reached by nothing fresh and no pin when it goes | |

The hypotheses of `OneWriter`, `ClosesTruly` and `OneEffectRefined` are not for the
prover's sake: `fence_winners`, `poster_stuck` and `requests_doubled` show what
happens without them.

*The fence.*  `UniqueEpoch` is not inductive: a process in `fill` must be known to
have made the claim file of its target.  The invariant adds that the holder of an
epoch is the process that file names; `CreateClaim` succeeds only where there was
no file, and no file is ever removed.  `OneWriter` adds `Alone`: the record of a
live owner is its own and fresh, so whoever looks is refused; a claimant is alone,
and no claim file is above its target; whoever is past the fence is ahead of
every line of the journal, so the ordinal it chose is new.

*The lane.*  `Fits` says what a node may be, of one node: its status, the phase of
its invocation, the last of its starts, its two logs and the number of its resets.
It is what the properties lack to be inductive: that a node which runs has a start
that is alive and of this attempt, that one which pushes has exited, that a log is
open as long as somebody may still write to it.  `Placed` and `Warm` tie the nodes
to the workspace and to the bucket, `Kept` is what remains true after dispose.  A
handler is one node's part replaced by one that fits (`NodeMoves`), or that and a
pass (`NodeTicks`); rerun, configure, extend and the end of the setup node, which
move several, go to the pass directly (`TickDone`).  A start that no longer holds
its node changes nothing that anything reads (`Aloof`), which is the whole defence
against late callbacks.  The pass takes pending nodes only, and its own result has
nothing blocked or runnable (`TickRests`).  The two recursions over the needs
(`blocked`, `transitiveDependents`) are functions chosen by their equation; that
there is one is proved without induction, as the least set closed under it
(`LeastExists`, after Knaster and Tarski).  That the pass leaves nothing blocked
needs that the equation has no second solution, hence `AcyclicAssumption`:
`validatePipeline` refuses a circle (`common/spec.ts` 80-121) before a lane sees it.

*What is heard of the lane.*  A task's view is made from its status, its recipe log and
the number of its resets.  What a handler does to one of the three is a move of that
view (`SeenMoves`), a pass of `tick` is a start or a skip (`TickMoves`), and moves add
up (`Moves2`, `Moves3`).  The steps of a handler are then counted: a spawn that fails
says a line, fails the task and ends its log, in that order; a reset that starts again
at once is two.  `Fits` gives the guards: who says a line has a log that is open, and
who exits was running.

*The gate.*  What is withheld is unpublished and its log has not ended; when only
logs are missing a drain is running.  A frame says no more than its lane had done
when it sent it, and what is under way follows in order upon what has been heard;
hence the log's frames of an execution are there or still coming when its verdict
is, and a lane that answered the drain owes nothing.  An attempt is called whole only
with its line: a log once accounted for stays so, and the sink and the history agree
on the one attempt that is open.

*Boxes and lanes.*  `IInv` is five parts.  `Shape` types what the roster owns.
`BoxPerLane` is the goal.  `ClaimsHaveNoLane`: while a claim of a platform is in
flight it has no lane, so an accepted claim cannot replace one.  `LaneIsCounted`
and `GivenIsSpent` tie the episode to the lanes built and to the leases given back:
a resurrection is begun by the death of a lane of the present episode only, and
raises the episode with the lease already given back, so the second of the two
signals finds an episode that is no longer its own.  Every action has its lemma;
the lane's own steps and the frames leave all of it alone.

*Windows and stops.*  `RunInv` stands on `IInv`.  `Windows` says what the counter
`claimsInFlight` counts: one while the start-up lasts and one for a reclaim in
flight, never more, because a death needs a lane and a platform with a claim in
flight has none; the start-up does not end before its claims.  `SettledIsQuiet`
carries the settle: `checkSettled` asks for closed windows, and a run that has
settled completes before it opens one.  For the cancel, `TombIsDown` keeps a lane
from reopening a node of a cancelled platform, `Said` keeps frames and claims on
their own platform, and `TerminalizeEnds` says that whatever a node was, stopping
its platform ends it; then every answer of a claim either leaves a window open or
terminalizes.

*Retries and verdicts.*  `HeardInv` stands on `RunInv`: what is on the wire of a
lane is news of a task without a verdict, and a claim that is still wanted is for
tasks without one, so neither a frame nor a retry takes a verdict back.  What a
retry runs is `unfinishedTasksFor`, a recursion over the needs of which a solution
is shown to exist as above; any solution serves, so circles are allowed here.

*Statuses.*  After a verdict the entry of a context wants to send it or has seen it
confirmed, and what is confirmed is what GitHub shows (`~Landing`); every entry
that wants has a timer, a place in the queue or the send in flight.  A drain that
ends with nothing awaited therefore leaves a debt only where the record says so.

*Runs and waits.*  `Typed` says of the checkout what the program counters mean: who is
up is at the socket, and a socket is bound by one process at a time, so one serves
whatever became of the lock.  An ordinal is taken above every one there is, and only
who has not been seen gives one back (`Ordinals`).  Of the lock file it says (`Inode`)
that an inode without a pid is one its creator is about to write, or died writing: its
creator has no ordinal yet (`Seen`), so the residue a wait finds is not the creator's.
That, and the pid that vetoes, is `NeverBuried`.  `EndHolds`: a run that is up has on record, and in
the snapshot of its interrupt, what its nodes say, unless it is `stale`; a reader of
the record therefore sees an end of that run or none.  `Wired`: the last frame on the
way is what the run says now, and an end it has recorded is on the way.
`Heard`: what the run of the last frame says now, and what stands on record for it, are
among what it has said `since`.  So each of the three witnesses of an end, the record,
the residue and the last frame, answers with a member of `since`.

*Venues.*  `Exclusive` speaks of two sound holds on one slot, and follows at once
when an agent that says it holds has the lock of the slot its claim stands at
(`Holders`): one lock has one owner.  That is inductive only with two more facts.
`Idle`: a claim between two sessions has no agent, so a scan never moves on, and a
sleeping claim never starts again, under an agent that holds.  `Scans`: every claim
stands at an entry of a rotation of its pool, so there is always a slot to speak of.
The steps fall into four kinds: passing an entry over moves one claim (`PassOverMoves`);
ending sessions takes their locks and leaves the others theirs (`DestroyStep`); a lock
of nobody's or of an orphan changes hands (`NobodysLock`); and an agent takes a free
lock or lets go of its own (`BoxSteps`).  `RunsTyped`, which the pool has no part in,
completes the types.

*Requests.*  One call has the claim of a receipt, and only it acts (`OneClaimant`); it
marks the receipt before it acts (`MarkedFirst`), so a claim that finds no mark knows
that nothing was done.  Both are of the checked `Inv`, with `AnswersName`, which is of
live and partial answers; that every other answer is true too is `OneEffect`'s.  A call
that an exception ends keeps its claim for good: nobody else may take it.
The resets of the live run and the start of a new one exclude one another along the
claimant's own program counter; with replies that arrive, it knows which it did.
The refinement needs that what has been told stays true, which is the same invariant:
an effect happens once, so every step of a later call is a stutter or an answer.

*The cache.*  Who has the write lock owns the collection and the flip of a move; the
move's row, its copier and the home of the bucket agree at every await.  What is
about to be recorded, flipped or deleted is backed: the bytes are in the store, or
nothing in the database names them.  The set a collection keeps is closed under
references, so nothing that a fresh row or a pin reaches is in its plan.  The plan is of
paths with the object each named then.  An upsert replaces the object of a row while
the collection waits (`Upserted`): of a push, that object has just been kept under the
lock (`PushWritten`); of the self-proof pass, it is the row's own still, or the row is
`stale` from then on (`ProofWritten`).

**Only model-checked:** liveness (`LogsEnd`, `Settles`, `EveryRunEnds`, `FinalizeEnds`,
`ClaimsSettle`, `LineMoves`, `LossIsHeard`, `WaitReturns`), because fairness and
ENABLED are beyond the prover, and what the configurations of sections 3 and 6 show
violated.  Every invariant and action property of a passing run is a theorem.  Two
proofs need a fact about data that other work would get by induction; each has it
from a least or greatest element instead (`LeastExists`, and the greatest taken
ordinal by well-foundedness of the naturals).

**What the proofs changed in the models.**  The assumptions `MaxReruns \in Nat`, finitely
many runs in a checkout, a wire with room for a frame (`MaxWire > 0`),
`Pushers \subseteq Recipes`, a bucket with at least one store and needs without a
circle were silent before.  `Applied` of the lanes had a CASE of which two arms could
be true.  `EvictsOnlyUnwanted` was false of some instance: the self-proof pass may
write back a row that the collection at work has already evicted, or that was pushed
again with other references (section 6), so the references of such a row are not asked
of the collection.

## 6. Where the code and what is said of it part

Shown by a run:

* `requests_doubled` - `lane.ts` 505: any failure of the lane's reply counts as a
  refusal, though the lane may have reset the node; when that is every root the
  retry launches a new run although the node was reset (`recovery.ts` 29:
  "reconciled, never repeated").  While the live coordinator holds the checkout the
  child exits busy (`run.ts` 743-762, `recovery.ts` 845); both effects come about when
  that coordinator ends before the child takes the lock, which it then registers
  behind (`run.ts` 803).
* `cache_stored` - `cache/src/db.ts` 866: the upsert of a push leaves `last_wanted`
  alone, so a push of a path that has a row does not renew it (`cache.ts` 1187: "a
  stored push is a want").

Shown by a further configuration (section 3):

* `fence_winners` - `owner.ts` 257: a claimant that finds a newer claim name goes
  above it without judging its owner; README and comment promise one winner.
* `gate_stale` - `verdictGate.ts` 133: after a rerun the gate still sees the end
  of the previous log.
* `revive_blocked` - `run.ts` 2567: a pending task whose need failed, with its
  `skipped` lost on the wire, is in no lane while another task is retried.
* `poster_stranded` - `run.ts` 1775: the lanes are closed after the drain, so a node
  that starts during it stays `Running` at GitHub.
* `poster_stuck` - `statuses.ts` 326: `confirmed` after a send that timed out.
* `record_inflight` - `run.ts` 1784: the interrupt's record is of the snapshot it took
  first; a rerun accepted meanwhile is recorded as passed (1967: "never carries a
  green verdict for a run in flight").  `GreenUnlessResumed` proves that this is the
  only way, a failed write of the record apart.
* `lock_race` - `checkoutLock.ts` 78: a starter that looked before another's pid was
  written unlinks the fresh file; both hold the lock (`run.ts` 752: "refuses here").
  Only one comes up all the same (`OneServes`).
* `lease_line` - `run.ts` 3005: each platform is claimed by a `leaseLanes` call of its
  own, so two runs over the same two boxes hold one each and wait for ever
  (`lease.ts` 1228: "all-or-nothing").
* `cache_served` - `cache.ts` 1998-2039: the self-proof pass takes its rows first and
  writes them back under no lock, and the upsert (`db.ts` 866-872) replaces whatever the
  row has become.  A row that a collection evicted meanwhile is put back without its
  bytes; one that was pushed again with other bytes names its old object again, which
  the sweep may have deleted, though the path was never evicted.  `missing` then says
  that the path is present.  Every other row can be served (`RowsCanBeServed`).

Met while modelling.  *Journal and history.*

* `owner.ts` 311-318: a heartbeat reads and then replaces `owner.json`, so an owner
  that sleeps between the two puts an old epoch back until the next stamp; the
  claim files still fence it.
* `store.ts` 291, `history.ts` 481: an append that fails with a disk error is
  answered like one that was fenced, and the coordinator stops.
* `store.ts` 287: after a torn tail the next append joins the fragment's line.
* `store.ts` 727: `expireRun` looks and then erases; a successor that claims
  between the two goes on writing a journal that restarts (TLC reaches it with two
  processes).
* `atomic.ts` 33: the comment promises an fsync that the code does not make.

*Lanes, gate, statuses.*

* `run.ts` 1303: `rerunNode` does not reset the attempt in the history, and
  `history.ts` 691 keeps the bytes of an attempt on an empty snapshot.
* `run.ts` 1377: a lane's death releases a held verdict, and with nothing held no
  drain starts: the log's end is recorded as complete (1097) though its tail was
  on the wire and 1207 says every undrained node is stamped.
* `run.ts` 2591: a lease lost during shutdown starts a resurrection; `laneDied`
  does not ask whether the run is shutting down.
* `run.ts` 3248: the start-up epilogue may end a platform's nodes while its
  resurrection's claim is in flight; and a failed start-up claim leaves the
  platform without a tomb, because the roster's `cancel` is false when it has no
  execution.
* `runner.ts` 549: a setup superseded after its worktree was made leaves the
  worktree behind.
* `statuses.ts` 346: a terminal status waits behind a re-post GitHub already
  shows.  When a rerun of a node whose success is still unsent is dropped, and
  GitHub already shows that very drop, the older success is sent last and stays
  (`DropReruns` TRUE violates `FinishedIsShown`).
* `run.ts` 3585: a signal during the natural end's finalize begins a second one.

*Requests* (the definitions named are in the module, to be checked as INVARIANT or
PROPERTY).

* `receipts.ts` 310-333: `completeReceipt` reads and then replaces, so a recorded
  result may be rewritten (`FirstResultStays` is violated); both results are true,
  which is what `OneEffect` asks.  A caller that loses that race returns its own
  outcome though another is recorded.
* `run.ts` 1261-1263, 1278: the expected attempt is compared before the acceptance is
  written and the lane asked, so two guarded retries may both pass, and a guard on
  the second root that turns out stale leaves the first one's reset unmentioned
  (`GuardHolds` is violated).
* `recovery.ts` 480-483: a dial that fails otherwise than with ENOENT or ECONNREFUSED
  (`run-client/src/dial.ts` 90-103), a first frame that rejects (`common/effectEdge.ts`
  120-146) or a rerun whose link breaks throws out of `tryLive` and `retryRun`.  The
  receipt stays accepted under a claimant that is alive, unmarked if nothing had been asked yet, though 427
  says "no path can take the claim and skip the record"; a repeat is told that the
  outcome is unknown while that process lives (pc `threw`, which `ClaimsSettle` excepts).
* `reconcile.ts` 335 freezes a partial answer that a coordinator still at work would
  have completed; `requests.ts` 134-138 does not look a second time at a start.
* `spawn.ts` 475-516, `start.ts` 473-477: `launch_failed` is recorded of a child that
  registers afterwards (`LateChild` TRUE).
* A torn receipt stays unresolved; a repeated cancel is issued again
  (`service/src/cancel.ts` 151-158, 190).

*Cache.*

* `missing` renews `lastWanted` outside the lock, between a collection's plan and its
  eviction (`gc.ts` 47-49 claims that nothing can land there).
* `cache.ts` 2295-2310: the backfill writes a narinfo from an older snapshot; it and
  `copyOne` take an object of equal length for the same object; a copier that is
  overtaken may leave an orphan in the new store; `collectNow` uses the bucket it read
  before it had the lock.

*Leases, lock and wait.*

* `leaseHold.ts` 228-241: the handler of a child's close may delete the holder file of
  a successor; `leaseRecord.ts` reads, changes and writes without a lock; a pulse can
  never find that its own hold is another's; the default max-hold of an hour ends
  the lease of a longer run; under `--no-wait` a resurrection on a pool of one box
  may be refused by its own run's orphaned hold.
* A wait whose run is superseded dials again and follows the successor; it may return
  `passed` for a run that was then cancelled and whose record says incomplete.

## 7. Not modelled, and why

Formats, wording, displays and command lines have no state a property could speak
of.  git, ssh, `just` and the copying of closures are processes whose outcome is a
choice in the models.  Identity, launch, host and composition are request handlers
or start-up code around single calls.  Of the components that are modelled:

* *Venue lease*: the holder file and the lease rows (they only narrate), the
  ownership probe (an agent answers it for its own hold from memory), burst slots,
  localhost pools, leases an operator holds, `--linger`.
* *Requests*: cancel's receipts, a journal that cannot be read, the digest that tells
  a conflicting request, `onceOnly`.
* *Cache*: uploads in parts and their proof queue (an upload is one step up to its
  record), narinfo objects and their backfill, the deletion of buckets, legacy moves,
  tokens, routes and the push client.  `sweepOrphans` is one step, though it deletes
  object by object.
* *Checkout and wait*: pids that are reused or not permitted to be asked, the expected
  sha, the posting debt, the pause between dials, the MCP projection, one ledger per
  commit (all runs are of one).
* *Lanes*: several lanes of one platform (shards, bursts) in `LaneResurrection`.  There
  the start-up phase after its claims is one step (`StartupJudged`, `run.ts`
  3060-3309), though `prepareVenues` is awaited in it (3114): what a death or a cancel
  does between the two is not seen.  `NodeVerdict` waits at a drain for every lane it
  began with, a dropped or dead one too (`DrainLane`; `run.ts` 1220-1239 asks the lanes
  that are there), which answers like any other.  `VenueLease` lets no lost lease be
  heard once the run is stopping, though `run.ts` 2591 does not ask (section 6).

## 8. Plan

Done: `OwnershipFence`, `LaneRunner` with `LaneNode`, `NodeVerdict`,
`LaneResurrection`, `StatusPoster`, `VenueLease`, `CheckoutRun` with `SettleWait`,
`Requests` with `OneEffect`, `CacheBucket`.  Next, in order of weight:

1. Uploads of the cache: parts, claims and the proof queue, up to the record that
   `CacheBucket` takes as one step.
2. A gate of two lanes and of bursts; shards in `LaneResurrection`.
3. Attention pages as operators over a bounded journal, against the definition
   that a page is a prefix of what is pending.
4. The edge tunnel's reconciler.
