------------------------------ MODULE LaneRunner ------------------------------
(***************************************************************************)
(* One lane of a run: the process that prepares a workspace and runs the   *)
(* recipes of one platform (packages/execution/src/runner/runner.ts), with *)
(* the reaper that kills their process groups (reap.ts), the tail that     *)
(* serves their logs (common/logTail.ts) and the pusher that sends what    *)
(* they built to the cache (pushResults.ts).                               *)
(*                                                                         *)
(* A step is one turn of the event loop: a procedure call, an event of a   *)
(* child process, a settled promise.  A handler runs to its end, the       *)
(* scheduling pass it finishes with included.                              *)
(***************************************************************************)
EXTENDS Naturals, Sequences

CONSTANTS
    Recipes,     \* tasks the lane may be given
    Initial,     \* those configure brings; extend brings the others
    Needs,       \* what each of them needs, the setup node aside
    Setup,       \* the builtin setup node
    Pushers,     \* tasks with a cache to push to, run inside the workspace
    Strays,      \* tasks that may leave a process behind in their group
    MaxReruns    \* bound: resets of any one node

ASSUME NodeAssumption ==
    /\ Setup \notin Recipes
    /\ Initial \subseteq Recipes /\ Pushers \subseteq Recipes
    /\ MaxReruns \in Nat
ASSUME NeedsAssumption ==
    /\ Needs \in [Recipes -> SUBSET Recipes]
    /\ \A r \in Initial : Needs[r] \subseteq Initial

\* validatePipeline refuses tasks that need one another in a circle.
ASSUME AcyclicAssumption ==
    \A S \in SUBSET Recipes : S # {} => \E r \in S : Needs[r] \cap S = {}

VARIABLES
    mode,      \* "no" before configure, then where the workspace comes from
    disposed,
    status,    \* of each node; "absent" before it is configured
    phase,     \* of the invocation that holds the node; "none" if none does
    kids,      \* every start of the node, the last one last
    logs,      \* the two logs of each node
    push,      \* the push step the board shows for it
    tree,      \* the workspace recipes run in; 0 when there is none
    trees,     \* the worktrees on the disk
    cleanup,   \* the worktree that cleanupWorkspace removes
    links,     \* the outputs that result* links in the workspace name
    sent,      \* the outputs the pusher remembers as served
    bucket,    \* the outputs the cache serves
    resets,    \* how often each node was reset
    threw      \* an append reached a log that had ended

nodeVars == <<status, phase, kids, logs, push>>
diskVars == <<tree, trees, cleanup, links>>
cacheVars == <<sent, bucket>>
vars == <<mode, disposed, nodeVars, diskVars, cacheVars, resets, threw>>

Nodes == Recipes \cup {Setup}
Streams == {"recipe", "push"}
Failed == {"failed", "skipped", "cancelled"}
Terminal == Failed \cup {"ok"}
Status == {"absent", "pending", "running"} \cup Terminal

Kid == [attempt : Nat, life : {"alive", "exited", "closed"},
        group : {"none", "tracked", "termed", "gone"},
        closeSeen : BOOLEAN, pushing : {"no", "busy", "blind", "done", "skipped"},
        sending : SUBSET Recipes, cwd : Nat]

NeedsOf(n) == IF n = Setup THEN {} ELSE Needs[n] \cup {Setup}

\* transitiveDependents, over the nodes the lane has.
Dependents(n) ==
    LET above[m \in Nodes] == \E d \in NeedsOf(m) : d = n \/ above[d]
    IN {m \in Nodes : status[m] # "absent" /\ above[m]}

-----------------------------------------------------------------------------
(* logTail                                                                 *)

EmptyLog == [ended |-> FALSE, by |-> {}]
Wrote(lg, n, s, attempt) == [lg EXCEPT ![n][s].by = @ \cup {attempt}]
Ended(lg, S) ==
    [n \in Nodes |-> IF n \in S THEN [s \in Streams |-> [lg[n][s] EXCEPT !.ended = TRUE]]
                     ELSE lg[n]]
Reset(lg, S) == [n \in Nodes |-> IF n \in S THEN [s \in Streams |-> EmptyLog] ELSE lg[n]]

Throws(lg, n, s) == threw \/ lg[n][s].ended

-----------------------------------------------------------------------------
(* Invocations                                                             *)

\* Mutants: any invocation of the node passes for this one; a superseded one
\* stays the node's until another begins.
Current_Latest(n, g) == ~disposed /\ g = Len(kids[n])
Current_Held(n, g) == ~disposed /\ phase[n] # "none"

\* isCurrent: start g of n still holds the node.
Current(n, g) == ~disposed /\ phase[n] # "none" /\ g = Len(kids[n])

\* The starts of n once its invocation is superseded: the group is reaped.
Reaped(kid) == [kid EXCEPT !.group = IF @ = "tracked" THEN "termed" ELSE @]
Superseded(ks, S) ==
    [n \in Nodes |-> IF n \in S /\ phase[n] # "none"
                     THEN [ks[n] EXCEPT ![Len(ks[n])] = Reaped(@)] ELSE ks[n]]

NewKid(n, t) ==
    [attempt |-> resets'[n], life |-> "alive",
     group |-> IF n = Setup THEN "none" ELSE "tracked",
     closeSeen |-> FALSE, pushing |-> "no", sending |-> {}, cwd |-> t]

-----------------------------------------------------------------------------
(* tick: skip what is blocked and start what is runnable, to a fixed point *)

Blocked(st) ==
    LET blocked[n \in Nodes] ==
            st[n] = "pending" /\ \E d \in NeedsOf(n) : st[d] \in Failed \/ blocked[d]
    IN {n \in Nodes : blocked[n]}

Runnable(st) == {n \in Nodes : st[n] = "pending" /\ \A d \in NeedsOf(n) : st[d] = "ok"}

\* A provided workspace settles the setup node inside the pass, whose nested
\* pass starts recipes; the outer pass then goes on with its stale copy of the
\* nodes, and only a running invocation keeps it from starting them again.
StartedAgain(started, again) == {n \in started : again[n] # "running"}

\* The pass over st, ph, ks and lg as the handler left them, in workspace was.
TickIn(st, ph, ks, lg, was, worktrees) ==
    \E verdict \in IF st[Setup] # "pending" THEN {st[Setup]}
                   ELSE IF mode' = "provided" THEN {"ok", "failed"} ELSE {"running"} :
    LET begun == st[Setup] = "pending"
        nested == begun /\ verdict # "running"
        st1 == [st EXCEPT ![Setup] = verdict]
        skipped == Blocked(st1)
        started == Runnable(st1)
        t == IF nested /\ verdict = "ok" THEN 1 ELSE was
        ph1 == [n \in Nodes |-> IF n \in started THEN "running" ELSE ph[n]]
        twice == IF nested THEN StartedAgain(started, ph1) ELSE {}
        kid(n) == NewKid(n, t)
    IN /\ status' = [n \in Nodes |-> IF n \in skipped THEN "skipped"
                                     ELSE IF n \in started THEN "running" ELSE st1[n]]
       /\ phase' = [ph1 EXCEPT ![Setup] = IF nested THEN "closed"
                                          ELSE IF begun THEN "running" ELSE @]
       /\ kids' = [n \in Nodes |->
                      IF n = Setup
                      THEN IF begun
                           THEN Append(ks[n], [kid(n) EXCEPT !.life =
                                                  IF nested THEN "closed" ELSE "alive"])
                           ELSE ks[n]
                      ELSE IF n \in twice THEN ks[n] \o <<Reaped(kid(n)), kid(n)>>
                      ELSE IF n \in started THEN Append(ks[n], kid(n)) ELSE ks[n]]
       /\ logs' = Ended(IF begun THEN Wrote(lg, Setup, "recipe", resets'[Setup]) ELSE lg,
                        skipped \cup (IF nested THEN {Setup} ELSE {}))
       /\ tree' = t
       /\ trees' = IF nested /\ verdict = "ok" THEN worktrees \cup {t} ELSE worktrees

Tick(st, ph, ks, lg) == TickIn(st, ph, ks, lg, tree, trees)

NoTick(st, ph, ks, lg) ==
    status' = st /\ phase' = ph /\ kids' = ks /\ logs' = lg /\ UNCHANGED <<tree, trees>>

-----------------------------------------------------------------------------
Init ==
    /\ mode = "no"
    /\ disposed = FALSE
    /\ status = [n \in Nodes |-> "absent"]
    /\ phase = [n \in Nodes |-> "none"]
    /\ kids = [n \in Nodes |-> <<>>]
    /\ logs = [n \in Nodes |-> [s \in Streams |-> EmptyLog]]
    /\ push = [n \in Nodes |-> "none"]
    /\ tree = 0
    /\ trees = {}
    /\ cleanup = 0
    /\ links = {}
    /\ sent = {}
    /\ bucket = {}
    /\ resets = [n \in Nodes |-> 0]
    /\ threw = FALSE

Pending(S) == [n \in Nodes |-> IF n \in S THEN "pending" ELSE status[n]]

Configure(from) ==
    /\ ~disposed
    /\ mode = "no"
    /\ mode' = from
    /\ UNCHANGED <<disposed, push, cleanup, links, cacheVars, resets, threw>>
    /\ Tick(Pending(Initial \cup {Setup}), phase, kids, logs)

Extend ==
    /\ ~disposed
    /\ mode # "no"
    /\ \E r \in Recipes : status[r] = "absent"
    /\ UNCHANGED <<mode, disposed, push, cleanup, links, cacheVars, resets, threw>>
    /\ Tick(Pending({r \in Recipes : status[r] = "absent"}), phase, kids, logs)

\* Mutant: only the node asked for is reset, not what depends on it.
ToReset_Alone(n) == {n}

ToReset(n) == {n} \cup Dependents(n)

Rerun(n) ==
    LET all == ToReset(n) IN
    /\ ~disposed
    /\ status[n] # "absent"
    /\ \A m \in Nodes : resets[m] < MaxReruns
    /\ resets' = [m \in Nodes |-> IF m \in all THEN resets[m] + 1 ELSE resets[m]]
    /\ push' = [m \in Nodes |-> IF m \in all THEN "none" ELSE push[m]]
    /\ UNCHANGED <<mode, disposed, cleanup, links, cacheVars, threw>>
    /\ Tick(Pending(all), [m \in Nodes |-> IF m \in all THEN "none" ELSE phase[m]],
            Superseded(kids, all), Reset(logs, all))

\* Mutant: the cancelled node's dependents are left where they stand.
Cancel_NoTick(n) ==
    /\ ~disposed
    /\ status[n] \in {"pending", "running"}
    /\ threw' = Throws(logs, n, "recipe")
    /\ UNCHANGED <<mode, disposed, push, cleanup, links, cacheVars, resets>>
    /\ NoTick([status EXCEPT ![n] = "cancelled"], [phase EXCEPT ![n] = "none"],
              Superseded(kids, {n}), Ended(Wrote(logs, n, "recipe", resets[n]), {n}))

Cancel(n) ==
    /\ ~disposed
    /\ status[n] \in {"pending", "running"}
    /\ threw' = Throws(logs, n, "recipe")
    /\ UNCHANGED <<mode, disposed, push, cleanup, links, cacheVars, resets>>
    /\ Tick([status EXCEPT ![n] = "cancelled"], [phase EXCEPT ![n] = "none"],
            Superseded(kids, {n}), Ended(Wrote(logs, n, "recipe", resets[n]), {n}))

\* Mutant: only groups nobody is reaping yet are swept.
Swept_Tracked(kid) == [kid EXCEPT !.group = IF @ = "tracked" THEN "gone" ELSE @]

\* reapAllSync: every group ever tracked dies before the process does.
Swept(kid) == [kid EXCEPT !.group = IF @ \in {"tracked", "termed"} THEN "gone" ELSE @]

Dispose ==
    /\ ~disposed
    /\ disposed' = TRUE
    /\ phase' = [n \in Nodes |-> "none"]
    /\ kids' = [n \in Nodes |-> [g \in DOMAIN kids[n] |-> Swept(kids[n][g])]]
    /\ trees' = IF mode # "no" /\ \A n \in Nodes : status[n] \in {"ok", "absent"}
                THEN trees \ {cleanup} ELSE trees
    /\ UNCHANGED <<mode, status, logs, push, tree, cleanup, links, cacheVars, resets, threw>>

-----------------------------------------------------------------------------
(* The setup node: prepareWorkspace, when the workspace is fetched         *)

PrepareSays(g) ==
    /\ kids[Setup][g].life = "alive"
    /\ Current(Setup, g)
    /\ threw' = Throws(logs, Setup, "recipe")
    /\ logs' = Wrote(logs, Setup, "recipe", kids[Setup][g].attempt)
    /\ UNCHANGED <<mode, disposed, status, phase, kids, push, diskVars, cacheVars, resets>>

PrepareEnds(g, ok) ==
    LET ks == [kids EXCEPT ![Setup][g].life = "closed"] IN
    /\ kids[Setup][g].life = "alive"
    /\ UNCHANGED <<mode, disposed, push, cacheVars, resets, threw>>
    /\ IF ~Current(Setup, g)
       THEN /\ NoTick(status, phase, ks, logs)
            /\ UNCHANGED <<cleanup, links>>
       ELSE /\ cleanup' = IF ok THEN g ELSE cleanup
            /\ links' = IF ok THEN {} ELSE links
            /\ TickIn([status EXCEPT ![Setup] = IF ok THEN "ok" ELSE "failed"],
                      [phase EXCEPT ![Setup] = "closed"], ks, Ended(logs, {Setup}),
                      IF ok THEN g ELSE tree, IF ok THEN trees \cup {g} ELSE trees)

-----------------------------------------------------------------------------
(* A recipe's process                                                      *)

Output(n, g) ==
    /\ kids[n][g].life \in {"alive", "exited"}
    /\ Current(n, g)
    /\ threw' = Throws(logs, n, "recipe")
    /\ logs' = Wrote(logs, n, "recipe", kids[n][g].attempt)
    /\ UNCHANGED <<mode, disposed, status, phase, kids, push, diskVars, cacheVars, resets>>

\* Mutant: the terminal status leaves the log to the child's close.
Stamp_NoEnd(n, g, verdict, ks, lg) ==
    Tick([status EXCEPT ![n] = verdict], phase, ks, lg)

\* stamp, when start g of n is current: a child that has closed while its push
\* ran owes its logs their end.
Stamp(n, g, verdict, ks, lg) ==
    IF ks[n][g].closeSeen
    THEN Tick([status EXCEPT ![n] = verdict], [phase EXCEPT ![n] = "closed"], ks,
              Ended(lg, {n}))
    ELSE Tick([status EXCEPT ![n] = verdict], phase, ks, lg)

\* The child never came to be: it has no pid, no group and nothing to drain.
SpawnFails(n, g) ==
    LET ks == [kids EXCEPT ![n][g].life = "closed", ![n][g].group = "gone"] IN
    /\ kids[n][g].life = "alive"
    /\ kids[n][g].attempt \notin logs[n]["recipe"].by
    /\ UNCHANGED <<mode, disposed, push, cleanup, links, cacheVars, resets>>
    /\ IF Current(n, g)
       THEN /\ threw' = Throws(logs, n, "recipe")
            /\ Tick([status EXCEPT ![n] = "failed"], [phase EXCEPT ![n] = "closed"], ks,
                    Ended(Wrote(logs, n, "recipe", kids[n][g].attempt), {n}))
       ELSE NoTick(status, phase, ks, logs) /\ UNCHANGED threw

\* What start g left: the reaper takes the group, which may hold a stray.
Exited(n, g, stray) ==
    [kids EXCEPT ![n][g].life = "exited",
                 ![n][g].group = IF @ # "tracked" THEN @
                                 ELSE IF Current(n, g) /\ stray THEN "termed" ELSE "gone"]

Built(n, g, ok) == IF ok /\ kids[n][g].cwd = tree THEN links \cup {n} ELSE links

\* A red recipe, or a green one with no cache: its status is stamped at once.
Exit(n, g, ok, stray) ==
    LET ks == Exited(n, g, stray) IN
    /\ kids[n][g].life = "alive"
    /\ links' = Built(n, g, ok)
    /\ UNCHANGED <<mode, disposed, push, cleanup, cacheVars, resets, threw>>
    /\ IF ~Current(n, g) THEN NoTick(status, phase, ks, logs)
       ELSE /\ ok => n \notin Pushers
            /\ Tick([status EXCEPT ![n] = IF ok THEN "ok" ELSE "failed"],
                    [phase EXCEPT ![n] = "settled"], ks, logs)

\* What the pusher remembers while a send is in flight.
Remembered(fresh) == sent

\* A green recipe with a cache: its push begins, and its status waits for it.
\* A directory the pusher cannot read is said on the recipe's log.
ExitToPush(n, g, stray, readable) ==
    LET found == Built(n, g, TRUE)
        fresh == IF readable THEN found \ sent ELSE {}
        ks == Exited(n, g, stray)
    IN
    /\ kids[n][g].life = "alive"
    /\ Current(n, g)
    /\ n \in Pushers
    /\ links' = found
    /\ sent' = Remembered(fresh)
    /\ push' = IF fresh # {} THEN [push EXCEPT ![n] = "pushing"] ELSE push
    /\ threw' = (threw \/ (~readable /\ Throws(logs, n, "recipe"))
                      \/ (fresh # {} /\ Throws(logs, n, "push")))
    /\ UNCHANGED <<mode, disposed, cleanup, bucket, resets>>
    /\ NoTick(status, [phase EXCEPT ![n] = "settled"],
              [ks EXCEPT ![n][g].pushing = IF readable THEN "busy" ELSE "blind",
                         ![n][g].sending = fresh],
              IF ~readable THEN Wrote(logs, n, "recipe", kids[n][g].attempt)
              ELSE IF fresh # {} THEN Wrote(logs, n, "push", kids[n][g].attempt) ELSE logs)

\* Mutant: the close ends the logs though a push still writes to one.
Close_Pushing(n, g) ==
    /\ kids[n][g].life = "exited"
    /\ UNCHANGED <<mode, disposed, push, cleanup, links, cacheVars, resets, threw>>
    /\ IF Current(n, g) /\ phase[n] # "closed"
       THEN NoTick(status, [phase EXCEPT ![n] = "closed"],
                   [kids EXCEPT ![n][g].life = "closed", ![n][g].closeSeen = TRUE],
                   Ended(logs, {n}))
       ELSE NoTick(status, phase, [kids EXCEPT ![n][g].life = "closed"], logs)

\* close: the stdio has drained.
Close(n, g) ==
    LET owed == kids[n][g].pushing \in {"busy", "blind"} IN
    /\ kids[n][g].life = "exited"
    /\ UNCHANGED <<mode, disposed, push, cleanup, links, cacheVars, resets, threw>>
    /\ IF Current(n, g) /\ phase[n] # "closed"
       THEN NoTick(status, IF owed THEN phase ELSE [phase EXCEPT ![n] = "closed"],
                   [kids EXCEPT ![n][g].life = "closed", ![n][g].closeSeen = TRUE],
                   IF owed THEN logs ELSE Ended(logs, {n}))
       ELSE NoTick(status, phase, [kids EXCEPT ![n][g].life = "closed"], logs)

-----------------------------------------------------------------------------
(* The push of a green recipe's outputs                                    *)

PushSays(n, g) ==
    /\ kids[n][g].pushing = "busy"
    /\ kids[n][g].sending # {}
    /\ Current(n, g)
    /\ threw' = Throws(logs, n, "push")
    /\ logs' = Wrote(logs, n, "push", kids[n][g].attempt)
    /\ UNCHANGED <<mode, disposed, status, phase, kids, push, diskVars, cacheVars, resets>>

\* The cache now serves what it took; an output it refused fails the node.
PushEnds(n, g, served) ==
    LET kid == kids[n][g]
        ok == served = kid.sending
        ks == [kids EXCEPT ![n][g].pushing = IF @ = "blind" THEN "skipped" ELSE "done"]
    IN
    /\ kid.pushing \in {"busy", "blind"}
    /\ sent' = sent \cup served
    /\ bucket' = bucket \cup served
    /\ UNCHANGED <<mode, disposed, cleanup, links, resets>>
    /\ IF Current(n, g)
       THEN /\ push' = IF kid.sending = {} THEN push
                       ELSE [push EXCEPT ![n] = IF ok THEN "pushed" ELSE "failed"]
            /\ threw' = (threw \/ (~ok /\ Throws(logs, n, "push")))
            /\ Stamp(n, g, IF ok THEN "ok" ELSE "failed", ks,
                     IF ok THEN logs ELSE Wrote(logs, n, "push", kid.attempt))
       ELSE /\ NoTick(status, phase, ks, logs)
            /\ UNCHANGED <<push, threw>>

\* The grace is over, or the group obeyed the SIGTERM.
Escalate(n, g) ==
    /\ kids[n][g].group = "termed"
    /\ kids' = [kids EXCEPT ![n][g].group = "gone"]
    /\ UNCHANGED <<mode, disposed, status, phase, logs, push, diskVars, cacheVars, resets, threw>>

-----------------------------------------------------------------------------
Call ==
    \/ \E from \in {"provided", "fetched"} : Configure(from)
    \/ Extend
    \/ \E n \in Nodes : Rerun(n)
    \/ \E n \in Nodes : Cancel(n)
    \/ Dispose

SetupStep ==
    \E g \in DOMAIN kids[Setup] : PrepareSays(g) \/ \E ok \in BOOLEAN : PrepareEnds(g, ok)

MayStray(n) == IF n \in Strays THEN BOOLEAN ELSE {FALSE}

ChildStep(n, g) ==
    \/ Output(n, g)
    \/ SpawnFails(n, g)
    \/ \E ok \in BOOLEAN, stray \in MayStray(n) : Exit(n, g, ok, stray)
    \/ \E stray \in MayStray(n), readable \in BOOLEAN : ExitToPush(n, g, stray, readable)
    \/ Close(n, g)
    \/ PushSays(n, g)
    \/ \E served \in SUBSET kids[n][g].sending : PushEnds(n, g, served)
    \/ Escalate(n, g)

\* What a process on its way out still hears is not followed.
Next ==
    /\ ~disposed
    /\ \/ Call
       \/ SetupStep
       \/ \E n \in Recipes : \E g \in DOMAIN kids[n] : ChildStep(n, g)

Spec == Init /\ [][Next]_vars

\* An exited child's stdio drains; a send settles.
Drains(n) ==
    \E g \in DOMAIN kids[n] :
        Close(n, g) \/ \E served \in SUBSET kids[n][g].sending : PushEnds(n, g, served)

FairSpec == Spec /\ WF_vars(~disposed /\ \E n \in Recipes : Drains(n))

-----------------------------------------------------------------------------
(* Properties                                                              *)

Log == [ended : BOOLEAN, by : SUBSET (0 .. MaxReruns)]

\* Every variable stays in its type: of a node's status, of the phase of its
\* invocation, of a child's life and of its process group.
TypeOK ==
    /\ mode \in {"no", "provided", "fetched"}
    /\ disposed \in BOOLEAN
    /\ status \in [Nodes -> Status]
    /\ phase \in [Nodes -> {"none", "running", "settled", "closed"}]
    /\ kids \in [Nodes -> Seq(Kid)]
    /\ \A n \in Nodes : \A g \in DOMAIN kids[n] : kids[n][g].group = "none" <=> n = Setup
    /\ logs \in [Nodes -> [Streams -> Log]]
    /\ push \in [Nodes -> {"none", "pushing", "pushed", "failed"}]
    /\ tree \in Nat /\ cleanup \in Nat /\ trees \subseteq Nat
    /\ links \subseteq Recipes /\ sent \subseteq Recipes /\ bucket \subseteq Recipes
    /\ resets \in [Nodes -> 0 .. MaxReruns]
    /\ threw \in BOOLEAN

\* A log holds the words of the node's present attempt only: the output a killed
\* or finished child still delivers never reaches the log its successor opened.
LogOfThisAttempt ==
    \A n \in Nodes, s \in Streams : logs[n][s].by \subseteq {resets[n]}

\* Nothing is appended to a log after its terminal frame: logTail's append
\* throws there, and a throw in an event handler ends the lane.
NeverWritesPastEnd == ~threw

\* A node's terminal status is its last until a rerun resets it, however late
\* its child's exit, its push or its cancel arrives.
TerminalIsFinal ==
    [][\A n \in Nodes : status[n] \in Terminal /\ resets'[n] = resets[n]
                          => status'[n] = status[n]]_vars

\* Between two handlers no pending node is runnable or blocked: every handler
\* leaves the lane at tick's fixed point, so nothing waits for an event that
\* will not come.
AtRest ==
    ~disposed /\ mode # "no" => Blocked(status) = {} /\ Runnable(status) = {}

\* Green means warmed: the output of a green recipe with a cache to push to is
\* one the cache serves, unless the pusher could not read the directory.
GreenMeansWarmed ==
    \A n \in Pushers : status[n] = "ok" =>
        n \in bucket \/ kids[n][Len(kids[n])].pushing = "skipped"

\* A node is started once for each time it was configured or reset: the pass
\* that a synchronous setup nests inside another starts nothing twice.
StartedOncePerReset == \A n \in Nodes : Len(kids[n]) <= resets[n] + 1

\* When the lane has disposed of itself no process group it spawned survives,
\* neither one that ignores SIGTERM nor one a cancelled start left behind.
NoSurvivors ==
    disposed => \A n \in Recipes : \A g \in DOMAIN kids[n] : kids[n][g].group = "gone"

\* What is running or green ran in the present workspace, and that is on the
\* disk: a rerun of the setup node leaves no verdict on an older tree.
RanInThisTree ==
    ~disposed => \A n \in Recipes : status[n] \in {"running", "ok"} =>
                     kids[n][Len(kids[n])].cwd = tree /\ tree \in trees

\* A node with a verdict ends both its logs, unless it is reset or the lane is
\* disposed of first: the coordinator's drain waits for those frames.
LogsEnd ==
    \A n \in Recipes :
        status[n] \in Terminal ~>
            disposed \/ status[n] \notin Terminal \/ \A s \in Streams : logs[n][s].ended

\* The lane is sound: typed, nothing has thrown out of an event handler, and no
\* node has been started more often than it was configured or reset, though
\* passes nest (runner.ts tick, logTail.ts append).
Inv == TypeOK /\ NeverWritesPastEnd /\ StartedOncePerReset

\* What there is to hear of task n.
AsHeard(n) ==
    [exec |-> resets[n],
     did |-> IF status[n] \in {"absent", "pending"} THEN "pending"
             ELSE IF status[n] \in {"running", "skipped"} THEN status[n] ELSE "done",
     said |-> resets[n] \in logs[n]["recipe"].by,
     closed |-> logs[n]["recipe"].ended]

Outside == INSTANCE LaneNode WITH
    Nodes <- Recipes, node <- [n \in Recipes |-> AsHeard(n)]

\* The lane is one a coordinator may hear: whatever its children, pushes and calls
\* do, each turn of its loop is a few of LaneNode's moves for each of its tasks
\* (runner.ts tick, stamp, cancel, rerun).
ImplementsLane == Outside!Spec

\* What is heard of a task follows upon what was heard before, and of its verdicts
\* the first holds until a reset.
HeardInOrder == TerminalIsFinal /\ ImplementsLane

\* What a green or running node says is true of now: it ran in the workspace that
\* is on the disk, and a green pusher's output is one the cache serves.
GreenIsTrue == RanInThisTree /\ GreenMeansWarmed
=============================================================================
