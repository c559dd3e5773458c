----------------------------- MODULE VenueLease -----------------------------
(***************************************************************************)
(* How runs share the build machines.  A venue is a slot of a host, and    *)
(* holding it is an exclusive flock kept by a child of the odu-runner      *)
(* agent on that host, for as long as the child's stdin stays open.  A     *)
(* coordinator claims a slot over an ssh session to an agent of its own,   *)
(* one session per attempt, and learns that a hold is gone only by that    *)
(* session ending.  The box learns that a coordinator is gone by stdin     *)
(* ending or, over a half-open link, by 45 s of silence.                   *)
(*                                                                         *)
(* A claim is one platform of one run: scan the pool, wait in line when    *)
(* every slot is busy, hold, work, give back.  A run starts all its claims *)
(* at once and gives its venues back when the whole run has settled.       *)
(*                                                                         *)
(* Left out: the ownership probe (an agent answers it for its own hold     *)
(* from memory until it exits, so what it adds is the pulse that keeps the *)
(* dead-man quiet, which here is the condition link = "cut" of DeadMan),   *)
(* the holder file and the lease rows, which only narrate, optional burst  *)
(* slots, localhost pools and platforms pinned by a lease of an operator.  *)
(***************************************************************************)
EXTENDS Naturals, Sequences, FiniteSets

CONSTANTS
    Runs,        \* coordinators, each in a checkout of its own
    Platforms,   \* the platforms there are
    Wants,       \* run -> the platforms its pipeline claims
    Slots,       \* the locks there are
    Pool,        \* platform -> the sequence of slots that serve it
    MayRefuse,   \* the runs that may have been started with --no-wait
    Sharded,     \* platforms whose lost lease ends the whole run
    MaxFaults,   \* bound: cut links, dead children, slow or unreachable hosts,
                 \* dropped lanes, and what an operator interrupts or cancels
    MaxLives     \* ODU_MAX_LANE_RESURRECTIONS: re-claims of a platform

ASSUME PoolAssumption ==
    /\ \A r \in Runs : Wants[r] \subseteq Platforms
    /\ Sharded \subseteq Platforms
    /\ \A p \in Platforms : Pool[p] \in Seq(Slots) /\ Len(Pool[p]) > 0
    \* assertNoSharedRemoteHosts: no slot serves two platforms of a run
    /\ \A p, q \in Platforms : p # q =>
         \A i \in DOMAIN Pool[p], j \in DOMAIN Pool[q] : Pool[p][i] # Pool[q][j]
ASSUME BoundsAssumption == MaxFaults \in Nat /\ MaxLives \in Nat

Claims == {c \in Runs \X Platforms : c[2] \in Wants[c[1]]}
Free == <<>>

VARIABLES
    noWait,    \* run -> it was started with --no-wait
    order,     \* claim -> its pool, rotated by the clock
    at,        \* claim -> the entry being tried
    sawBusy,   \* claim -> this scan met a busy slot
    pc,        \* claim -> where it stands in the coordinator
    agent,     \* claim -> the agent at the far end of its session
    link,      \* claim -> its session: "none", "up", or half-open ("cut")
    lost,      \* claim -> the handle's `lost` has resolved
    lives,     \* claim -> resurrections spent
    done,      \* claim -> the platform's nodes have all settled
    off,       \* claim -> the roster has tombstoned the platform
    lock,      \* slot -> Free, or <<claim, "agent" | "orphan">>
    late,      \* <<claim, slot>>: a claim RPC delivered, its caller gone
    stopping,  \* run -> shutdown has begun
    ended,     \* run -> its process is gone
    faults

vars == <<noWait, order, at, sawBusy, pc, agent, link, lost, lives, done, off,
          lock, late, stopping, ended, faults>>
scan == <<order, at, sawBusy>>
run == <<noWait, stopping, ended>>
plat == <<lives, done, off>>

Slot(c) == order[c][at[c]]
Mine(c) == lock[Slot(c)] = <<c, "agent">>
Of(r) == {c \in Claims : c[1] = r}
InFlight(c) == pc[c] \in {"scan", "asking", "sleep", "held"}
Rotations(p) ==
    {[i \in DOMAIN Pool[p] |-> Pool[p][((i + k) % Len(Pool[p])) + 1]] :
        k \in 0..Len(Pool[p]) - 1}

\* The types, and each claim asks its pool's slots in some rotation.
TypeOK ==
    /\ noWait \in [Runs -> BOOLEAN]
    /\ \A c \in Claims : order[c] \in Rotations(c[2]) /\ at[c] \in DOMAIN order[c]
    /\ sawBusy \in [Claims -> BOOLEAN]
    /\ pc \in [Claims -> {"scan", "asking", "sleep", "held", "using", "failed",
                          "over"}]
    /\ agent \in [Claims -> {"none", "asked", "holding", "busy", "empty", "gone"}]
    /\ link \in [Claims -> {"none", "up", "cut"}]
    /\ lost \in [Claims -> BOOLEAN]
    /\ lives \in [Claims -> 0..MaxLives]
    /\ done \in [Claims -> BOOLEAN]
    /\ off \in [Claims -> BOOLEAN]
    /\ lock \in [Slots -> {Free} \cup (Claims \X {"agent", "orphan"})]
    /\ late \subseteq Claims \X Slots
    /\ stopping \in [Runs -> BOOLEAN]
    /\ ended \in [Runs -> BOOLEAN]
    /\ faults \in 0..MaxFaults

Init ==
    /\ noWait \in {w \in [Runs -> BOOLEAN] : \A r \in Runs : w[r] => r \in MayRefuse}
    /\ order \in {o \in [Claims -> UNION {Rotations(p) : p \in Platforms}] :
                    \A c \in Claims : o[c] \in Rotations(c[2])}
    /\ at = [c \in Claims |-> 1]
    /\ sawBusy = [c \in Claims |-> FALSE]
    /\ pc = [c \in Claims |-> "scan"]
    /\ agent = [c \in Claims |-> "none"]
    /\ link = [c \in Claims |-> "none"]
    /\ lost = [c \in Claims |-> FALSE]
    /\ lives = [c \in Claims |-> 0]
    /\ done = [c \in Claims |-> FALSE]
    /\ off = [c \in Claims |-> FALSE]
    /\ lock = [s \in Slots |-> Free]
    /\ late = {}
    /\ stopping = [r \in Runs |-> FALSE]
    /\ ended = [r \in Runs |-> FALSE]
    /\ faults = 0

Fault == faults < MaxFaults /\ faults' = faults + 1

-----------------------------------------------------------------------------
(* Sessions.                                                               *)

\* session.destroy() on every claim of C: what the agents hold is theirs until
\* they notice, and an RPC they have already been handed may still be carried
\* out.
Destroy(C) ==
    /\ agent' = [c \in Claims |-> IF c \in C THEN "none" ELSE agent[c]]
    /\ link' = [c \in Claims |-> IF c \in C THEN "none" ELSE link[c]]
    /\ lost' = [c \in Claims |-> IF c \in C THEN FALSE ELSE lost[c]]
    /\ lock' = [s \in Slots |->
                  IF \E c \in C : lock[s] = <<c, "agent">>
                  THEN <<lock[s][1], "orphan">> ELSE lock[s]]
    /\ late' = late \cup {<<c, Slot(c)>> : c \in {d \in C : agent[d] = "asked"}}

Keep == UNCHANGED <<agent, link, lost, lock, late>>

\* What a scan does with an entry it could not hold: the next one, or, at the
\* end of the pool, the line when some slot was busy and waiting is allowed.
PassOver(c, busy) ==
    LET any == sawBusy[c] \/ busy IN
    IF at[c] < Len(order[c])
    THEN /\ pc' = [pc EXCEPT ![c] = "scan"]
         /\ at' = [at EXCEPT ![c] = @ + 1]
         /\ sawBusy' = [sawBusy EXCEPT ![c] = any]
         /\ UNCHANGED order
    ELSE /\ pc' = [pc EXCEPT ![c] = IF any /\ ~noWait[c[1]] THEN "sleep"
                                    ELSE "failed"]
         /\ UNCHANGED scan

Dial(c) ==
    /\ pc[c] = "scan"
    /\ pc' = [pc EXCEPT ![c] = "asking"]
    /\ agent' = [agent EXCEPT ![c] = "asked"]
    /\ link' = [link EXCEPT ![c] = "up"]
    /\ UNCHANGED <<scan, run, plat, lost, lock, late, faults>>

\* The pin never comes up: the host is down, or copying past its ceiling.
Unreachable(c) ==
    /\ pc[c] = "scan"
    /\ Fault
    /\ PassOver(c, FALSE)
    /\ Keep
    /\ UNCHANGED <<run, plat>>

\* A bug: a shared lock is taken where an exclusive one is meant.
Flock_Shared(c) ==
    /\ agent[c] = "asked"
    /\ lock' = [lock EXCEPT ![Slot(c)] = <<c, "agent">>]
    /\ agent' = [agent EXCEPT ![c] = "holding"]
    /\ UNCHANGED <<scan, run, plat, pc, link, lost, late, faults>>

\* claimLocal: `flock -n -x` either holds the slot at once or is refused.
Flock(c) ==
    /\ agent[c] = "asked"
    /\ IF lock[Slot(c)] = Free
       THEN /\ lock' = [lock EXCEPT ![Slot(c)] = <<c, "agent">>]
            /\ agent' = [agent EXCEPT ![c] = "holding"]
       ELSE /\ agent' = [agent EXCEPT ![c] = "busy"]
            /\ UNCHANGED lock
    /\ UNCHANGED <<scan, run, plat, pc, link, lost, late, faults>>

HearBusy(c) ==
    /\ pc[c] = "asking" /\ agent[c] = "busy" /\ link[c] = "up"
    /\ Destroy({c})
    /\ PassOver(c, TRUE)
    /\ UNCHANGED <<run, plat, faults>>

HearHeld(c) ==
    /\ pc[c] = "asking" /\ agent[c] \in {"holding", "empty", "gone"}
    /\ link[c] = "up"
    /\ pc' = [pc EXCEPT ![c] = "held"]
    /\ Keep
    /\ UNCHANGED <<scan, run, plat, faults>>

\* The claim RPC throws: its deadline passed, or the session went first.
GiveUp(c) ==
    /\ pc[c] = "asking"
    /\ \/ (link[c] = "cut" \/ agent[c] = "gone") /\ UNCHANGED faults
       \/ link[c] = "up" /\ agent[c] # "gone" /\ Fault
    /\ Destroy({c})
    /\ PassOver(c, FALSE)
    /\ UNCHANGED <<run, plat>>

\* WAIT_POLL_MS later the pool is scanned again, from the same rotation.
Wake(c) ==
    /\ pc[c] = "sleep"
    /\ pc' = [pc EXCEPT ![c] = "scan"]
    /\ at' = [at EXCEPT ![c] = 1]
    /\ sawBusy' = [sawBusy EXCEPT ![c] = FALSE]
    /\ Keep
    /\ UNCHANGED <<order, run, plat, faults>>

-----------------------------------------------------------------------------
(* The box on its own.                                                     *)

\* An agent whose caller has gone is told so by EOF or by the dead-man; its
\* child dies with it and the lock is free.
OrphanEnds(s) ==
    /\ lock[s] # Free /\ lock[s][2] = "orphan"
    /\ lock' = [lock EXCEPT ![s] = Free]
    /\ UNCHANGED <<scan, run, plat, pc, agent, link, lost, late, faults>>

\* A claim whose caller has gone is carried out all the same, or its agent is
\* gone before the child has the lock.
LateFlock(c, s) ==
    /\ <<c, s>> \in late
    /\ late' = late \ {<<c, s>>}
    /\ \/ lock[s] = Free /\ lock' = [lock EXCEPT ![s] = <<c, "orphan">>]
       \/ UNCHANGED lock
    /\ UNCHANGED <<scan, run, plat, pc, agent, link, lost, faults>>

\* The network between a coordinator and a box goes away and tells neither.
Cut(c) ==
    /\ link[c] = "up"
    /\ Fault
    /\ link' = [link EXCEPT ![c] = "cut"]
    /\ UNCHANGED <<scan, run, plat, pc, agent, lost, lock, late>>

\* The agent lets go and exits: stdin closed, the child gone, the lock free.
SelfRelease(c) ==
    /\ agent[c] = "holding"
    /\ agent' = [agent EXCEPT ![c] = "gone"]
    /\ lock' = [lock EXCEPT ![Slot(c)] = Free]
    /\ UNCHANGED <<scan, run, plat, pc, link, lost, late>>

\* 45 s without a byte from the coordinator.
DeadMan(c) == link[c] = "cut" /\ SelfRelease(c) /\ UNCHANGED faults

\* ODU_LEASE_MAX_HOLD_MS, an hour unless configured, however busy the lane is.
MaxHold(c) == SelfRelease(c) /\ Fault

\* The child that keeps the lock is killed; the agent has yet to hear of it.
HoldDies(c) ==
    /\ agent[c] = "holding"
    /\ Fault
    /\ agent' = [agent EXCEPT ![c] = "empty"]
    /\ lock' = [lock EXCEPT ![Slot(c)] = Free]
    /\ UNCHANGED <<scan, run, plat, pc, link, lost, late>>

\* child.once("close"): the third self-release, after which the agent exits.
HoldExit(c) ==
    /\ agent[c] = "empty"
    /\ agent' = [agent EXCEPT ![c] = "gone"]
    /\ UNCHANGED <<scan, run, plat, pc, link, lost, lock, late, faults>>

-----------------------------------------------------------------------------
(* The coordinator with a handle.                                          *)

\* A bug: only a link that drops is news, not an agent that let go and exited.
SessionDrops_CutOnly(c) ==
    /\ pc[c] \in {"held", "using"} /\ ~lost[c]
    /\ link[c] = "cut"
    /\ lost' = [lost EXCEPT ![c] = TRUE]
    /\ agent' = [agent EXCEPT ![c] = "gone"]
    /\ lock' = [s \in Slots |-> IF lock[s] = <<c, "agent">> THEN <<c, "orphan">>
                                ELSE lock[s]]
    /\ UNCHANGED <<scan, run, plat, pc, link, late, faults>>

\* session.onState: a link that drops, or an agent that exits, resolves `lost`.
SessionDrops(c) ==
    /\ pc[c] \in {"held", "using"} /\ ~lost[c]
    /\ link[c] = "cut" \/ agent[c] = "gone"
    /\ lost' = [lost EXCEPT ![c] = TRUE]
    /\ agent' = [agent EXCEPT ![c] = "gone"]
    /\ lock' = [s \in Slots |-> IF lock[s] = <<c, "agent">> THEN <<c, "orphan">>
                                ELSE lock[s]]
    /\ UNCHANGED <<scan, run, plat, pc, link, late, faults>>

\* acceptClaim: a handle that comes too late is given straight back.
Accept(c) ==
    /\ pc[c] = "held"
    /\ IF stopping[c[1]] \/ off[c]
       THEN pc' = [pc EXCEPT ![c] = "over"] /\ Destroy({c})
       ELSE pc' = [pc EXCEPT ![c] = "using"] /\ Keep
    /\ UNCHANGED <<scan, run, plat, faults>>

\* The last node of the platform reaches its verdict.
Work(c) ==
    /\ pc[c] = "using" /\ ~done[c] /\ ~stopping[c[1]]
    /\ done' = [done EXCEPT ![c] = TRUE]
    /\ Keep
    /\ UNCHANGED <<scan, run, lives, off, pc, faults>>

\* A bug: the successor queues for a box its own run still holds.
LaneDied_KeepsBox(c) ==
    /\ lives[c] < MaxLives
    /\ lives' = [lives EXCEPT ![c] = @ + 1]
    /\ pc' = [pc EXCEPT ![c] = "scan"]
    /\ lock' = [s \in Slots |-> IF lock[s] = <<c, "agent">> THEN <<c, "kept">>
                                ELSE lock[s]]
    /\ agent' = [agent EXCEPT ![c] = "none"]
    /\ link' = [link EXCEPT ![c] = "none"]
    /\ lost' = [lost EXCEPT ![c] = FALSE]
    /\ UNCHANGED <<scan, run, done, off, late>>

\* laneDied: with work left and a life to spend the box is given back and the
\* platform claimed again, "or a single-host pool waits on itself"; otherwise it
\* is over.
LaneDied(c) ==
    /\ IF ~done[c] /\ lives[c] < MaxLives /\ c[2] \notin Sharded
       THEN /\ lives' = [lives EXCEPT ![c] = @ + 1]
            /\ pc' = [pc EXCEPT ![c] = "scan"]
            /\ \E o \in Rotations(c[2]) : order' = [order EXCEPT ![c] = o]
            /\ at' = [at EXCEPT ![c] = 1]
            /\ sawBusy' = [sawBusy EXCEPT ![c] = FALSE]
            /\ UNCHANGED off
       ELSE /\ off' = [off EXCEPT ![c] = TRUE]
            /\ pc' = [pc EXCEPT ![c] = "over"]
            /\ UNCHANGED <<scan, lives>>
    /\ Destroy({c})
    /\ UNCHANGED <<run, done>>

\* The lane's own session to the box drops, whatever the lease's does.
LaneDrops(c) ==
    /\ pc[c] = "using" /\ ~stopping[c[1]]
    /\ Fault
    /\ LaneDied(c)

\* watchLease: the death of a lane, except that a sharded platform takes the
\* whole run down with it, and its venues before its statuses.
HearLost(c) ==
    LET r == c[1]
        mine == {d \in Of(r) : pc[d] = "using"} IN
    /\ pc[c] = "using" /\ lost[c] /\ ~stopping[r]
    /\ IF c[2] \in Sharded
       THEN /\ stopping' = [stopping EXCEPT ![r] = TRUE]
            /\ Destroy(mine)
            /\ pc' = [d \in Claims |-> IF d \in mine THEN "over" ELSE pc[d]]
            /\ UNCHANGED <<scan, plat, noWait, ended>>
       ELSE LaneDied(c)
    /\ UNCHANGED faults

\* `odu ci cancel @platform`: a lease in hand goes back now, one still being
\* claimed when it arrives.
CancelPlatform(c) ==
    /\ ~off[c] /\ ~ended[c[1]] /\ ~stopping[c[1]]
    /\ InFlight(c) \/ pc[c] = "using"
    /\ Fault
    /\ off' = [off EXCEPT ![c] = TRUE]
    /\ IF pc[c] = "using"
       THEN pc' = [pc EXCEPT ![c] = "over"] /\ Destroy({c})
       ELSE UNCHANGED pc /\ Keep
    /\ UNCHANGED <<scan, run, lives, done>>

\* Every startup claim is back and one of them found no machine: the run is
\* fail-closed, and the platforms that did get one are stopped.
FailClosed(r) ==
    /\ ~stopping[r] /\ ~ended[r]
    /\ \A c \in Of(r) : InFlight(c) => lives[c] > 0
    /\ \E c \in Of(r) : pc[c] = "failed" /\ lives[c] = 0
    /\ \E c \in Of(r) : ~off[c] /\ pc[c] # "failed"
    /\ off' = [c \in Claims |-> off[c] \/ c \in Of(r)]
    /\ Destroy({c \in Of(r) : pc[c] = "using"})
    /\ pc' = [c \in Claims |-> IF c \in Of(r) /\ pc[c] = "using" THEN "over"
                               ELSE pc[c]]
    /\ UNCHANGED <<scan, run, lives, done, faults>>

\* run.cancel, a signal, the view's q: the venues are kept until the statuses
\* have been posted, and go with the process.
Shutdown(r) ==
    /\ ~stopping[r] /\ ~ended[r]
    /\ Fault
    /\ stopping' = [stopping EXCEPT ![r] = TRUE]
    /\ Keep
    /\ UNCHANGED <<scan, plat, noWait, ended, pc>>

\* What a process knew goes with it.
Forget(r) ==
    /\ at' = [c \in Claims |-> IF c \in Of(r) THEN 1 ELSE at[c]]
    /\ sawBusy' = [c \in Claims |-> c \notin Of(r) /\ sawBusy[c]]
    /\ lives' = [c \in Claims |-> IF c \in Of(r) THEN 0 ELSE lives[c]]
    /\ done' = [c \in Claims |-> c \notin Of(r) /\ done[c]]
    /\ off' = [c \in Claims |-> c \notin Of(r) /\ off[c]]
    /\ noWait' = [noWait EXCEPT ![r] = FALSE]
    /\ stopping' = [stopping EXCEPT ![r] = FALSE]

\* Every node has settled and no claim is in flight, or shutdown has posted:
\* the leases go back and the process ends, its other sessions with it.
End(r) ==
    /\ ~ended[r]
    /\ stopping[r] \/ \A c \in Of(r) :
                        pc[c] \in {"over", "failed"} \/ (pc[c] = "using" /\ done[c])
    /\ ended' = [ended EXCEPT ![r] = TRUE]
    /\ Destroy(Of(r))
    /\ pc' = [c \in Claims |-> IF c \in Of(r) THEN "over" ELSE pc[c]]
    /\ Forget(r)
    /\ UNCHANGED <<order, faults>>

Next ==
    \/ \E c \in Claims :
         \/ Dial(c) \/ Unreachable(c) \/ Flock(c) \/ HearBusy(c) \/ HearHeld(c)
         \/ GiveUp(c) \/ Wake(c) \/ Cut(c) \/ DeadMan(c) \/ MaxHold(c)
         \/ HoldDies(c) \/ HoldExit(c) \/ SessionDrops(c) \/ Accept(c)
         \/ Work(c) \/ LaneDrops(c) \/ HearLost(c) \/ CancelPlatform(c)
         \/ \E s \in Slots : LateFlock(c, s)
    \/ \E s \in Slots : OrphanEnds(s)
    \/ \E r \in Runs : FailClosed(r) \/ Shutdown(r) \/ End(r)
    \/ (\A r \in Runs : ended[r]) /\ UNCHANGED vars

\* What the coordinator does about a claim: one loop, one session's callbacks.
Coordinator(c) ==
    \/ Dial(c) \/ HearBusy(c) \/ HearHeld(c)
    \/ GiveUp(c) /\ UNCHANGED faults
    \/ Wake(c) \/ Accept(c) \/ SessionDrops(c) \/ HearLost(c)

\* What boxes do for a claim of their own accord.
Box(c) == Flock(c) \/ HoldExit(c) \/ \E s \in Slots : LateFlock(c, s)

\* Every loop and callback of a live process comes round; a box notices in the
\* end that its caller has gone, and a session that its peer has.  A recipe may
\* run for ever, and nothing has to fail.
Fairness ==
    /\ \A c \in Claims : WF_vars(Coordinator(c)) /\ WF_vars(Box(c))
    /\ \A s \in Slots : WF_vars(OrphanEnds(s))
    /\ \A r \in Runs : WF_vars(FailClosed(r) \/ End(r))

Spec == Init /\ [][Next]_vars /\ Fairness

-----------------------------------------------------------------------------

\* No fault has reached this claim's hold since it was taken.
Sound(c) == link[c] = "up" /\ agent[c] = "holding"

\* Two runs never work on one slot unless the hold of one of them has already
\* been undone at its own end: by a link that is cut, a child that died, an
\* agent that let go.  What the late claims and orphans of one run leave behind
\* costs another run time, never its exclusivity.
Exclusive ==
    \A c, d \in Claims :
        c # d /\ pc[c] = "using" /\ pc[d] = "using" /\ Slot(c) = Slot(d)
        => ~(Sound(c) /\ Sound(d))

\* The pool is typed and no two sound holds are at work on one slot.
Inv == TypeOK /\ Exclusive

\* A run that works on a slot it no longer holds finds out and stops, however
\* the hold went and even if its recipes would run for ever.
LossIsHeard ==
    \A c \in Claims : (pc[c] = "using" /\ ~Mine(c)) ~> (pc[c] # "using")

\* If recipes end, whoever waits in line is served or told that it will not be.
RecipesEnd == \A c \in Claims : WF_vars(Work(c))
LineMoves ==
    RecipesEnd => \A c \in Claims : InFlight(c) ~> ~InFlight(c)

\* r waits in line for a platform whose every slot is worked on by q.
WaitsOn(r, q) ==
    \E c \in Of(r) :
        /\ pc[c] = "sleep"
        /\ \A i \in DOMAIN order[c] :
             \E d \in Of(q) : pc[d] = "using" /\ Mine(d) /\ Slot(d) = order[c][i]

\* Two runs never wait for each other: neither lets go before it has ended, so
\* neither would ever move again.  "Multi-platform is all-or-nothing (release
\* partial holds while waiting)" is meant to rule it out.
NoCircularWait ==
    \A r, q \in Runs : r # q => ~(WaitsOn(r, q) /\ WaitsOn(q, r))
=============================================================================
