-------------------------- MODULE VenueLease_proofs --------------------------
(* What is proved of venue leases, whatever the runs, the platforms, the   *)
(* slots, the pools, the faults and the lives.                             *)
EXTENDS VenueLease, TLAPS

Where == {"scan", "asking", "sleep", "held", "using", "failed", "over"}
Agent == {"none", "asked", "holding", "busy", "empty", "gone"}
Owner == {Free} \cup (Claims \X {"agent", "orphan"})

\* The scan of each claim stands at an entry of its pool.
Scans ==
    /\ DOMAIN order = Claims /\ DOMAIN at = Claims
    /\ \A c \in Claims : order[c] \in Rotations(c[2]) /\ at[c] \in DOMAIN order[c]
    /\ sawBusy \in [Claims -> BOOLEAN]

\* Sessions and locks are typed.
Sessions ==
    /\ pc \in [Claims -> Where]
    /\ agent \in [Claims -> Agent]
    /\ link \in [Claims -> {"none", "up", "cut"}]
    /\ lost \in [Claims -> BOOLEAN]
    /\ lock \in [Slots -> Owner]
    /\ late \subseteq Claims \X Slots

\* An agent that holds has the lock of the slot its claim stands at.
Holders == \A c \in Claims : agent[c] = "holding" => lock[Slot(c)] = <<c, "agent">>

\* A claim that is between two sessions has no agent.
Idle == \A c \in Claims : pc[c] \in {"scan", "sleep"} => agent[c] = "none"

IInv == Scans /\ Sessions /\ Holders /\ Idle

-----------------------------------------------------------------------------
LEMMA ModRange == \A a \in Nat, n \in Nat : n > 0 => a % n \in 0..n - 1
  OBVIOUS

\* A rotation asks the slots of its pool, as many of them as there are.
LEMMA RotationsAreSequences ==
    ASSUME NEW p \in Platforms, NEW o \in Rotations(p)
    PROVE  o \in Seq(Slots) /\ Len(o) = Len(Pool[p]) /\ 1 \in DOMAIN o
  <1>. DEFINE n == Len(Pool[p])
  <1>1. Pool[p] \in Seq(Slots) /\ n \in Nat /\ n > 0 /\ DOMAIN Pool[p] = 1..n
    BY PoolAssumption
  <1>2. PICK k \in 0..n - 1 : o = [i \in DOMAIN Pool[p] |-> Pool[p][((i + k) % n) + 1]]
    BY DEF Rotations
  <1>3. \A i \in 1..n : ((i + k) % n) + 1 \in 1..n
    <2>. SUFFICES ASSUME NEW i \in 1..n PROVE ((i + k) % n) + 1 \in 1..n
      OBVIOUS
    <2>1. i + k \in Nat
      BY <1>1
    <2>. DEFINE m == (i + k) % n
    <2>2. m \in 0..n - 1
      BY <1>1, <2>1, ModRange
    <2>. HIDE DEF m, n
    <2>3. m + 1 \in 1..n
      BY <1>1, <2>2
    <2>. QED BY <2>3 DEF m
  <1>4. \A j \in 1..n : Pool[p][j] \in Slots
    BY <1>1
  <1>5. o \in [1..n -> Slots]
    BY <1>1, <1>2, <1>3, <1>4
  <1>6. o \in Seq(Slots) /\ Len(o) = n
    BY <1>1, <1>5
  <1>. QED BY <1>1, <1>5, <1>6

\* Every claim stands at a slot, and no owner of a lock is nobody.
LEMMA ClaimsStand ==
    ASSUME Scans, NEW c \in Claims
    PROVE  /\ c[1] \in Runs /\ c[2] \in Platforms /\ Slot(c) \in Slots
           /\ \A i \in DOMAIN order[c] : order[c][i] \in Slots
           /\ at[c] \in 1..Len(order[c]) /\ 1 \in DOMAIN order[c]
           /\ DOMAIN order[c] = 1..Len(order[c])
  <1>1. c[1] \in Runs /\ c[2] \in Platforms
    BY DEF Claims
  <1>2. order[c] \in Seq(Slots) /\ 1 \in DOMAIN order[c]
    BY <1>1, RotationsAreSequences DEF Scans
  <1>. QED BY <1>1, <1>2 DEF Scans, Slot

LEMMA FreeIsNobody == \A c, k : Free # <<c, k>>
  BY DEF Free

\* What ends sessions takes the locks of their agents from them and leaves the
\* other claims alone.
LEMMA Destroyed ==
    ASSUME Scans, Sessions, Holders, NEW C \in SUBSET Claims, Destroy(C)
    PROVE  /\ agent' \in [Claims -> Agent] /\ link' \in [Claims -> {"none", "up", "cut"}]
           /\ lost' \in [Claims -> BOOLEAN] /\ lock' \in [Slots -> Owner]
           /\ late' \subseteq Claims \X Slots
           /\ \A c \in C : agent'[c] = "none"
           /\ \A c \in Claims \ C : agent'[c] = agent[c]
           /\ \A c \in Claims \ C : agent[c] = "holding" => lock'[Slot(c)] = <<c, "agent">>
  <1>1. agent' = [c \in Claims |-> IF c \in C THEN "none" ELSE agent[c]]
    BY DEF Destroy
  <1>2. agent' \in [Claims -> Agent]
    BY <1>1 DEF Sessions, Agent
  <1>3. link' \in [Claims -> {"none", "up", "cut"}] /\ lost' \in [Claims -> BOOLEAN]
    BY DEF Destroy, Sessions
  <1>4. ASSUME NEW s \in Slots
        PROVE  lock'[s] \in Owner /\ \A c \in Claims \ C :
                   lock[s] = <<c, "agent">> => lock'[s] = <<c, "agent">>
    <2>1. lock[s] \in Owner
      BY DEF Sessions
    <2>2. CASE \E c \in C : lock[s] = <<c, "agent">>
      <3>1. PICK c \in C : lock[s] = <<c, "agent">>
        BY <2>2
      <3>2. lock'[s] = <<c, "orphan">>
        BY <2>2, <3>1 DEF Destroy
      <3>. QED BY <3>1, <3>2 DEF Owner
    <2>3. CASE ~ \E c \in C : lock[s] = <<c, "agent">>
      <3>1. lock'[s] = lock[s]
        BY <2>3 DEF Destroy
      <3>. QED BY <2>1, <3>1
    <2>. QED BY <2>2, <2>3
  <1>5. lock' \in [Slots -> Owner]
    BY <1>4 DEF Destroy
  <1>6. late' \subseteq Claims \X Slots
    <2>1. \A c \in C : Slot(c) \in Slots
      BY ClaimsStand
    <2>2. late' = late \cup {<<c, Slot(c)>> : c \in {d \in C : agent[d] = "asked"}}
      BY DEF Destroy
    <2>. QED BY <2>1, <2>2 DEF Sessions
  <1>7. \A c \in Claims \ C : agent[c] = "holding" => lock'[Slot(c)] = <<c, "agent">>
    BY <1>4, ClaimsStand DEF Holders
  <1>. QED BY <1>1, <1>2, <1>3, <1>5, <1>6, <1>7

\* The invariant survives the end of some sessions when the claims that keep
\* theirs stay where they are, and none of them goes back to the scan.
LEMMA DestroyStep ==
    ASSUME IInv, NEW C \in SUBSET Claims, Destroy(C), Scans', pc' \in [Claims -> Where],
           \A c \in Claims \ C : order'[c] = order[c] /\ at'[c] = at[c],
           \A c \in Claims \ C : pc'[c] \in {"scan", "sleep"} => pc[c] \in {"scan", "sleep"}
    PROVE  IInv'
  <1>. USE DEF IInv
  <1>1. Sessions'
    BY Destroyed DEF Sessions
  <1>2. Holders'
    <2>. SUFFICES ASSUME NEW c \in Claims, agent'[c] = "holding"
                  PROVE  lock'[order'[c][at'[c]]] = <<c, "agent">>
      BY DEF Holders, Slot
    <2>1. c \in Claims \ C /\ agent[c] = "holding"
      BY Destroyed
    <2>2. lock'[Slot(c)] = <<c, "agent">>
      BY <2>1, Destroyed
    <2>. QED BY <2>1, <2>2 DEF Slot
  <1>3. Idle'
    <2>. SUFFICES ASSUME NEW c \in Claims, pc'[c] \in {"scan", "sleep"}
                  PROVE  agent'[c] = "none"
      BY DEF Idle
    <2>1. CASE c \in C
      BY <2>1, Destroyed
    <2>2. CASE c \notin C
      <3>1. agent[c] = "none"
        BY <2>2 DEF Idle
      <3>. QED BY <2>2, <3>1, Destroyed
    <2>. QED BY <2>1, <2>2
  <1>. QED BY <1>1, <1>2, <1>3

\* A step that leaves the scans and ends no session keeps the invariant when
\* whoever holds afterwards has its lock.
LEMMA QuietStep ==
    ASSUME IInv, Sessions', UNCHANGED scan,
           \A c \in Claims : agent'[c] = "holding" => lock'[Slot(c)] = <<c, "agent">>,
           \A c \in Claims : pc'[c] \in {"scan", "sleep"} => agent'[c] = "none"
    PROVE  IInv'
  <1>1. Scans'
    BY DEF IInv, Scans, scan
  <1>2. Holders' /\ Idle'
    BY DEF Holders, Idle, Slot, scan
  <1>. QED BY <1>1, <1>2 DEF IInv

\* Passing an entry over moves its claim along its pool, or out of it.
LEMMA PassOverMoves ==
    ASSUME IInv, NEW c \in Claims, NEW busy \in BOOLEAN, PassOver(c, busy)
    PROVE  /\ Scans' /\ pc' \in [Claims -> Where]
           /\ \A d \in Claims \ {c} : order'[d] = order[d] /\ at'[d] = at[d]
           /\ \A d \in Claims \ {c} : pc'[d] = pc[d]
  <1>. DEFINE any == sawBusy[c] \/ busy
  <1>. USE DEF IInv
  <1>0. any \in BOOLEAN /\ pc \in [Claims -> Where]
    BY DEF Scans, Sessions
  <1>1. CASE at[c] < Len(order[c])
    <2>1. /\ pc' = [pc EXCEPT ![c] = "scan"] /\ at' = [at EXCEPT ![c] = @ + 1]
          /\ sawBusy' = [sawBusy EXCEPT ![c] = any] /\ order' = order
      BY <1>1 DEF PassOver
    <2>. HIDE DEF any
    <2>2. at[c] + 1 \in DOMAIN order[c]
      BY <1>1, ClaimsStand
    <2>3. sawBusy' \in [Claims -> BOOLEAN]
      BY <1>0, <2>1 DEF Scans
    <2>4. \A d \in Claims : at'[d] = IF d = c THEN at[c] + 1 ELSE at[d]
      BY <2>1 DEF Scans
    <2>5. Scans'
      BY <2>1, <2>2, <2>3, <2>4 DEF Scans
    <2>. QED BY <1>0, <2>1, <2>4, <2>5 DEF Where
  <1>2. CASE ~(at[c] < Len(order[c]))
    <2>1. /\ \E w \in Where : pc' = [pc EXCEPT ![c] = w]
          /\ UNCHANGED <<order, at, sawBusy>>
      BY <1>2 DEF PassOver, scan, Where
    <2>. QED BY <1>0, <2>1 DEF Scans
  <1>. QED BY <1>1, <1>2

\* The invariant holds when every run has just started.
LEMMA InitIInv == ASSUME Init PROVE IInv
  <1>1. Scans
    <2>1. \A c \in Claims : order[c] \in Rotations(c[2]) /\ c[2] \in Platforms
      BY DEF Init, Claims
    <2>2. \A c \in Claims : at[c] = 1 /\ 1 \in DOMAIN order[c]
      BY <2>1, RotationsAreSequences DEF Init
    <2>. QED BY <2>1, <2>2 DEF Init, Scans
  <1>2. Sessions
    BY DEF Init, Sessions, Where, Agent, Owner
  <1>3. Holders /\ Idle
    BY DEF Init, Holders, Idle
  <1>. QED BY <1>1, <1>2, <1>3 DEF IInv

-----------------------------------------------------------------------------
(* One lemma per kind of step.                                             *)

\* What dialling, the answers and the passing of time do to a scan.
LEMMA ScanSteps ==
    ASSUME IInv, NEW c \in Claims,
           \/ Dial(c) \/ Unreachable(c) \/ HearBusy(c) \/ HearHeld(c) \/ GiveUp(c)
           \/ Wake(c)
    PROVE  IInv'
  <1>. USE DEF IInv
  <1>1. CASE Dial(c)
    <2>1. Sessions'
      BY <1>1 DEF Dial, Sessions, Where, Agent
    <2>2. \A d \in Claims : agent'[d] = "holding" => agent[d] = "holding"
      BY <1>1 DEF Dial, Sessions
    <2>3. \A d \in Claims : agent'[d] = "holding" => lock'[Slot(d)] = <<d, "agent">>
      BY <1>1, <2>2 DEF Dial, Holders
    <2>4. \A d \in Claims : pc'[d] \in {"scan", "sleep"} => agent'[d] = "none"
      BY <1>1 DEF Dial, Sessions, Idle
    <2>. QED BY <1>1, <2>1, <2>3, <2>4, QuietStep DEF Dial
  <1>2. CASE Unreachable(c)
    <2>1. PassOver(c, FALSE) /\ UNCHANGED <<agent, link, lost, lock, late>> /\ agent[c] = "none"
      BY <1>2 DEF Unreachable, Keep, Idle
    <2>2. /\ Scans' /\ pc' \in [Claims -> Where]
          /\ \A d \in Claims \ {c} : order'[d] = order[d] /\ at'[d] = at[d]
          /\ \A d \in Claims \ {c} : pc'[d] = pc[d]
      BY <2>1, PassOverMoves
    <2>3. Sessions'
      BY <2>1, <2>2 DEF Sessions
    <2>4. Holders'
      BY <2>1, <2>2 DEF Holders, Slot
    <2>5. Idle'
      BY <2>1, <2>2 DEF Idle
    <2>. QED BY <2>2, <2>3, <2>4, <2>5
  <1>3. CASE HearBusy(c) \/ GiveUp(c)
    <2>1. PICK busy \in BOOLEAN : PassOver(c, busy) /\ Destroy({c})
      BY <1>3 DEF HearBusy, GiveUp
    <2>2. /\ Scans' /\ pc' \in [Claims -> Where]
          /\ \A d \in Claims \ {c} : order'[d] = order[d] /\ at'[d] = at[d]
          /\ \A d \in Claims \ {c} : pc'[d] = pc[d]
      BY <2>1, PassOverMoves
    <2>. QED BY <2>1, <2>2, DestroyStep
  <1>4. CASE HearHeld(c)
    <2>1. UNCHANGED <<agent, link, lost, lock, late, order, at, sawBusy>>
          /\ pc' = [pc EXCEPT ![c] = "held"]
      BY <1>4 DEF HearHeld, Keep, scan
    <2>2. Sessions' /\ Scans'
      BY <2>1 DEF Sessions, Scans, Where
    <2>. QED BY <2>1, <2>2 DEF Sessions, Holders, Idle, Slot
  <1>5. CASE Wake(c)
    <2>1. UNCHANGED <<agent, link, lost, lock, late, order>> /\ agent[c] = "none"
          /\ pc' = [pc EXCEPT ![c] = "scan"] /\ at' = [at EXCEPT ![c] = 1]
          /\ sawBusy' = [sawBusy EXCEPT ![c] = FALSE]
      BY <1>5 DEF Wake, Keep, Idle
    <2>2. Scans'
      BY <2>1, ClaimsStand DEF Scans
    <2>3. Sessions'
      BY <2>1 DEF Sessions, Where
    <2>4. Holders'
      BY <2>1 DEF Scans, Holders, Slot
    <2>5. Idle'
      BY <2>1 DEF Sessions, Idle
    <2>. QED BY <2>2, <2>3, <2>4, <2>5
  <1>. QED BY <1>1, <1>2, <1>3, <1>4, <1>5

\* What an agent does about its lock: it takes a free one, and lets go of none
\* but its own.
LEMMA BoxSteps ==
    ASSUME IInv, NEW c \in Claims,
           Flock(c) \/ DeadMan(c) \/ MaxHold(c) \/ HoldDies(c) \/ HoldExit(c)
    PROVE  IInv'
  <1>. USE DEF IInv
  <1>1. Slot(c) \in Slots
    BY ClaimsStand
  <1>2. UNCHANGED scan /\ UNCHANGED <<pc, link, lost, late>>
    BY DEF Flock, DeadMan, MaxHold, SelfRelease, HoldDies, HoldExit
  <1>3. pc[c] \notin {"scan", "sleep"}
    BY DEF Flock, DeadMan, MaxHold, SelfRelease, HoldDies, HoldExit, Idle
  <1>4. CASE Flock(c) /\ lock[Slot(c)] = Free
    <2>1. /\ lock' = [lock EXCEPT ![Slot(c)] = <<c, "agent">>]
          /\ agent' = [agent EXCEPT ![c] = "holding"]
      BY <1>4 DEF Flock
    <2>2. Sessions'
      BY <1>1, <1>2, <2>1 DEF Sessions, Agent, Owner
    <2>3. ASSUME NEW d \in Claims, d # c, agent[d] = "holding"
          PROVE  lock'[Slot(d)] = <<d, "agent">>
      <3>1. lock[Slot(d)] = <<d, "agent">>
        BY <2>3 DEF Holders
      <3>2. Slot(d) # Slot(c)
        BY <1>4, <3>1, FreeIsNobody
      <3>. QED BY <2>1, <3>1, <3>2, ClaimsStand DEF Sessions
    <2>4. \A d \in Claims : agent'[d] = "holding" => lock'[Slot(d)] = <<d, "agent">>
      BY <1>1, <2>1, <2>3 DEF Sessions
    <2>5. \A d \in Claims : pc'[d] \in {"scan", "sleep"} => agent'[d] = "none"
      BY <1>2, <1>3, <2>1 DEF Sessions, Idle
    <2>. QED BY <1>2, <2>2, <2>4, <2>5, QuietStep
  <1>5. CASE (Flock(c) /\ lock[Slot(c)] # Free) \/ HoldExit(c)
    <2>1. /\ lock' = lock
          /\ \E a \in {"busy", "gone"} : agent' = [agent EXCEPT ![c] = a]
      BY <1>5 DEF Flock, HoldExit
    <2>2. Sessions'
      BY <1>2, <2>1 DEF Sessions, Agent
    <2>3. \A d \in Claims : agent'[d] = "holding" => lock'[Slot(d)] = <<d, "agent">>
      BY <2>1 DEF Sessions, Holders
    <2>4. \A d \in Claims : pc'[d] \in {"scan", "sleep"} => agent'[d] = "none"
      BY <1>2, <1>3, <2>1 DEF Sessions, Idle
    <2>. QED BY <1>2, <2>2, <2>3, <2>4, QuietStep
  <1>6. CASE DeadMan(c) \/ MaxHold(c) \/ HoldDies(c)
    <2>1. /\ lock' = [lock EXCEPT ![Slot(c)] = Free] /\ agent[c] = "holding"
          /\ \E a \in {"gone", "empty"} : agent' = [agent EXCEPT ![c] = a]
      BY <1>6 DEF DeadMan, MaxHold, SelfRelease, HoldDies
    <2>2. Sessions'
      BY <1>1, <1>2, <2>1 DEF Sessions, Agent, Owner
    <2>3. ASSUME NEW d \in Claims, d # c, agent[d] = "holding"
          PROVE  lock'[Slot(d)] = <<d, "agent">>
      <3>1. lock[Slot(d)] = <<d, "agent">> /\ lock[Slot(c)] = <<c, "agent">>
        BY <2>1, <2>3 DEF Holders
      <3>2. Slot(d) # Slot(c)
        BY <2>3, <3>1
      <3>. QED BY <2>1, <3>1, <3>2, ClaimsStand DEF Sessions
    <2>4. \A d \in Claims : agent'[d] = "holding" => lock'[Slot(d)] = <<d, "agent">>
      BY <2>1, <2>3 DEF Sessions
    <2>5. \A d \in Claims : pc'[d] \in {"scan", "sleep"} => agent'[d] = "none"
      BY <1>2, <1>3, <2>1 DEF Sessions, Idle
    <2>. QED BY <1>2, <2>2, <2>4, <2>5, QuietStep
  <1>. QED BY <1>4, <1>5, <1>6

\* A lock that no agent of a live caller has changes hands without their losing
\* theirs.
LEMMA NobodysLock ==
    ASSUME IInv, UNCHANGED <<pc, agent, link, lost>>, UNCHANGED scan, late' \subseteq late,
           NEW s \in Slots,
           \/ lock' = lock
           \/ /\ lock[s] = Free \/ lock[s][2] = "orphan"
              /\ \E o \in Owner : lock' = [lock EXCEPT ![s] = o]
    PROVE  IInv'
  <1>1. Sessions'
    BY DEF IInv, Sessions
  <1>2. ASSUME NEW d \in Claims, agent'[d] = "holding"
        PROVE  lock'[Slot(d)] = <<d, "agent">>
    <2>1. lock[Slot(d)] = <<d, "agent">> /\ Slot(d) \in Slots
      BY <1>2, ClaimsStand DEF IInv, Holders
    <2>2. lock[Slot(d)] # Free /\ lock[Slot(d)][2] = "agent"
      BY <2>1, FreeIsNobody
    <2>. QED BY <2>1, <2>2 DEF IInv, Sessions
  <1>3. \A d \in Claims : pc'[d] \in {"scan", "sleep"} => agent'[d] = "none"
    BY DEF IInv, Idle
  <1>. QED BY <1>1, <1>2, <1>3, QuietStep

\* An agent whose caller has gone ends.
LEMMA OrphanStep ==
    ASSUME IInv, NEW s \in Slots, OrphanEnds(s)
    PROVE  IInv'
  <1>1. Free \in Owner
    BY DEF Owner
  <1>. QED BY <1>1, NobodysLock DEF OrphanEnds

\* What happens to sessions and locks that nobody decided on.
LEMMA WorldSteps ==
    ASSUME IInv, NEW c \in Claims, NEW s \in Slots,
           Cut(c) \/ SessionDrops(c) \/ LateFlock(c, s)
    PROVE  IInv'
  <1>. USE DEF IInv
  <1>1. UNCHANGED scan /\ UNCHANGED pc
    BY DEF Cut, SessionDrops, LateFlock
  <1>2. CASE Cut(c)
    <2>1. Sessions'
      BY <1>2 DEF Cut, Sessions
    <2>. QED BY <1>1, <1>2, <2>1, QuietStep DEF Cut, Holders, Idle
  <1>3. CASE SessionDrops(c)
    <2>1. /\ agent' = [agent EXCEPT ![c] = "gone"] /\ pc[c] \in {"held", "using"}
          /\ lock' = [t \in Slots |-> IF lock[t] = <<c, "agent">> THEN <<c, "orphan">>
                                       ELSE lock[t]]
      BY <1>3 DEF SessionDrops
    <2>2. lock' \in [Slots -> Owner]
      BY <2>1 DEF Sessions, Owner
    <2>3. Sessions'
      BY <1>3, <2>1, <2>2 DEF SessionDrops, Sessions, Agent
    <2>4. ASSUME NEW d \in Claims, agent'[d] = "holding"
          PROVE  lock'[Slot(d)] = <<d, "agent">>
      <3>1. d # c /\ agent[d] = "holding"
        BY <2>1, <2>4 DEF Sessions
      <3>2. lock[Slot(d)] = <<d, "agent">> /\ Slot(d) \in Slots
        BY <3>1, ClaimsStand DEF Holders
      <3>. QED BY <2>1, <3>1, <3>2
    <2>5. \A d \in Claims : pc'[d] \in {"scan", "sleep"} => agent'[d] = "none"
      BY <1>1, <2>1 DEF Sessions, Idle
    <2>. QED BY <1>1, <2>3, <2>4, <2>5, QuietStep
  <1>4. CASE LateFlock(c, s)
    <2>1. /\ agent' = agent /\ UNCHANGED <<link, lost>> /\ late' \subseteq late
          /\ \/ lock' = lock
             \/ lock[s] = Free /\ lock' = [lock EXCEPT ![s] = <<c, "orphan">>]
      BY <1>4 DEF LateFlock
    <2>2. <<c, "orphan">> \in Owner
      BY DEF Owner
    <2>. QED BY <1>1, <2>1, <2>2, NobodysLock
  <1>. QED BY <1>2, <1>3, <1>4

\* What the coordinator does with a handle.
LEMMA HandleSteps ==
    ASSUME IInv, NEW c \in Claims,
           \/ Accept(c) \/ Work(c) \/ LaneDrops(c) \/ HearLost(c) \/ CancelPlatform(c)
    PROVE  IInv'
  <1>. USE DEF IInv
  <1>1. ASSUME NEW w \in {"over", "using"}, pc' = [pc EXCEPT ![c] = w], UNCHANGED scan,
               Destroy({c})
        PROVE  IInv'
    <2>1. Scans' /\ pc' \in [Claims -> Where]
      BY <1>1 DEF scan, Scans, Sessions, Where
    <2>2. \A d \in Claims \ {c} : order'[d] = order[d] /\ at'[d] = at[d]
      BY <1>1 DEF scan
    <2>3. \A d \in Claims \ {c} : pc'[d] = pc[d]
      BY <1>1 DEF Sessions
    <2>. QED BY <1>1, <2>1, <2>2, <2>3, DestroyStep
  <1>2. ASSUME pc' = pc \/ pc' = [pc EXCEPT ![c] = "using"], UNCHANGED scan, Keep
        PROVE  IInv'
    <2>1. Sessions'
      BY <1>2 DEF Keep, Sessions, Where
    <2>2. \A d \in Claims : pc'[d] \in {"scan", "sleep"} => pc[d] \in {"scan", "sleep"}
      BY <1>2 DEF Sessions
    <2>. QED BY <1>2, <2>1, <2>2, QuietStep DEF Keep, Holders, Idle
  <1>3. CASE Accept(c)
    BY <1>1, <1>2, <1>3 DEF Accept
  <1>4. CASE Work(c)
    BY <1>2, <1>4 DEF Work
  <1>5. CASE CancelPlatform(c)
    BY <1>1, <1>2, <1>5 DEF CancelPlatform
  <1>6. ASSUME LaneDied(c) PROVE IInv'
    <2>1. Destroy({c})
      BY <1>6 DEF LaneDied
    <2>2. CASE ~done[c] /\ lives[c] < MaxLives /\ c[2] \notin Sharded
      <3>1. PICK o \in Rotations(c[2]) : order' = [order EXCEPT ![c] = o]
        BY <1>6, <2>2 DEF LaneDied
      <3>2. /\ at' = [at EXCEPT ![c] = 1] /\ sawBusy' = [sawBusy EXCEPT ![c] = FALSE]
            /\ pc' = [pc EXCEPT ![c] = "scan"]
        BY <1>6, <2>2 DEF LaneDied
      <3>3. 1 \in DOMAIN o
        BY <3>1, ClaimsStand, RotationsAreSequences
      <3>4. Scans'
        BY <3>1, <3>2, <3>3 DEF Scans
      <3>5. pc' \in [Claims -> Where]
        BY <3>2 DEF Sessions, Where
      <3>6. \A d \in Claims \ {c} : order'[d] = order[d] /\ at'[d] = at[d]
        BY <3>1, <3>2 DEF Scans
      <3>7. \A d \in Claims \ {c} : pc'[d] = pc[d]
        BY <3>2 DEF Sessions
      <3>. QED BY <2>1, <3>4, <3>5, <3>6, <3>7, DestroyStep
    <2>3. CASE ~(~done[c] /\ lives[c] < MaxLives /\ c[2] \notin Sharded)
      BY <1>1, <1>6, <2>1, <2>3 DEF LaneDied
    <2>. QED BY <2>2, <2>3
  <1>7. CASE LaneDrops(c)
    BY <1>6, <1>7 DEF LaneDrops
  <1>8. CASE HearLost(c)
    <2>. DEFINE mine == {d \in Of(c[1]) : pc[d] = "using"}
    <2>1. CASE c[2] \in Sharded
      <3>1. /\ Destroy(mine) /\ UNCHANGED scan
            /\ pc' = [d \in Claims |-> IF d \in mine THEN "over" ELSE pc[d]]
        BY <1>8, <2>1 DEF HearLost
      <3>2. mine \in SUBSET Claims
        BY DEF Of
      <3>. HIDE DEF mine
      <3>3. Scans' /\ pc' \in [Claims -> Where]
        BY <3>1 DEF scan, Scans, Sessions, Where
      <3>4. \A d \in Claims \ mine : order'[d] = order[d] /\ at'[d] = at[d]
        BY <3>1 DEF scan
      <3>5. \A d \in Claims \ mine : pc'[d] = pc[d]
        BY <3>1
      <3>. QED BY <3>1, <3>2, <3>3, <3>4, <3>5, DestroyStep
    <2>2. CASE c[2] \notin Sharded
      BY <1>6, <1>8, <2>2 DEF HearLost
    <2>. QED BY <2>1, <2>2
  <1>. QED BY <1>3, <1>4, <1>5, <1>7, <1>8

\* What ends a run, or gives its venues back.
LEMMA RunSteps ==
    ASSUME IInv, NEW r \in Runs, FailClosed(r) \/ Shutdown(r) \/ End(r)
    PROVE  IInv'
  <1>. USE DEF IInv
  <1>1. CASE Shutdown(r)
    <2>1. Sessions'
      BY <1>1 DEF Shutdown, Keep, Sessions
    <2>. QED BY <1>1, <2>1, QuietStep DEF Shutdown, Keep, Holders, Idle
  <1>2. CASE FailClosed(r)
    <2>. DEFINE C == {c \in Of(r) : pc[c] = "using"}
    <2>1. Destroy(C) /\ UNCHANGED scan /\ C \in SUBSET Claims
          /\ pc' = [c \in Claims |-> IF c \in C THEN "over" ELSE pc[c]]
      BY <1>2 DEF FailClosed, Of
    <2>. HIDE DEF C
    <2>2. Scans' /\ pc' \in [Claims -> Where]
      BY <2>1 DEF scan, Scans, Sessions, Where
    <2>3. \A d \in Claims \ C : order'[d] = order[d] /\ at'[d] = at[d]
      BY <2>1 DEF scan
    <2>4. \A d \in Claims \ C : pc'[d] = pc[d]
      BY <2>1
    <2>. QED BY <2>1, <2>2, <2>3, <2>4, DestroyStep
  <1>3. CASE End(r)
    <2>1. Destroy(Of(r)) /\ order' = order /\ Of(r) \in SUBSET Claims
          /\ pc' = [c \in Claims |-> IF c \in Of(r) THEN "over" ELSE pc[c]]
          /\ at' = [c \in Claims |-> IF c \in Of(r) THEN 1 ELSE at[c]]
          /\ sawBusy' = [c \in Claims |-> c \notin Of(r) /\ sawBusy[c]]
      BY <1>3 DEF End, Forget, Of
    <2>2. pc' \in [Claims -> Where]
      BY <2>1 DEF Sessions, Where
    <2>3. \A c \in Claims : at'[c] \in DOMAIN order[c]
      BY <2>1, ClaimsStand DEF Scans
    <2>4. sawBusy' \in [Claims -> BOOLEAN]
      BY <2>1
    <2>5. Scans'
      BY <2>1, <2>3, <2>4 DEF Scans
    <2>6. \A d \in Claims \ Of(r) : order'[d] = order[d] /\ at'[d] = at[d]
      BY <2>1
    <2>7. \A d \in Claims \ Of(r) : pc'[d] = pc[d]
      BY <2>1
    <2>. QED BY <2>1, <2>2, <2>5, <2>6, <2>7, DestroyStep
  <1>. QED BY <1>1, <1>2, <1>3

\* The invariant survives every step.
LEMMA NextIInv == ASSUME IInv, [Next]_vars PROVE IInv'
  <1>1. CASE UNCHANGED vars
    BY <1>1 DEF vars, IInv, Scans, Sessions, Holders, Idle, Slot
  <1>2. ASSUME NEW c \in Claims,
               \/ Dial(c) \/ Unreachable(c) \/ Flock(c) \/ HearBusy(c) \/ HearHeld(c)
               \/ GiveUp(c) \/ Wake(c) \/ Cut(c) \/ DeadMan(c) \/ MaxHold(c)
               \/ HoldDies(c) \/ HoldExit(c) \/ SessionDrops(c) \/ Accept(c)
               \/ Work(c) \/ LaneDrops(c) \/ HearLost(c) \/ CancelPlatform(c)
        PROVE  IInv'
    <2>1. Slot(c) \in Slots
      BY ClaimsStand DEF IInv
    <2>. QED BY <1>2, <2>1, ScanSteps, BoxSteps, WorldSteps, HandleSteps
  <1>3. ASSUME NEW s \in Slots,
               OrphanEnds(s) \/ \E c \in Claims : LateFlock(c, s)
        PROVE  IInv'
    <2>1. CASE OrphanEnds(s)
      BY <1>3, <2>1, OrphanStep
    <2>. QED BY <1>3, <2>1, WorldSteps
  <1>4. ASSUME NEW r \in Runs, FailClosed(r) \/ Shutdown(r) \/ End(r)
        PROVE  IInv'
    BY <1>4, RunSteps
  <1>5. CASE Next
    BY <1>1, <1>2, <1>3, <1>4, <1>5 DEF Next
  <1>. QED BY <1>1, <1>5

-----------------------------------------------------------------------------
(* What a run knows of itself, which the rest of the pool has no part in.  *)

RunsTyped ==
    /\ noWait \in [Runs -> BOOLEAN]
    /\ lives \in [Claims -> 0..MaxLives]
    /\ done \in [Claims -> BOOLEAN]
    /\ off \in [Claims -> BOOLEAN]
    /\ stopping \in [Runs -> BOOLEAN]
    /\ ended \in [Runs -> BOOLEAN]
    /\ faults \in 0..MaxFaults

LEMMA RunsStayTyped == RunsTyped /\ [Next]_vars => RunsTyped'
  <1>. SUFFICES ASSUME RunsTyped, [Next]_vars PROVE RunsTyped'
    OBVIOUS
  <1>. USE BoundsAssumption
  <1>0. Fault => faults' \in 0..MaxFaults
    BY DEF Fault, RunsTyped
  <1>1. ASSUME UNCHANGED run, UNCHANGED plat, faults' = faults \/ Fault PROVE RunsTyped'
    BY <1>0, <1>1 DEF RunsTyped, run, plat
  <1>2. ASSUME NEW c \in Claims, LaneDied(c), faults' = faults \/ Fault PROVE RunsTyped'
    <2>1. lives' \in [Claims -> 0..MaxLives]
      BY <1>2 DEF LaneDied, RunsTyped
    <2>2. off' \in [Claims -> BOOLEAN]
      BY <1>2 DEF LaneDied, RunsTyped
    <2>. QED BY <1>0, <1>2, <2>1, <2>2 DEF LaneDied, RunsTyped, run
  <1>3. ASSUME NEW c \in Claims,
               \/ Dial(c) \/ Unreachable(c) \/ Flock(c) \/ HearBusy(c) \/ HearHeld(c)
               \/ GiveUp(c) \/ Wake(c) \/ Cut(c) \/ DeadMan(c) \/ MaxHold(c)
               \/ HoldDies(c) \/ HoldExit(c) \/ SessionDrops(c) \/ Accept(c)
               \/ \E s \in Slots : LateFlock(c, s)
        PROVE  RunsTyped'
    BY <1>1, <1>3 DEF Dial, Unreachable, Flock, HearBusy, HearHeld, GiveUp, Wake, Cut,
       DeadMan, MaxHold, SelfRelease, HoldDies, HoldExit, SessionDrops, Accept, LateFlock
  <1>4. ASSUME NEW s \in Slots, OrphanEnds(s) PROVE RunsTyped'
    BY <1>1, <1>4 DEF OrphanEnds
  <1>5. ASSUME NEW c \in Claims, Work(c) \/ CancelPlatform(c) PROVE RunsTyped'
    BY <1>0, <1>5 DEF Work, CancelPlatform, RunsTyped, run
  <1>6. ASSUME NEW c \in Claims, LaneDrops(c) PROVE RunsTyped'
    BY <1>2, <1>6 DEF LaneDrops
  <1>7. ASSUME NEW c \in Claims, HearLost(c) PROVE RunsTyped'
    <2>1. CASE c[2] \in Sharded
      BY <1>7, <2>1 DEF HearLost, RunsTyped, plat
    <2>2. CASE c[2] \notin Sharded
      BY <1>2, <1>7, <2>2 DEF HearLost
    <2>. QED BY <2>1, <2>2
  <1>8. ASSUME NEW r \in Runs, FailClosed(r) PROVE RunsTyped'
    <2>1. off' \in [Claims -> BOOLEAN]
      BY <1>8 DEF FailClosed, RunsTyped
    <2>. QED BY <1>8, <2>1 DEF FailClosed, RunsTyped, run
  <1>9. ASSUME NEW r \in Runs, Shutdown(r) PROVE RunsTyped'
    BY <1>0, <1>9 DEF Shutdown, RunsTyped, plat
  <1>10. ASSUME NEW r \in Runs, End(r) PROVE RunsTyped'
    <2>1. lives' \in [Claims -> 0..MaxLives]
      BY <1>10 DEF End, Forget, RunsTyped
    <2>2. done' \in [Claims -> BOOLEAN] /\ off' \in [Claims -> BOOLEAN]
      BY <1>10 DEF End, Forget, RunsTyped
    <2>. QED BY <1>10, <2>1, <2>2 DEF End, Forget, RunsTyped
  <1>11. CASE UNCHANGED vars
    BY <1>11 DEF vars, RunsTyped
  <1>. QED BY <1>3, <1>4, <1>5, <1>6, <1>7, <1>8, <1>9, <1>10, <1>11 DEF Next

LEMMA RunsStart == Init => RunsTyped
  BY BoundsAssumption DEF Init, RunsTyped

-----------------------------------------------------------------------------

\* No lock is held by the agents of two claims, so no two sound holds are at
\* work on one slot.
LEMMA OneAgentEach == IInv => Exclusive
  <1>. SUFFICES ASSUME IInv, NEW c \in Claims, NEW d \in Claims, c # d,
                       Slot(c) = Slot(d), Sound(c), Sound(d)
                PROVE  FALSE
    BY DEF Exclusive
  <1>1. lock[Slot(c)] = <<c, "agent">> /\ lock[Slot(d)] = <<d, "agent">>
    BY DEF IInv, Holders, Sound
  <1>. QED BY <1>1

LEMMA PartsMakeInv == IInv /\ RunsTyped => Inv
  BY OneAgentEach DEF IInv, RunsTyped, Inv, TypeOK, Scans, Sessions, Where, Agent, Owner

\* Whatever sessions, boxes and runs do, an agent that says it holds a slot has
\* its lock: claimLocal, self-release and destroy() keep the two together.
THEOREM Holding == Spec => []IInv
  <1>1. Init => IInv
    BY InitIInv
  <1>2. IInv /\ [Next]_vars => IInv'
    BY NextIInv
  <1>. QED BY <1>1, <1>2, PTL DEF Spec

\* The pool is typed, and two runs never work on one slot while the hold of
\* each is sound: of claimVenue and claimLocal, for every pool and every run.
THEOREM ExclusiveVenues == Spec => []Inv
  <1>1. Init => IInv /\ RunsTyped
    BY InitIInv, RunsStart
  <1>2. IInv /\ RunsTyped /\ [Next]_vars => (IInv /\ RunsTyped)'
    BY NextIInv, RunsStayTyped
  <1>. QED BY <1>1, <1>2, PartsMakeInv, PTL DEF Spec
=============================================================================
