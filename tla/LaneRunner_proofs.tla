-------------------------- MODULE LaneRunner_proofs --------------------------
(***************************************************************************)
(* For every lane, whatever its tasks, what they need of one another, its  *)
(* resets and its strays: logs and verdicts are of a node's present        *)
(* attempt, the lane rests at tick's fixed point, what is green was served *)
(* and ran in the present workspace, no process survives, and a verdict is *)
(* final until a rerun.  What is heard of it is what LaneNode allows.      *)
(*                                                                         *)
(* What may be said of a node is said by Fits, of that node alone.  A      *)
(* handler puts another part that fits in the place of one node's          *)
(* (NodeMoves), and most then make a pass (NodeTicks), which starts or     *)
(* skips pending nodes and touches no others (TickKeeps).                  *)
(***************************************************************************)
EXTENDS LaneRunner, SequenceTheorems, TLAPS

\* The start that holds the node, its open logs, and a push that has not settled.
Last(ks) == ks[Len(ks)]
Unended(lg) == \A s \in Streams : ~lg[s].ended
Pushes(kid) == kid.pushing \in {"busy", "blind"}

\* What node n may be, given its status s, the phase p of its invocation, its
\* starts ks, its logs lg and the number r of its resets.
Fits(n, s, p, ks, lg, r) ==
    /\ Len(ks) <= r + 1
    /\ s \in {"absent", "pending"} => p = "none" /\ Len(ks) <= r
    /\ p = "none" => s \notin {"running", "ok", "failed"}
    /\ p # "none" => Len(ks) > 0 /\ Last(ks).attempt = r
    /\ p = "running" => /\ s = "running" /\ Last(ks).life = "alive"
                        /\ Last(ks).pushing = "no" /\ ~Last(ks).closeSeen
    /\ p = "settled" => /\ n # Setup
                        /\ \/ /\ s = "running" /\ Pushes(Last(ks))
                              /\ Last(ks).life = IF Last(ks).closeSeen THEN "closed" ELSE "exited"
                           \/ /\ s \in {"ok", "failed"} /\ ~Pushes(Last(ks))
                              /\ Last(ks).life = "exited"
    /\ p = "closed" => s \in {"ok", "failed"} /\ ~Pushes(Last(ks)) /\ Last(ks).life = "closed"
    /\ s \in {"absent", "pending", "running"} \/ p = "settled" => Unended(lg)
    /\ \A x \in Streams : lg[x].by \subseteq {r}

\* What is running or green ran in workspace t, which is on the disk.
Placed(st, ks, t, ws) ==
    /\ \A n \in Recipes : st[n] \in {"running", "ok"} =>
          st[Setup] = "ok" /\ Last(ks[n]).cwd = t
    /\ st[Setup] = "ok" => t \in ws

\* Every node of a lane fits, and what ran did so in the present workspace.
Sound(st, ph, ks, lg, rs, t, ws) ==
    /\ \A n \in Nodes : Fits(n, st[n], ph[n], ks[n], lg[n], rs[n])
    /\ Placed(st, ks, t, ws)

\* A green pusher's output is in the bucket or was not to be sent; a pusher that
\* has settled and still sends has it in the bucket or on its way.
Warm(st, ph, ks, bk) ==
    \A n \in Pushers :
        /\ st[n] = "ok" => n \in bk \/ Last(ks[n]).pushing = "skipped"
        /\ ph[n] = "settled" /\ Last(ks[n]).pushing = "busy" =>
              n \in bk \cup Last(ks[n]).sending

Phases == {"none", "running", "settled", "closed"}

\* The types of what a pass moves; only the setup node's child has no group.
Typed(st, ph, ks, lg) ==
    /\ st \in [Nodes -> Status]
    /\ ph \in [Nodes -> Phases]
    /\ ks \in [Nodes -> Seq(Kid)]
    /\ \A n \in Nodes : \A g \in DOMAIN ks[n] : ks[n][g].group = "none" <=> n = Setup
    /\ lg \in [Nodes -> [Streams -> Log]]

\* The types of what a pass leaves alone.
Aside ==
    /\ mode \in {"no", "provided", "fetched"}
    /\ disposed \in BOOLEAN
    /\ push \in [Nodes -> {"none", "pushing", "pushed", "failed"}]
    /\ tree \in Nat /\ cleanup \in Nat /\ trees \subseteq Nat
    /\ links \subseteq Recipes /\ sent \subseteq Recipes /\ bucket \subseteq Recipes
    /\ resets \in [Nodes -> 0 .. MaxReruns]
    /\ threw \in BOOLEAN

\* What is true of a lane that has not disposed of itself.
Live ==
    /\ Sound(status, phase, kids, logs, resets, tree, trees)
    /\ Warm(status, phase, kids, bucket)
    /\ sent \subseteq bucket
    /\ mode = "no" => \A n \in Nodes : status[n] = "absent"

\* What is true of a lane that has disposed of itself, too.
Kept ==
    /\ ~threw
    /\ StartedOncePerReset /\ LogOfThisAttempt
    /\ GreenMeansWarmed /\ AtRest /\ NoSurvivors

\* The inductive invariant.
IInv == TypeOK /\ (~disposed => Live) /\ Kept

-----------------------------------------------------------------------------
(* The recursions over the needs                                           *)

\* Both have a solution: the least set of nodes closed under their equation.
LEMMA LeastExists ==
    ASSUME NEW open \in SUBSET Nodes, NEW base \in SUBSET Nodes
    PROVE  \E f : f = [n \in Nodes |-> n \in open /\ \E d \in NeedsOf(n) : d \in base \/ f[d]]
  <1>. DEFINE Over(X) == {n \in open : \E d \in NeedsOf(n) : d \in base \/ d \in X}
              Least == {n \in open : \A X \in SUBSET open : Over(X) \subseteq X => n \in X}
  <1>1. \A n \in Nodes : NeedsOf(n) \subseteq Nodes
    BY NeedsAssumption DEF NeedsOf, Nodes
  <1>2. Over(Least) \subseteq Least
    <2>. SUFFICES ASSUME NEW n \in Over(Least), NEW X \in SUBSET open, Over(X) \subseteq X
                  PROVE  n \in X
      OBVIOUS
    <2>1. Least \subseteq X
      OBVIOUS
    <2>. HIDE DEF Least
    <2>2. n \in Over(X)
      BY <2>1
    <2>. QED BY <2>2
  <1>3. Least \subseteq Over(Least)
    <2>1. Over(Over(Least)) \subseteq Over(Least)
      <3>. HIDE DEF Least
      <3>. QED BY <1>2
    <2>2. Over(Least) \in SUBSET open
      OBVIOUS
    <2>. QED BY <2>1, <2>2
  <1>4. \A n \in Nodes : n \in Least <=> n \in open /\ 
             \E d \in NeedsOf(n) : d \in base \/ d \in Least
    <2>. HIDE DEF Least
    <2>. QED BY <1>2, <1>3
  <1>. HIDE DEF Least
  <1>. DEFINE f == [n \in Nodes |-> n \in Least]
              Sol(g, n) == n \in open /\ \E d \in NeedsOf(n) : d \in base \/ g[d]
  <1>5. ASSUME NEW n \in Nodes PROVE f[n] = Sol(f, n)
    <2>1. \A d \in NeedsOf(n) : f[d] = (d \in Least)
      BY <1>1
    <2>0. f[n] = (n \in Least) /\ (n \in Least) \in BOOLEAN
      OBVIOUS
    <2>. HIDE DEF f
    <2>2. f[n] \in BOOLEAN /\ (f[n] <=> n \in Least)
      BY <2>0
    <2>3. (n \in open /\ \E d \in NeedsOf(n) : d \in base \/ d \in Least) <=> Sol(f, n)
      BY <2>1
    <2>4. Sol(f, n) \in BOOLEAN
      OBVIOUS
    <2>5. f[n] <=> Sol(f, n)
      BY <1>4, <2>2, <2>3
    <2>. HIDE DEF Sol
    <2>. QED BY <2>2, <2>4, <2>5
  <1>. HIDE DEF Sol
  <1>6. f = [n \in Nodes |-> Sol(f, n)]
    BY <1>5
  <1>. QED BY <1>6 DEF Sol

\* What is blocked is pending and needs what has failed or is blocked itself.
LEMMA BlockedIs ==
    ASSUME NEW st \in [Nodes -> Status]
    PROVE  /\ Blocked(st) \subseteq Nodes
           /\ \A n \in Nodes : n \in Blocked(st) <=>
                 st[n] = "pending" /\ \E d \in NeedsOf(n) : st[d] \in Failed \/ d \in Blocked(st)
  <1>. DEFINE open == {n \in Nodes : st[n] = "pending"}
              base == {n \in Nodes : st[n] \in Failed}
              blocked == CHOOSE f : f = [n \in Nodes |-> st[n] = "pending" /\ \E d \in NeedsOf(n) :
                                                              st[d] \in Failed \/ f[d]]
  <1>1. \A n \in Nodes : NeedsOf(n) \subseteq Nodes
    BY NeedsAssumption DEF NeedsOf, Nodes
  <1>2. \E f : f = [n \in Nodes |-> st[n] = "pending" /\ \E d \in NeedsOf(n) : st[d] \in Failed \/ f[d]]
    <2>1. PICK f : f = [n \in Nodes |-> n \in open /\ \E d \in NeedsOf(n) : d \in base \/ f[d]]
      <3>. HIDE DEF open, base
      <3>1. open \in SUBSET Nodes /\ base \in SUBSET Nodes
        BY DEF open, base
      <3>. QED BY <3>1, LeastExists
    <2>2. \A n \in Nodes : (n \in open /\ \E d \in NeedsOf(n) : d \in base \/ f[d])
                           = (st[n] = "pending" /\ \E d \in NeedsOf(n) : st[d] \in Failed \/ f[d])
      BY <1>1
    <2>. QED BY SMTT(60), <2>1, <2>2
  <1>3. blocked = [n \in Nodes |-> st[n] = "pending" /\ \E d \in NeedsOf(n) :
                                                  st[d] \in Failed \/ blocked[d]]
    BY <1>2
  <1>4. Blocked(st) = {n \in Nodes : blocked[n]}
    BY DEF Blocked
  <1>. HIDE DEF blocked
  <1>5. \A n \in Nodes : blocked[n] = (st[n] = "pending" /\ \E d \in NeedsOf(n) :
                                                  st[d] \in Failed \/ blocked[d])
    BY <1>3
  <1>. QED BY <1>1, <1>4, <1>5

\* What depends on a node is in the lane and is not the setup node; everything
\* in the lane depends on the setup node.
LEMMA DependentsAre ==
    ASSUME NEW n \in Nodes
    PROVE  /\ Dependents(n) \subseteq {m \in Nodes : status[m] # "absent"} \ {Setup}
           /\ n = Setup => \A r \in Recipes : status[r] # "absent" => r \in Dependents(n)
  <1>. DEFINE above == CHOOSE f : f = [m \in Nodes |-> \E d \in NeedsOf(m) : d = n \/ f[d]]
  <1>1. \E f : f = [m \in Nodes |-> \E d \in NeedsOf(m) : d = n \/ f[d]]
    <2>1. PICK f : f = [m \in Nodes |-> m \in Nodes /\ \E d \in NeedsOf(m) : d \in {n} \/ f[d]]
      <3>1. Nodes \in SUBSET Nodes /\ {n} \in SUBSET Nodes
        OBVIOUS
      <3>. QED BY <3>1, LeastExists
    <2>2. \A m \in Nodes : (m \in Nodes /\ \E d \in NeedsOf(m) : d \in {n} \/ f[d])
                           = (\E d \in NeedsOf(m) : d = n \/ f[d])
      OBVIOUS
    <2>3. f = [m \in Nodes |-> \E d \in NeedsOf(m) : d = n \/ f[d]]
      BY <2>1, <2>2, Zenon
    <2>. QED BY <2>3
  <1>2. above = [m \in Nodes |-> \E d \in NeedsOf(m) : d = n \/ above[d]]
    BY <1>1
  <1>3. Dependents(n) = {m \in Nodes : status[m] # "absent" /\ above[m]}
    BY DEF Dependents
  <1>. HIDE DEF above
  <1>4. \A m \in Nodes : above[m] = \E d \in NeedsOf(m) : d = n \/ above[d]
    BY <1>2
  <1>5. NeedsOf(Setup) = {} /\ Setup \in Nodes /\ Recipes \subseteq Nodes
    BY DEF NeedsOf, Nodes
  <1>6. \A r \in Recipes : Setup \in NeedsOf(r)
    BY NodeAssumption DEF NeedsOf
  <1>7. ~above[Setup]
    BY <1>4, <1>5
  <1>. QED BY <1>3, <1>4, <1>5, <1>6, <1>7

-----------------------------------------------------------------------------
(* The scheduling pass                                                     *)

\* After the pass nothing in the lane is blocked and nothing is runnable.
LEMMA TickRests ==
    ASSUME NEW st \in [Nodes -> Status], NEW ph, NEW ks, NEW lg, NEW was, NEW worktrees,
           TickIn(st, ph, ks, lg, was, worktrees)
    PROVE  Blocked(status') = {} /\ Runnable(status') = {}
  <1>. PICK verdict \in IF st[Setup] # "pending" THEN {st[Setup]}
                   ELSE IF mode' = "provided" THEN {"ok", "failed"} ELSE {"running"} :
         status' = [n \in Nodes |-> IF n \in Blocked([st EXCEPT ![Setup] = verdict]) THEN "skipped"
                                     ELSE IF n \in Runnable([st EXCEPT ![Setup] = verdict]) THEN "running"
                                     ELSE [st EXCEPT ![Setup] = verdict][n]]
    BY ZenonT(90) DEF TickIn
  <1>. DEFINE st1 == [st EXCEPT ![Setup] = verdict]
  <1>1. st1 \in [Nodes -> Status] /\ st1[Setup] # "pending" /\ Setup \in Nodes
    BY DEF Nodes, Status, Terminal, Failed
  <1>. HIDE DEF st1
  <1>2. \A n \in Nodes : status'[n] = IF n \in Blocked(st1) THEN "skipped"
                                      ELSE IF n \in Runnable(st1) THEN "running" ELSE st1[n]
    BY DEF st1
  <1>3. status' \in [Nodes -> Status]
    BY <1>1 DEF Status, Terminal, Failed, st1
  <1>4. \A n \in Nodes : NeedsOf(n) \subseteq Nodes
    BY NeedsAssumption DEF NeedsOf, Nodes
  <1>5. Runnable(status') = {}
    BY <1>1, <1>2, <1>4 DEF Runnable
  <1>. DEFINE B == Blocked(status')
  <1>6. B \subseteq Nodes /\ \A n \in Nodes : n \in B <=>
           status'[n] = "pending" /\ \E d \in NeedsOf(n) : status'[d] \in Failed \/ d \in B
    BY <1>3, BlockedIs
  <1>. HIDE DEF B
  <1>7. B \subseteq Recipes
    BY <1>1, <1>2, <1>6 DEF Nodes
  <1>8. ASSUME NEW r \in B, Needs[r] \cap B = {} PROVE FALSE
    <2>1. PICK d \in NeedsOf(r) : status'[d] \in Failed
      BY <1>6, <1>7, <1>8, NodeAssumption DEF NeedsOf
    <2>2. st1[d] \in Failed \/ d \in Blocked(st1)
      BY <1>2, <1>4, <1>6, <2>1 DEF Failed
    <2>3. r \in Nodes /\ status'[r] = "pending"
      BY <1>6
    <2>4. st1[r] = "pending" /\ r \notin Blocked(st1)
      BY <1>2, <2>3
    <2>. QED BY <1>1, <2>1, <2>2, <2>3, <2>4, BlockedIs
  <1>9. B = {}
    BY <1>7, <1>8, AcyclicAssumption
  <1>. QED BY <1>5, <1>9 DEF B

\* One more start.
LEMMA AppendKid ==
    ASSUME NEW q \in Seq(Kid), NEW k \in Kid
    PROVE  /\ Append(q, k) \in Seq(Kid)
           /\ Len(Append(q, k)) = Len(q) + 1
           /\ Last(Append(q, k)) = k
           /\ DOMAIN Append(q, k) = 1 .. Len(q) + 1
           /\ \A g \in DOMAIN q : Append(q, k)[g] = q[g]
           /\ Append(q, k)[Len(q) + 1] = k
           /\ DOMAIN q = 1 .. Len(q) /\ Len(q) \in Nat
  BY DEF Last

\* The logs after attempt r has written to stream s of n.
Said(after, lg, n, s, r) ==
    /\ after \in [Nodes -> [Streams -> Log]]
    /\ \A m \in Nodes, x \in Streams :
          /\ after[m][x].ended = lg[m][x].ended
          /\ after[m][x].by = IF m = n /\ x = s THEN lg[m][x].by \cup {r} ELSE lg[m][x].by

\* Wrote is that.
LEMMA Writes ==
    ASSUME NEW lg \in [Nodes -> [Streams -> Log]], NEW n \in Nodes, NEW s \in Streams,
           NEW r \in 0 .. MaxReruns
    PROVE  Said(Wrote(lg, n, s, r), lg, n, s, r)
  <1>1. lg[n][s] \in Log
    OBVIOUS
  <1>2. [lg[n][s] EXCEPT !.by = @ \cup {r}] \in Log
    BY <1>1 DEF Log
  <1>3. /\ [lg[n][s] EXCEPT !.by = @ \cup {r}].ended = lg[n][s].ended
        /\ [lg[n][s] EXCEPT !.by = @ \cup {r}].by = lg[n][s].by \cup {r}
    BY <1>1 DEF Log
  <1>. DEFINE line == [lg[n][s] EXCEPT !.by = @ \cup {r}]
  <1>4. Wrote(lg, n, s, r) = [lg EXCEPT ![n][s] = line]
    BY <1>1 DEF Wrote, Log
  <1>5. line \in Log /\ line.ended = lg[n][s].ended /\ line.by = lg[n][s].by \cup {r}
    BY <1>2, <1>3
  <1>. HIDE DEF line
  <1>6. [lg EXCEPT ![n][s] = line] \in [Nodes -> [Streams -> Log]]
    BY <1>5
  <1>7. \A m \in Nodes, x \in Streams :
           [lg EXCEPT ![n][s] = line][m][x] = IF m = n /\ x = s THEN line ELSE lg[m][x]
    BY <1>5
  <1>8. \A m \in Nodes, x \in Streams :
           Wrote(lg, n, s, r)[m][x] = IF m = n /\ x = s THEN line ELSE lg[m][x]
    BY <1>4, <1>7
  <1>9. Wrote(lg, n, s, r) \in [Nodes -> [Streams -> Log]]
    BY <1>4, <1>6
  <1>10. ASSUME NEW m \in Nodes, NEW x \in Streams
         PROVE  /\ Wrote(lg, n, s, r)[m][x].ended = lg[m][x].ended
                /\ Wrote(lg, n, s, r)[m][x].by =
                      IF m = n /\ x = s THEN lg[m][x].by \cup {r} ELSE lg[m][x].by
    <2>1. CASE m = n /\ x = s
      BY <1>5, <1>8, <2>1
    <2>2. CASE ~(m = n /\ x = s)
      BY <1>8, <2>2
    <2>. QED BY <2>1, <2>2
  <1>. QED BY <1>9, <1>10 DEF Said

\* The logs of the nodes of S have ended; no words are added to any.
LEMMA Ends ==
    ASSUME NEW lg \in [Nodes -> [Streams -> Log]], NEW S
    PROVE  /\ Ended(lg, S) \in [Nodes -> [Streams -> Log]]
           /\ \A m \in Nodes, x \in Streams :
                 /\ Ended(lg, S)[m][x].ended <=> (m \in S \/ lg[m][x].ended)
                 /\ Ended(lg, S)[m][x].by = lg[m][x].by
  <1>1. ASSUME NEW m \in Nodes, NEW x \in Streams
        PROVE  /\ [lg[m][x] EXCEPT !.ended = TRUE] \in Log
               /\ [lg[m][x] EXCEPT !.ended = TRUE].ended
               /\ [lg[m][x] EXCEPT !.ended = TRUE].by = lg[m][x].by
               /\ lg[m][x].ended \in BOOLEAN
    <2>1. lg[m][x] \in Log
      OBVIOUS
    <2>. QED BY <2>1 DEF Log
  <1>2. ASSUME NEW m \in Nodes
        PROVE  /\ Ended(lg, S)[m] \in [Streams -> Log]
               /\ \A x \in Streams : /\ Ended(lg, S)[m][x].ended <=> (m \in S \/ lg[m][x].ended)
                                     /\ Ended(lg, S)[m][x].by = lg[m][x].by
    <2>1. CASE m \in S
      <3>1. Ended(lg, S)[m] = [x \in Streams |-> [lg[m][x] EXCEPT !.ended = TRUE]]
        BY <2>1 DEF Ended
      <3>. DEFINE end(x) == [lg[m][x] EXCEPT !.ended = TRUE]
      <3>2. \A x \in Streams : /\ end(x) \in Log /\ end(x).ended /\ end(x).by = lg[m][x].by
                               /\ end(x).ended \in BOOLEAN /\ lg[m][x].ended \in BOOLEAN
        BY <1>1 DEF Log
      <3>3. Ended(lg, S)[m] = [x \in Streams |-> end(x)]
        BY <3>1
      <3>. HIDE DEF end
      <3>. QED BY <2>1, <3>2, <3>3
    <2>2. CASE m \notin S
      <3>1. Ended(lg, S)[m] = lg[m]
        BY <2>2 DEF Ended
      <3>. QED BY <1>1, <2>2, <3>1
    <2>. QED BY <2>1, <2>2
  <1>. QED BY <1>2 DEF Ended

\* A start begins alive, with the present attempt and nothing pushed.
LEMMA Begins ==
    ASSUME NEW n \in Nodes, NEW t \in Nat, resets' \in [Nodes -> 0 .. MaxReruns]
    PROVE  /\ NewKid(n, t) \in Kid /\ NewKid(n, t).attempt = resets'[n]
           /\ NewKid(n, t).group = (IF n = Setup THEN "none" ELSE "tracked")
           /\ NewKid(n, t).life = "alive" /\ NewKid(n, t).cwd = t
           /\ NewKid(n, t).pushing = "no" /\ ~NewKid(n, t).closeSeen
  <1>1. resets'[n] \in Nat
    BY NodeAssumption
  <1>. QED BY <1>1 DEF NewKid, Kid

\* The pass over a sound lane leaves a sound lane, and touches pending nodes only.
LEMMA TickKeeps ==
    ASSUME NEW st, NEW ph, NEW ks, NEW lg, NEW was \in Nat, NEW worktrees \in SUBSET Nat,
           Typed(st, ph, ks, lg), Sound(st, ph, ks, lg, resets', was, worktrees),
           resets' \in [Nodes -> 0 .. MaxReruns],
           TickIn(st, ph, ks, lg, was, worktrees)
    PROVE  /\ Typed(status', phase', kids', logs')
           /\ Sound(status', phase', kids', logs', resets', tree', trees')
           /\ tree' \in Nat /\ trees' \in SUBSET Nat
           /\ \A n \in Nodes : st[n] # "pending" =>
                 status'[n] = st[n] /\ phase'[n] = ph[n] /\ kids'[n] = ks[n]
           /\ \A n \in Recipes : st[n] = "pending" => status'[n] # "ok" /\ phase'[n] # "settled"
  <1>pass. PICK verdict \in IF st[Setup] # "pending" THEN {st[Setup]}
                        ELSE IF mode' = "provided" THEN {"ok", "failed"} ELSE {"running"} :
        LET begun == st[Setup] = "pending"
            nested == begun /\ verdict # "running"
            st1 == [st EXCEPT ![Setup] = verdict]
            skipped == Blocked(st1)
            started == Runnable(st1)
            t == IF nested /\ verdict = "ok" THEN 1 ELSE was
            ph1 == [n \in Nodes |-> IF n \in started THEN "running" ELSE ph[n]]
            twice == IF nested THEN StartedAgain(started, ph1) ELSE {}
            kid(n) == NewKid(n, t)
        IN /\ status' = [n \in Nodes |-> IF n \in skipped THEN "skipped"
                                         ELSE IF n \in started THEN "running" ELSE st1[n]]
           /\ phase' = [ph1 EXCEPT ![Setup] = IF nested THEN "closed"
                                              ELSE IF begun THEN "running" ELSE @]
           /\ kids' = [n \in Nodes |->
                          IF n = Setup
                          THEN IF begun
                               THEN Append(ks[n], [kid(n) EXCEPT !.life =
                                                      IF nested THEN "closed" ELSE "alive"])
                               ELSE ks[n]
                          ELSE IF n \in twice THEN ks[n] \o <<Reaped(kid(n)), kid(n)>>
                          ELSE IF n \in started THEN Append(ks[n], kid(n)) ELSE ks[n]]
           /\ logs' = Ended(IF begun THEN Wrote(lg, Setup, "recipe", resets'[Setup]) ELSE lg,
                            skipped \cup (IF nested THEN {Setup} ELSE {}))
           /\ tree' = t
           /\ trees' = IF nested /\ verdict = "ok" THEN worktrees \cup {t} ELSE worktrees
    BY DEF TickIn
  <1>. DEFINE begun == st[Setup] = "pending"
              nested == begun /\ verdict # "running"
              st1 == [st EXCEPT ![Setup] = verdict]
              skipped == Blocked(st1)
              started == Runnable(st1)
              t == IF nested /\ verdict = "ok" THEN 1 ELSE was
              setupKid == [NewKid(Setup, t) EXCEPT !.life = IF nested THEN "closed" ELSE "alive"]
              opened == IF begun THEN Wrote(lg, Setup, "recipe", resets'[Setup]) ELSE lg
  <1>0. /\ Setup \in Nodes /\ Setup \notin Recipes /\ Nodes = Recipes \cup {Setup}
        /\ st \in [Nodes -> Status] /\ ks \in [Nodes -> Seq(Kid)]
        /\ ph \in [Nodes -> Phases]
        /\ lg \in [Nodes -> [Streams -> Log]]
    BY NodeAssumption DEF Nodes, Typed
  <1>1. /\ verdict \in Status /\ st1 \in [Nodes -> Status]
        /\ begun => verdict \in {"ok", "failed", "running"}
        /\ ~begun => verdict = st[Setup]
        /\ st1[Setup] = verdict /\ verdict # "pending"
        /\ \A n \in Recipes : st1[n] = st[n]
    BY <1>pass, <1>0 DEF Status, Terminal, Failed
  <1>2. /\ t \in Nat /\ tree' = t
        /\ trees' = IF nested /\ verdict = "ok" THEN worktrees \cup {t} ELSE worktrees
    BY <1>pass
  <1>. HIDE DEF st1
  <1>3. skipped \subseteq Recipes /\ \A n \in skipped : st[n] = "pending"
    <2>1. Blocked(st1) \subseteq Nodes /\ \A n \in Nodes : n \in Blocked(st1) => st1[n] = "pending"
      BY <1>1, BlockedIs
    <2>. QED BY <1>0, <1>1, <2>1
  <1>4. started \subseteq Recipes /\ \A n \in started : st[n] = "pending" /\ verdict = "ok"
    BY <1>0, <1>1 DEF Runnable, NeedsOf
  <1>5. StartedAgain(started, [n \in Nodes |-> IF n \in started THEN "running" ELSE ph[n]]) = {}
    BY <1>0, <1>4 DEF StartedAgain
  <1>6. \A n \in Recipes :
           /\ status'[n] = IF n \in skipped THEN "skipped"
                           ELSE IF n \in started THEN "running" ELSE st[n]
           /\ phase'[n] = IF n \in started THEN "running" ELSE ph[n]
           /\ kids'[n] = IF n \in started THEN Append(ks[n], NewKid(n, t)) ELSE ks[n]
    <2>1. \A n \in Recipes : n \in Nodes /\ n # Setup
      BY <1>0
    <2>2. status' = [n \in Nodes |-> IF n \in skipped THEN "skipped"
                                     ELSE IF n \in started THEN "running" ELSE st1[n]]
      BY <1>pass DEF st1
    <2>3. phase' = [[n \in Nodes |-> IF n \in started THEN "running" ELSE ph[n]]
                       EXCEPT ![Setup] = IF nested THEN "closed" ELSE IF begun THEN "running" ELSE @]
      BY <1>pass DEF st1
    <2>4. kids' = [n \in Nodes |-> IF n = Setup THEN IF begun THEN Append(ks[n], setupKid) ELSE ks[n]
                                   ELSE IF n \in started THEN Append(ks[n], NewKid(n, t)) ELSE ks[n]]
      BY <1>pass, <1>5 DEF st1
    <2>. QED BY <1>1, <2>1, <2>2, <2>3, <2>4
  <1>7. /\ status'[Setup] = verdict
        /\ phase'[Setup] = IF nested THEN "closed" ELSE IF begun THEN "running" ELSE ph[Setup]
        /\ kids'[Setup] = IF begun THEN Append(ks[Setup], setupKid) ELSE ks[Setup]
        /\ DOMAIN status' = Nodes /\ DOMAIN phase' = Nodes /\ DOMAIN kids' = Nodes
        /\ status' = [n \in Nodes |-> status'[n]]
        /\ phase' = [n \in Nodes |-> phase'[n]]
        /\ kids' = [n \in Nodes |-> kids'[n]]
    <2>1. status' = [n \in Nodes |-> IF n \in skipped THEN "skipped"
                                     ELSE IF n \in started THEN "running" ELSE st1[n]]
      BY <1>pass DEF st1
    <2>2. phase' = [[n \in Nodes |-> IF n \in started THEN "running" ELSE ph[n]]
                       EXCEPT ![Setup] = IF nested THEN "closed" ELSE IF begun THEN "running" ELSE @]
      BY <1>pass DEF st1
    <2>3. kids' = [n \in Nodes |-> IF n = Setup THEN IF begun THEN Append(ks[n], setupKid) ELSE ks[n]
                                   ELSE IF n \in started THEN Append(ks[n], NewKid(n, t)) ELSE ks[n]]
      BY <1>pass, <1>5 DEF st1
    <2>4. Setup \notin skipped /\ Setup \notin started
      BY <1>0, <1>3, <1>4
    <2>. HIDE DEF skipped, started, setupKid, t
    <2>. QED BY <1>0, <1>1, <2>1, <2>2, <2>3, <2>4
  <1>8. /\ opened \in [Nodes -> [Streams -> Log]]
        /\ \A n \in Recipes : opened[n] = lg[n]
        /\ ~begun => opened[Setup] = lg[Setup]
        /\ begun /\ lg[Setup]["recipe"].by \subseteq {resets'[Setup]} =>
              /\ opened[Setup]["recipe"].by \subseteq {resets'[Setup]}
              /\ opened[Setup]["push"] = lg[Setup]["push"]
              /\ \A x \in Streams : opened[Setup][x].ended = lg[Setup][x].ended
    <2>1. "recipe" \in Streams /\ "push" \in Streams /\ resets'[Setup] \in 0 .. MaxReruns
      BY <1>0 DEF Streams
    <2>. QED BY SMTT(60), <1>0, <2>1 DEF Wrote, Log, Streams
  <1>9. /\ logs' \in [Nodes -> [Streams -> Log]]
        /\ \A n \in Nodes, x \in Streams :
              /\ logs'[n][x].by = opened[n][x].by
              /\ logs'[n][x].ended <=> (opened[n][x].ended \/ n \in skipped \/ (nested /\ n = Setup))
    <2>1. logs' = Ended(opened, skipped \cup (IF nested THEN {Setup} ELSE {}))
      BY <1>pass DEF st1
    <2>. HIDE DEF opened, skipped, nested
    <2>. DEFINE S == skipped \cup (IF nested THEN {Setup} ELSE {})
    <2>2. \A n \in Nodes : n \in S <=> n \in skipped \/ (nested /\ n = Setup)
      OBVIOUS
    <2>3. logs' = Ended(opened, S)
      BY <2>1
    <2>. HIDE DEF S
    <2>4. /\ Ended(opened, S) \in [Nodes -> [Streams -> Log]]
          /\ \A m \in Nodes, x \in Streams :
                /\ Ended(opened, S)[m][x].ended <=> (m \in S \/ opened[m][x].ended)
                /\ Ended(opened, S)[m][x].by = opened[m][x].by
      BY <1>8, Ends
    <2>. QED BY <2>2, <2>3, <2>4
  <1>. HIDE DEF opened, skipped, started
  <1>10. /\ setupKid \in Kid /\ setupKid.attempt = resets'[Setup] /\ setupKid.group = "none"
         /\ setupKid.pushing = "no" /\ ~setupKid.closeSeen
         /\ setupKid.life = IF nested THEN "closed" ELSE "alive"
         /\ \A n \in Recipes :
               /\ NewKid(n, t) \in Kid /\ NewKid(n, t).attempt = resets'[n]
               /\ NewKid(n, t).group = "tracked" /\ NewKid(n, t).life = "alive"
               /\ NewKid(n, t).pushing = "no" /\ ~NewKid(n, t).closeSeen
               /\ NewKid(n, t).cwd = t
    <2>. HIDE DEF t, nested
    <2>1. NewKid(Setup, t) \in Kid
      BY <1>0, <1>2, Begins
    <2>2. setupKid \in Kid
      BY <2>1 DEF Kid
    <2>3. /\ setupKid.attempt = NewKid(Setup, t).attempt /\ setupKid.group = NewKid(Setup, t).group
          /\ setupKid.pushing = NewKid(Setup, t).pushing
          /\ setupKid.closeSeen = NewKid(Setup, t).closeSeen
          /\ setupKid.life = IF nested THEN "closed" ELSE "alive"
      BY <2>1 DEF Kid
    <2>. HIDE DEF setupKid
    <2>. QED BY <1>0, <1>2, <2>2, <2>3, Begins
  <1>. HIDE DEF setupKid, t
  <1>11. Typed(status', phase', kids', logs')
    <2>1. status' \in [Nodes -> Status]
      BY <1>0, <1>1, <1>6, <1>7 DEF Status, Terminal, Failed
    <2>2. phase' \in [Nodes -> Phases]
      BY <1>0, <1>6, <1>7 DEF Phases
    <2>3. \A n \in Nodes : kids'[n] \in Seq(Kid)
      <3>1. \A n \in Nodes : ks[n] \in Seq(Kid)
        BY <1>0
      <3>2. kids'[Setup] \in Seq(Kid)
        BY <1>0, <1>7, <1>10, <3>1, AppendKid
      <3>3. \A n \in Recipes : kids'[n] \in Seq(Kid)
        <4>. SUFFICES ASSUME NEW n \in Recipes PROVE kids'[n] \in Seq(Kid)
          OBVIOUS
        <4>1. ks[n] \in Seq(Kid) /\ NewKid(n, t) \in Kid
          BY <1>0, <1>10, <3>1
        <4>2. Append(ks[n], NewKid(n, t)) \in Seq(Kid)
          BY <4>1, AppendKid
        <4>. QED BY <1>6, <4>1, <4>2
      <3>. QED BY <1>0, <3>2, <3>3
    <2>4. ASSUME NEW n \in Nodes, NEW g \in DOMAIN kids'[n]
          PROVE  kids'[n][g].group = "none" <=> n = Setup
      <3>1. ks[n] \in Seq(Kid) /\ \A h \in DOMAIN ks[n] : ks[n][h].group = "none" <=> n = Setup
        BY <1>0 DEF Typed
      <3>2. CASE kids'[n] = ks[n]
        BY <3>1, <3>2
      <3>3. ASSUME NEW k \in Kid, kids'[n] = Append(ks[n], k), k.group = "none" <=> n = Setup
            PROVE  kids'[n][g].group = "none" <=> n = Setup
        BY <3>1, <3>3, AppendKid
      <3>4. CASE n = Setup
        BY <1>7, <1>10, <3>2, <3>3, <3>4
      <3>5. CASE n # Setup
        BY <1>0, <1>6, <1>10, <3>2, <3>3, <3>5
      <3>. QED BY <3>4, <3>5
    <2>. QED BY <1>7, <1>9, <2>1, <2>2, <2>3, <2>4 DEF Typed
  <1>12. ASSUME NEW n \in Recipes PROVE Fits(n, status'[n], phase'[n], kids'[n], logs'[n], resets'[n])
    <2>0. Fits(n, st[n], ph[n], ks[n], lg[n], resets'[n]) /\ n \in Nodes /\ n # Setup
      BY <1>0 DEF Sound
    <2>1. \A x \in Streams : logs'[n][x].by = lg[n][x].by
                             /\ (logs'[n][x].ended <=> (lg[n][x].ended \/ n \in skipped))
      BY <1>8, <1>9, <2>0
    <2>2. ks[n] \in Seq(Kid) /\ resets'[n] \in Nat /\ Len(ks[n]) \in Nat
      BY <1>0, <2>0
    <2>3. CASE n \in skipped
      <3>1. n \notin started
        BY <1>0, <1>1, <1>3, <1>4, <2>3, BlockedIs DEF Runnable, skipped, started, Failed
      <3>. QED BY <1>3, <1>6, <2>0, <2>1, <2>2, <2>3, <3>1 DEF Fits, Unended
    <2>4. CASE n \notin skipped /\ n \in started
      <3>1. /\ st[n] = "pending" /\ status'[n] = "running" /\ phase'[n] = "running"
            /\ kids'[n] = Append(ks[n], NewKid(n, t))
        BY <1>4, <1>6, <2>4
      <3>2. /\ Len(ks[n]) <= resets'[n]
            /\ \A x \in Streams : lg[n][x].by \subseteq {resets'[n]} /\ ~lg[n][x].ended
        BY <2>0, <3>1 DEF Fits, Unended
      <3>3. Len(kids'[n]) = Len(ks[n]) + 1 /\ Last(kids'[n]) = NewKid(n, t)
        BY <1>10, <2>2, <3>1, AppendKid
      <3>4. \A x \in Streams : logs'[n][x].by \subseteq {resets'[n]} /\ ~logs'[n][x].ended
        BY <2>1, <2>4, <3>2
      <3>. QED BY <1>10, <2>0, <2>2, <3>1, <3>2, <3>3, <3>4 DEF Fits, Unended
    <2>5. CASE n \notin skipped /\ n \notin started
      BY <1>6, <2>0, <2>1, <2>5 DEF Fits, Unended
    <2>. QED BY <2>3, <2>4, <2>5
  <1>13. Fits(Setup, status'[Setup], phase'[Setup], kids'[Setup], logs'[Setup], resets'[Setup])
    <2>0. Fits(Setup, st[Setup], ph[Setup], ks[Setup], lg[Setup], resets'[Setup])
      BY <1>0 DEF Sound
    <2>1. Setup \notin skipped
      BY <1>0, <1>3
    <2>2. ks[Setup] \in Seq(Kid) /\ resets'[Setup] \in Nat /\ Len(ks[Setup]) \in Nat
      BY <1>0
    <2>3. CASE ~begun
      <3>1. \A x \in Streams : /\ logs'[Setup][x].by = lg[Setup][x].by
                               /\ (logs'[Setup][x].ended <=> lg[Setup][x].ended)
        BY <1>0, <1>8, <1>9, <2>1, <2>3
      <3>2. /\ status'[Setup] = st[Setup] /\ phase'[Setup] = ph[Setup]
            /\ kids'[Setup] = ks[Setup]
        BY <1>1, <1>7, <2>3
      <3>. QED BY <2>0, <3>1, <3>2 DEF Fits, Unended
    <2>4. CASE begun
      <3>1. \A x \in Streams : lg[Setup][x].by \subseteq {resets'[Setup]} /\ ~lg[Setup][x].ended
        BY <2>0, <2>4 DEF Fits, Unended
      <3>2. \A x \in Streams : /\ logs'[Setup][x].by \subseteq {resets'[Setup]}
                               /\ (logs'[Setup][x].ended <=> nested)
        <4>1. "recipe" \in Streams /\ "push" \in Streams /\ Streams = {"recipe", "push"}
          BY DEF Streams
        <4>2. /\ opened[Setup]["recipe"].by \subseteq {resets'[Setup]}
              /\ opened[Setup]["push"].by \subseteq {resets'[Setup]}
              /\ \A x \in Streams : ~opened[Setup][x].ended
          BY <1>8, <2>4, <3>1, <4>1
        <4>3. ASSUME NEW x \in Streams
              PROVE  /\ logs'[Setup][x].by \subseteq {resets'[Setup]}
                     /\ (logs'[Setup][x].ended <=> nested)
          <5>. HIDE DEF nested, begun
          <5>1. /\ logs'[Setup][x].by = opened[Setup][x].by
                /\ logs'[Setup][x].ended <=> (opened[Setup][x].ended \/ nested)
            BY <1>0, <1>9, <2>1
          <5>2. x = "recipe" \/ x = "push"
            BY <4>1
          <5>3. opened[Setup][x].by \subseteq {resets'[Setup]} /\ ~opened[Setup][x].ended
            BY <4>2, <5>2
          <5>. QED BY <5>1, <5>3
        <4>. QED BY <4>3
      <3>3. Len(kids'[Setup]) = Len(ks[Setup]) + 1 /\ Last(kids'[Setup]) = setupKid
        BY <1>7, <1>10, <2>2, <2>4, AppendKid
      <3>4. Len(ks[Setup]) <= resets'[Setup]
        BY <2>0, <2>4 DEF Fits
      <3>5. /\ status'[Setup] = verdict
            /\ phase'[Setup] = IF verdict # "running" THEN "closed" ELSE "running"
            /\ verdict \in {"ok", "failed", "running"}
        BY <1>1, <1>7, <2>4
      <3>6. /\ Last(kids'[Setup]).attempt = resets'[Setup] /\ Last(kids'[Setup]).pushing = "no"
            /\ ~Last(kids'[Setup]).closeSeen
            /\ Last(kids'[Setup]).life = IF verdict # "running" THEN "closed" ELSE "alive"
            /\ Len(kids'[Setup]) > 0 /\ Len(kids'[Setup]) <= resets'[Setup] + 1
        BY <1>10, <2>2, <2>4, <3>3, <3>4
      <3>7. /\ \A x \in Streams : logs'[Setup][x].by \subseteq {resets'[Setup]}
            /\ verdict = "running" => Unended(logs'[Setup])
        BY <2>4, <3>2 DEF Unended
      <3>8. CASE verdict = "running"
        BY <3>5, <3>6, <3>7, <3>8 DEF Fits
      <3>9. CASE verdict \in {"ok", "failed"}
        BY <3>5, <3>6, <3>7, <3>9 DEF Fits, Pushes
      <3>. QED BY <3>5, <3>8, <3>9
    <2>. QED BY <2>3, <2>4
  <1>14. Placed(status', kids', tree', trees')
    <2>0. Placed(st, ks, was, worktrees)
      BY DEF Sound
    <2>1. \A n \in Recipes : status'[n] \in {"running", "ok"} /\ n \notin started =>
              st[n] \in {"running", "ok"} /\ kids'[n] = ks[n]
      BY <1>6
    <2>2. \A n \in started : Last(kids'[n]) = NewKid(n, t) /\ verdict = "ok"
      BY <1>0, <1>4, <1>6, <1>10, AppendKid
    <2>3. t = IF nested /\ verdict = "ok" THEN 1 ELSE was
      BY DEF t
    <2>. QED BY <1>1, <1>2, <1>4, <1>7, <1>10, <2>0, <2>1, <2>2, <2>3 DEF Placed
  <1>15. \A n \in Nodes : Fits(n, status'[n], phase'[n], kids'[n], logs'[n], resets'[n])
    BY <1>0, <1>12, <1>13
  <1>16. Sound(status', phase', kids', logs', resets', tree', trees')
    BY <1>14, <1>15 DEF Sound
  <1>17. \A n \in Nodes : st[n] # "pending" =>
                 status'[n] = st[n] /\ phase'[n] = ph[n] /\ kids'[n] = ks[n]
    BY <1>0, <1>1, <1>3, <1>4, <1>6, <1>7
  <1>18. ASSUME NEW n \in Recipes, st[n] = "pending" PROVE status'[n] # "ok" /\ phase'[n] # "settled"
    <2>1. ph[n] = "none"
      BY <1>0, <1>18 DEF Sound, Fits
    <2>. QED BY <1>6, <1>18, <2>1
  <1>19. tree' \in Nat /\ trees' \in SUBSET Nat
    BY <1>2
  <1>. QED BY <1>11, <1>16, <1>17, <1>18, <1>19

-----------------------------------------------------------------------------
(* What a handler has to show                                              *)

\* TypeOK in two parts, what a pass moves and what it leaves alone.
LEMMA Types == TypeOK <=> Typed(status, phase, kids, logs) /\ Aside
  BY DEF TypeOK, Typed, Aside, Phases

\* The state a handler other than dispose leaves, and the verdicts it kept.
Done ==
    /\ TypeOK' /\ Live' /\ Kept'
    /\ \A n \in Nodes : status[n] \in Terminal /\ resets'[n] = resets[n] => status'[n] = status[n]

\* A live lane has what is kept.
LEMMA LiveKept ==
    ASSUME TypeOK', Live', ~threw', AtRest', ~disposed'
    PROVE  Kept'
  <1>1. /\ \A n \in Nodes : Fits(n, status'[n], phase'[n], kids'[n], logs'[n], resets'[n])
        /\ Warm(status', phase', kids', bucket')
    BY DEF Live, Sound
  <1>2. StartedOncePerReset' /\ LogOfThisAttempt'
    BY <1>1 DEF Fits, StartedOncePerReset, LogOfThisAttempt
  <1>3. GreenMeansWarmed'
    BY <1>1 DEF Warm, GreenMeansWarmed, Last
  <1>. QED BY <1>2, <1>3 DEF Kept, NoSurvivors

\* A handler that leaves a sound lane to the pass is done.
LEMMA TickDone ==
    ASSUME NEW st, NEW ph, NEW ks, NEW lg, NEW was \in Nat, NEW ws \in SUBSET Nat,
           ~disposed, Aside, Typed(st, ph, ks, lg),
           Sound(st, ph, ks, lg, resets', was, ws), Warm(st, ph, ks, bucket'),
           TickIn(st, ph, ks, lg, was, ws),
           resets' \in [Nodes -> 0 .. MaxReruns], disposed' = disposed,
           mode' \in {"no", "provided", "fetched"},
           mode' = "no" => \A n \in Nodes : st[n] = "absent",
           push' \in [Nodes -> {"none", "pushing", "pushed", "failed"}],
           cleanup' \in Nat, links' \subseteq Recipes,
           sent' \subseteq bucket', bucket' \subseteq Recipes, threw' = FALSE,
           \A n \in Nodes : status[n] \in Terminal /\ resets'[n] = resets[n] => st[n] = status[n]
    PROVE  Done
  <1>1. /\ Typed(status', phase', kids', logs')
        /\ Sound(status', phase', kids', logs', resets', tree', trees')
        /\ tree' \in Nat /\ trees' \in SUBSET Nat
        /\ \A n \in Nodes : st[n] # "pending" =>
              status'[n] = st[n] /\ phase'[n] = ph[n] /\ kids'[n] = ks[n]
        /\ \A n \in Recipes : st[n] = "pending" => status'[n] # "ok" /\ phase'[n] # "settled"
    BY TickKeeps
  <1>2. TypeOK'
    <2>1. Aside'
      BY <1>1 DEF Aside
    <2>2. Typed(status, phase, kids, logs)'
      BY <1>1 DEF Typed
    <2>. QED BY <2>1, <2>2, Types DEF TypeOK, Typed, Aside, Phases
  <1>3. Live'
    <2>1. Warm(status', phase', kids', bucket')
      <3>. SUFFICES ASSUME NEW n \in Pushers
                    PROVE  /\ status'[n] = "ok" => n \in bucket' \/ Last(kids'[n]).pushing = "skipped"
                           /\ phase'[n] = "settled" /\ Last(kids'[n]).pushing = "busy" =>
                                 n \in bucket' \cup Last(kids'[n]).sending
        BY DEF Warm
      <3>1. n \in Recipes /\ n \in Nodes
        BY NodeAssumption DEF Nodes
      <3>2. CASE st[n] = "pending"
        BY <1>1, <3>1, <3>2
      <3>3. CASE st[n] # "pending"
        BY <1>1, <3>1, <3>3 DEF Warm
      <3>. QED BY <3>2, <3>3
    <2>2. mode' = "no" => \A n \in Nodes : status'[n] = "absent"
      BY <1>1
    <2>. QED BY <1>1, <2>1, <2>2 DEF Live
  <1>4. AtRest'
    <2>1. st \in [Nodes -> Status]
      BY DEF Typed
    <2>2. Blocked(status') = {} /\ Runnable(status') = {}
      BY <2>1, TickRests
    <2>. QED BY <2>2 DEF AtRest
  <1>5. Kept'
    <2>1. ~threw' /\ ~disposed'
      OBVIOUS
    <2>. QED BY <1>2, <1>3, <1>4, <2>1, LiveKept
  <1>6. \A n \in Nodes : status[n] \in Terminal /\ resets'[n] = resets[n] => status'[n] = status[n]
    BY <1>1 DEF Terminal, Failed
  <1>. QED BY <1>2, <1>3, <1>5, <1>6 DEF Done

\* A handler that ends without a pass, and leaves the statuses alone.
LEMMA NoTickDone ==
    ASSUME NEW ph, NEW ks, NEW lg,
           ~disposed, Aside, AtRest, Live, Typed(status, ph, ks, lg),
           Sound(status, ph, ks, lg, resets, tree, trees), Warm(status, ph, ks, bucket'),
           NoTick(status, ph, ks, lg),
           resets' = resets, disposed' = disposed, mode' = mode,
           push' \in [Nodes -> {"none", "pushing", "pushed", "failed"}],
           cleanup' \in Nat, links' \subseteq Recipes,
           sent' \subseteq bucket', bucket' \subseteq Recipes, threw' = FALSE
    PROVE  Done
  <1>1. /\ status' = status /\ phase' = ph /\ kids' = ks /\ logs' = lg
        /\ tree' = tree /\ trees' = trees
    BY DEF NoTick
  <1>2. TypeOK'
    <2>1. Aside'
      BY <1>1 DEF Aside
    <2>2. Typed(status, phase, kids, logs)'
      BY <1>1 DEF Typed
    <2>. QED BY <2>1, <2>2 DEF TypeOK, Typed, Aside, Phases
  <1>3. Live'
    BY <1>1 DEF Live
  <1>4. AtRest'
    <2>1. (Blocked(status) = {} /\ Runnable(status) = {}) \/ mode = "no"
      BY DEF AtRest
    <2>. QED BY <1>1, <2>1 DEF AtRest
  <1>5. Kept'
    <2>1. ~threw' /\ ~disposed'
      OBVIOUS
    <2>. QED BY <1>2, <1>3, <1>4, <2>1, LiveKept
  <1>. QED BY <1>1, <1>2, <1>3, <1>5 DEF Done

-----------------------------------------------------------------------------
(* Steps of one node                                                       *)

\* The starts of a node with one of them replaced.
LEMMA KidChange ==
    ASSUME NEW q \in Seq(Kid), NEW g \in DOMAIN q, NEW k \in Kid, NEW r, r = [q EXCEPT ![g] = k]
    PROVE  /\ r \in Seq(Kid) /\ Len(r) = Len(q) /\ DOMAIN r = DOMAIN q
           /\ Last(r) = IF g = Len(q) THEN k ELSE Last(q)
           /\ \A h \in DOMAIN q : r[h] = IF h = g THEN k ELSE q[h]
           /\ Len(q) \in Nat /\ Len(q) > 0 /\ DOMAIN q = 1 .. Len(q)
           /\ q[g] \in Kid
  <1>1. Len(q) \in Nat /\ DOMAIN q = 1 .. Len(q) /\ g \in 1 .. Len(q)
    OBVIOUS
  <1>2. r \in Seq(Kid) /\ Len(r) = Len(q)
    OBVIOUS
  <1>3. \A h \in DOMAIN q : r[h] = IF h = g THEN k ELSE q[h]
    OBVIOUS
  <1>. QED BY <1>1, <1>2, <1>3 DEF Last

\* One node may move where its own part fits, unless it becomes green or starts.
LEMMA OneNode ==
    ASSUME TypeOK, Live,
           NEW n \in Nodes, NEW bk \in SUBSET Recipes, bucket \subseteq bk,
           NEW st \in [Nodes -> Status], NEW ph \in [Nodes -> Phases],
           NEW ks \in [Nodes -> Seq(Kid)], NEW lg \in [Nodes -> [Streams -> Log]],
           \A m \in Nodes : m # n => /\ st[m] = status[m] /\ ph[m] = phase[m]
                                     /\ ks[m] = kids[m] /\ lg[m] = logs[m],
           \A g \in DOMAIN ks[n] : ks[n][g].group = "none" <=> n = Setup,
           Fits(n, st[n], ph[n], ks[n], lg[n], resets[n]),
           st[n] \in {"running", "ok"} /\ n # Setup =>
               status[n] \in {"running", "ok"} /\ Last(ks[n]).cwd = Last(kids[n]).cwd,
           n = Setup => st[n] = status[n] \/ (status[n] # "ok" /\ st[n] # "ok"),
           n \in Pushers =>
               /\ st[n] = "ok" => n \in bk \/ Last(ks[n]).pushing = "skipped"
               /\ ph[n] = "settled" /\ Last(ks[n]).pushing = "busy" =>
                     n \in bk \cup Last(ks[n]).sending
    PROVE  /\ Typed(st, ph, ks, lg) /\ Aside
           /\ Sound(st, ph, ks, lg, resets, tree, trees)
           /\ Warm(st, ph, ks, bk)
  <1>1. Typed(status, phase, kids, logs) /\ Aside
    BY Types
  <1>2. \A m \in Nodes : m # n => /\ st[m] = status[m] /\ ph[m] = phase[m]
                                     /\ ks[m] = kids[m] /\ lg[m] = logs[m]
    OBVIOUS
  <1>3. Typed(st, ph, ks, lg)
    <2>3. ASSUME NEW m \in Nodes, NEW g \in DOMAIN ks[m] PROVE ks[m][g].group = "none" <=> m = Setup
      <3>1. CASE m = n
        BY <3>1
      <3>2. CASE m # n
        BY <1>1, <1>2, <3>2 DEF Typed
      <3>. QED BY <3>1, <3>2
    <2>. QED BY <2>3 DEF Typed
  <1>4. \A m \in Nodes : Fits(m, st[m], ph[m], ks[m], lg[m], resets[m])
    <2>1. \A m \in Nodes : Fits(m, status[m], phase[m], kids[m], logs[m], resets[m])
      BY DEF Live, Sound
    <2>. QED BY <1>2, <2>1
  <1>5. /\ \A m \in Recipes : m \in Nodes
        /\ Setup \in Nodes /\ \A m \in Pushers : m \in Nodes
    BY NodeAssumption DEF Nodes
  <1>6. Placed(st, ks, tree, trees)
    <2>1. Placed(status, kids, tree, trees)
      BY DEF Live, Sound
    <2>2. ASSUME NEW m \in Recipes, st[m] \in {"running", "ok"}
          PROVE  status[m] \in {"running", "ok"} /\ Last(ks[m]).cwd = Last(kids[m]).cwd
      BY <1>2, <1>5, <2>2, NodeAssumption
    <2>3. st[Setup] = status[Setup] \/ (status[Setup] # "ok" /\ st[Setup] # "ok")
      BY <1>2, <1>5
    <2>. QED BY <2>1, <2>2, <2>3 DEF Placed
  <1>7. Warm(st, ph, ks, bk)
    <2>1. Warm(status, phase, kids, bucket)
      BY DEF Live
    <2>2. ASSUME NEW m \in Pushers
          PROVE  /\ st[m] = "ok" => m \in bk \/ Last(ks[m]).pushing = "skipped"
                 /\ ph[m] = "settled" /\ Last(ks[m]).pushing = "busy" => m \in bk \cup Last(ks[m]).sending
      BY ZenonT(90), <1>2, <1>5, <2>1 DEF Warm
    <2>. QED BY <2>2 DEF Warm
  <1>. QED BY <1>1, <1>3, <1>4, <1>6, <1>7 DEF Sound

\* Words of the invocation that holds the node, while its log is open.
LEMMA Says ==
    ASSUME IInv, ~disposed, NEW n \in Nodes, NEW g \in DOMAIN kids[n], NEW x \in Streams,
           Current(n, g), phase[n] \in {"running", "settled"},
           logs' = Wrote(logs, n, x, kids[n][g].attempt), threw' = Throws(logs, n, x),
           UNCHANGED <<mode, disposed, status, phase, kids, push, diskVars, cacheVars, resets>>
    PROVE  Done
  <1>1. TypeOK /\ Live /\ ~threw /\ AtRest /\ Typed(status, phase, kids, logs) /\ Aside
    BY Types DEF IInv, Kept
  <1>2. Fits(n, status[n], phase[n], kids[n], logs[n], resets[n])
    BY <1>1 DEF Live, Sound
  <1>3. /\ kids[n][g].attempt = resets[n] /\ resets[n] \in 0 .. MaxReruns
        /\ \A y \in Streams : ~logs[n][y].ended /\ logs[n][y].by \subseteq {resets[n]}
    BY <1>1, <1>2 DEF Current, Fits, Unended, Last, Aside
  <1>4. threw' = FALSE
    BY <1>1, <1>3 DEF Throws, Aside
  <1>0. logs' = Wrote(logs, n, x, resets[n])
    BY <1>3
  <1>5. /\ logs' \in [Nodes -> [Streams -> Log]]
        /\ \A m \in Nodes, y \in Streams :
                 /\ logs'[m][y].ended = logs[m][y].ended
                 /\ logs'[m][y].by = IF m = n /\ y = x THEN logs[m][y].by \cup {resets[n]}
                                     ELSE logs[m][y].by
    <2>1. logs \in [Nodes -> [Streams -> Log]]
      BY <1>1 DEF Typed
    <2>2. resets[n] \in 0 .. MaxReruns
      BY <1>3
    <2>3. Said(logs', logs, n, x, resets[n])
      BY <1>0, <2>1, <2>2, Writes
    <2>. QED BY <2>3 DEF Said
  <1>6. Fits(n, status[n], phase[n], kids[n], logs'[n], resets[n])
    BY <1>2, <1>3, <1>5 DEF Fits, Unended
  <1>7. \A m \in Nodes : m # n => logs'[m] = logs[m]
    BY <1>0, <1>1 DEF Wrote, Typed
  <1>8. /\ \A h \in DOMAIN kids[n] : kids[n][h].group = "none" <=> n = Setup
        /\ bucket \in SUBSET Recipes
        /\ n \in Pushers =>
             /\ status[n] = "ok" => n \in bucket \/ Last(kids[n]).pushing = "skipped"
             /\ phase[n] = "settled" /\ Last(kids[n]).pushing = "busy" =>
                   n \in bucket \cup Last(kids[n]).sending
    BY <1>1 DEF Typed, Aside, Live, Warm
  <1>9. /\ Typed(status, phase, kids, logs')
        /\ Sound(status, phase, kids, logs', resets, tree, trees)
        /\ Warm(status, phase, kids, bucket)
    <2>1. /\ status \in [Nodes -> Status] /\ phase \in [Nodes -> Phases]
          /\ kids \in [Nodes -> Seq(Kid)]
      BY <1>1 DEF Typed
    <2>. QED BY <1>1, <1>5, <1>6, <1>7, <1>8, <2>1, OneNode
  <1>10. NoTick(status, phase, kids, logs')
    BY DEF NoTick, diskVars
  <1>. QED BY <1>1, <1>4, <1>9, <1>10, NoTickDone DEF diskVars, cacheVars, Aside, Live

\* A start that no longer holds its node, or only its process group, moves.
LEMMA Aloof ==
    ASSUME IInv, ~disposed, NEW n \in Nodes, NEW g \in DOMAIN kids[n], NEW k \in Kid,
           k.group = "none" <=> n = Setup,
           \/ ~Current(n, g)
           \/ /\ k.attempt = kids[n][g].attempt /\ k.life = kids[n][g].life
              /\ k.closeSeen = kids[n][g].closeSeen /\ k.pushing = kids[n][g].pushing
              /\ k.sending = kids[n][g].sending /\ k.cwd = kids[n][g].cwd,
           NoTick(status, phase, [kids EXCEPT ![n] = [kids[n] EXCEPT ![g] = k]], logs),
           UNCHANGED <<mode, disposed, push, cleanup, resets, threw>>,
           links' \subseteq Recipes, sent' \subseteq bucket', bucket' \subseteq Recipes,
           bucket \subseteq bucket'
    PROVE  Done
  <1>. DEFINE q == [kids[n] EXCEPT ![g] = k]
              ks == [kids EXCEPT ![n] = q]
  <1>1. TypeOK /\ Live /\ ~threw /\ AtRest /\ Typed(status, phase, kids, logs) /\ Aside
    BY Types DEF IInv, Kept
  <1>2. Fits(n, status[n], phase[n], kids[n], logs[n], resets[n])
    BY <1>1 DEF Live, Sound
  <1>3. kids[n] \in Seq(Kid) /\ \A h \in DOMAIN kids[n] : kids[n][h].group = "none" <=> n = Setup
    BY <1>1 DEF Typed
  <1>4. /\ q \in Seq(Kid) /\ Len(q) = Len(kids[n]) /\ DOMAIN q = DOMAIN kids[n]
        /\ Last(q) = IF g = Len(kids[n]) THEN k ELSE Last(kids[n])
        /\ \A h \in DOMAIN q : q[h].group = "none" <=> n = Setup
    BY <1>3, KidChange
  <1>. HIDE DEF q
  <1>5. \/ phase[n] = "none"
        \/ /\ Last(q).attempt = Last(kids[n]).attempt /\ Last(q).life = Last(kids[n]).life
           /\ Last(q).closeSeen = Last(kids[n]).closeSeen
           /\ Last(q).pushing = Last(kids[n]).pushing
           /\ Last(q).sending = Last(kids[n]).sending /\ Last(q).cwd = Last(kids[n]).cwd
    BY <1>4 DEF Current, Last
  <1>6. Fits(n, status[n], phase[n], q, logs[n], resets[n])
    BY <1>2, <1>4, <1>5 DEF Fits, Pushes
  <1>7. phase[n] = "none" => status[n] \notin {"running", "ok"}
    BY <1>2 DEF Fits
  <1>8. /\ ks \in [Nodes -> Seq(Kid)] /\ ks[n] = q
        /\ \A m \in Nodes : m # n => ks[m] = kids[m]
    BY <1>1, <1>4 DEF Typed
  <1>9. n \in Pushers =>
             /\ status[n] = "ok" => n \in bucket' \/ Last(q).pushing = "skipped"
             /\ phase[n] = "settled" /\ Last(q).pushing = "busy" => n \in bucket' \cup Last(q).sending
    BY <1>1, <1>5, <1>7 DEF Live, Warm
  <1>10. status[n] \in {"running", "ok"} => Last(q).cwd = Last(kids[n]).cwd
    BY <1>5, <1>7
  <1>11. /\ Typed(status, phase, ks, logs)
         /\ Sound(status, phase, ks, logs, resets, tree, trees)
         /\ Warm(status, phase, ks, bucket')
    <2>1. /\ status \in [Nodes -> Status] /\ phase \in [Nodes -> Phases]
          /\ logs \in [Nodes -> [Streams -> Log]]
      BY <1>1 DEF Typed
    <2>. HIDE DEF ks
    <2>. QED BY ZenonT(90), <1>1, <1>4, <1>6, <1>8, <1>9, <1>10, <2>1, OneNode
  <1>12. NoTick(status, phase, ks, logs)
    BY DEF q
  <1>. HIDE DEF ks
  <1>. QED BY <1>1, <1>11, <1>12, NoTickDone DEF Aside

\* The lane with node n's part replaced by one that fits it.
Only(n, st, ph, ks, lg) ==
    /\ st \in [Nodes -> Status] /\ ph \in [Nodes -> Phases]
    /\ ks \in [Nodes -> Seq(Kid)] /\ lg \in [Nodes -> [Streams -> Log]]
    /\ \A m \in Nodes : m # n => /\ st[m] = status[m] /\ ph[m] = phase[m]
                                 /\ ks[m] = kids[m] /\ lg[m] = logs[m]
    /\ \A g \in DOMAIN ks[n] : ks[n][g].group = "none" <=> n = Setup
    /\ Fits(n, st[n], ph[n], ks[n], lg[n], resets[n])

\* What goes on beside the nodes, in a handler that resets nothing.
Beside ==
    /\ UNCHANGED <<mode, disposed, cleanup, resets>>
    /\ push' \in [Nodes -> {"none", "pushing", "pushed", "failed"}]
    /\ links' \subseteq Recipes /\ bucket' \subseteq Recipes
    /\ sent' \subseteq bucket' /\ bucket \subseteq bucket'
    /\ threw' = FALSE

\* A verdict on n: green after it has run, and then its output is served.
Settled(n, s, q) ==
    /\ status[n] \in {"pending", "running"} /\ s \in Terminal
    /\ s = "ok" => status[n] = "running" /\ n # Setup /\ Last(q).cwd = Last(kids[n]).cwd
    /\ n \in Pushers /\ s = "ok" => n \in bucket' \/ Last(q).pushing = "skipped"

\* A handler that settles one node and then makes a pass.
LEMMA NodeTicks ==
    ASSUME IInv, ~disposed, NEW n \in Nodes, NEW st, NEW ph, NEW ks, NEW lg,
           Only(n, st, ph, ks, lg), Settled(n, st[n], ks[n]), Tick(st, ph, ks, lg), Beside
    PROVE  Done
  <1>0. /\ st \in [Nodes -> Status] /\ ph \in [Nodes -> Phases]
        /\ ks \in [Nodes -> Seq(Kid)] /\ lg \in [Nodes -> [Streams -> Log]]
        /\ \A m \in Nodes : m # n => /\ st[m] = status[m] /\ ph[m] = phase[m]
                                     /\ ks[m] = kids[m] /\ lg[m] = logs[m]
        /\ \A g \in DOMAIN ks[n] : ks[n][g].group = "none" <=> n = Setup
        /\ Fits(n, st[n], ph[n], ks[n], lg[n], resets[n])
    BY DEF Only
  <1>1. TypeOK /\ Live /\ Aside
    BY Types DEF IInv
  <1>2. st[n] # "running" /\ (ph[n] = "settled" => Last(ks[n]).pushing # "busy")
    BY <1>0 DEF Settled, Fits, Terminal, Failed, Pushes
  <1>3. /\ Typed(st, ph, ks, lg) /\ Sound(st, ph, ks, lg, resets, tree, trees)
        /\ Warm(st, ph, ks, bucket')
    <2>1. bucket' \in SUBSET Recipes /\ bucket \subseteq bucket'
      BY DEF Beside
    <2>2. st[n] \in {"running", "ok"} /\ n # Setup =>
               status[n] \in {"running", "ok"} /\ Last(ks[n]).cwd = Last(kids[n]).cwd
      BY <1>2 DEF Settled
    <2>3. n = Setup => st[n] = status[n] \/ (status[n] # "ok" /\ st[n] # "ok")
      BY DEF Settled
    <2>4. n \in Pushers =>
               /\ st[n] = "ok" => n \in bucket' \/ Last(ks[n]).pushing = "skipped"
               /\ ph[n] = "settled" /\ Last(ks[n]).pushing = "busy" =>
                     n \in bucket' \cup Last(ks[n]).sending
      BY <1>2 DEF Settled
    <2>. QED BY <1>0, <1>1, <2>1, <2>2, <2>3, <2>4, OneNode
  <1>4. TickIn(st, ph, ks, lg, tree, trees)
    BY DEF Tick
  <1>5. /\ tree \in Nat /\ trees \in SUBSET Nat /\ mode' \in {"no", "provided", "fetched"}
        /\ cleanup' \in Nat /\ resets' \in [Nodes -> 0 .. MaxReruns] /\ resets' = resets
        /\ disposed' = disposed
        /\ push' \in [Nodes -> {"none", "pushing", "pushed", "failed"}]
        /\ links' \subseteq Recipes /\ bucket' \subseteq Recipes /\ sent' \subseteq bucket'
        /\ threw' = FALSE
    BY <1>1 DEF Aside, Beside
  <1>6. \A m \in Nodes : status[m] \in Terminal /\ resets'[m] = resets[m] => st[m] = status[m]
    BY <1>0 DEF Settled, Terminal, Failed
  <1>7. Sound(st, ph, ks, lg, resets', tree, trees)
    BY <1>3, <1>5
  <1>8. mode' # "no"
    BY <1>1 DEF Beside, Settled, Live
  <1>. QED BY <1>1, <1>3, <1>4, <1>5, <1>6, <1>7, <1>8, TickDone

\* A handler that settles nothing and makes no pass.
LEMMA NodeMoves ==
    ASSUME IInv, ~disposed, NEW n \in Nodes, NEW ph, NEW ks, NEW lg,
           Only(n, status, ph, ks, lg),
           status[n] \in {"running", "ok"} => Last(ks[n]).cwd = Last(kids[n]).cwd,
           n \in Pushers =>
               /\ status[n] = "ok" => n \in bucket' \/ Last(ks[n]).pushing = "skipped"
               /\ ph[n] = "settled" /\ Last(ks[n]).pushing = "busy" =>
                     n \in bucket' \cup Last(ks[n]).sending,
           NoTick(status, ph, ks, lg), Beside
    PROVE  Done
  <1>0. /\ status \in [Nodes -> Status] /\ ph \in [Nodes -> Phases]
        /\ ks \in [Nodes -> Seq(Kid)] /\ lg \in [Nodes -> [Streams -> Log]]
        /\ \A m \in Nodes : m # n => /\ status[m] = status[m] /\ ph[m] = phase[m]
                                     /\ ks[m] = kids[m] /\ lg[m] = logs[m]
        /\ \A g \in DOMAIN ks[n] : ks[n][g].group = "none" <=> n = Setup
        /\ Fits(n, status[n], ph[n], ks[n], lg[n], resets[n])
    BY DEF Only
  <1>1. TypeOK /\ Live /\ Aside /\ AtRest
    BY Types DEF IInv, Kept
  <1>2. /\ Typed(status, ph, ks, lg) /\ Sound(status, ph, ks, lg, resets, tree, trees)
        /\ Warm(status, ph, ks, bucket')
    <2>1. bucket' \in SUBSET Recipes /\ bucket \subseteq bucket'
      BY DEF Beside
    <2>. QED BY <1>0, <1>1, <2>1, OneNode
  <1>3. /\ resets' = resets /\ disposed' = disposed /\ mode' = mode
        /\ cleanup' \in Nat
        /\ push' \in [Nodes -> {"none", "pushing", "pushed", "failed"}]
        /\ links' \subseteq Recipes /\ bucket' \subseteq Recipes /\ sent' \subseteq bucket'
        /\ threw' = FALSE
    BY <1>1 DEF Aside, Beside
  <1>. QED BY <1>1, <1>2, <1>3, NoTickDone

\* Start g of n becomes k.
Becomes(ks, n, g, k) ==
    /\ ks \in [Nodes -> Seq(Kid)]
    /\ \A m \in Nodes : m # n => ks[m] = kids[m]
    /\ ks[n] = [kids[n] EXCEPT ![g] = k]
    /\ Len(ks[n]) = Len(kids[n])
    /\ Last(ks[n]) = IF g = Len(kids[n]) THEN k ELSE Last(kids[n])
    /\ \A h \in DOMAIN ks[n] : ks[n][h].group = "none" <=> n = Setup

\* Replacing one start does that.
LEMMA KidSet ==
    ASSUME TypeOK, NEW n \in Nodes, NEW g \in DOMAIN kids[n], NEW k \in Kid,
           k.group = "none" <=> n = Setup,
           NEW ks, ks = [kids EXCEPT ![n] = [kids[n] EXCEPT ![g] = k]]
    PROVE  Becomes(ks, n, g, k)
  <1>1. kids \in [Nodes -> Seq(Kid)] /\ \A h \in DOMAIN kids[n] : kids[n][h].group = "none" <=> n = Setup
    BY DEF TypeOK
  <1>. DEFINE q == [kids[n] EXCEPT ![g] = k]
  <1>2. /\ q \in Seq(Kid) /\ Len(q) = Len(kids[n]) /\ DOMAIN q = DOMAIN kids[n]
        /\ Last(q) = IF g = Len(kids[n]) THEN k ELSE Last(kids[n])
        /\ \A h \in DOMAIN kids[n] : q[h] = IF h = g THEN k ELSE kids[n][h]
    <2>1. kids[n] \in Seq(Kid)
      BY <1>1
    <2>2. PICK r : r = q
      OBVIOUS
    <2>3. r = [kids[n] EXCEPT ![g] = k]
      BY <2>2
    <2>. HIDE DEF q
    <2>. QED BY <2>1, <2>2, <2>3, KidChange
  <1>. HIDE DEF q
  <1>3. ks \in [Nodes -> Seq(Kid)] /\ ks[n] = q /\ \A m \in Nodes : m # n => ks[m] = kids[m]
    BY <1>1, <1>2 DEF q
  <1>. QED BY <1>1, <1>2, <1>3 DEF Becomes, q

\* What is known of the invocation that holds a node.
LEMMA Holds ==
    ASSUME IInv, ~disposed, NEW n \in Nodes, NEW g \in DOMAIN kids[n], Current(n, g)
    PROVE  /\ phase[n] # "none" /\ g = Len(kids[n]) /\ kids[n][g] = Last(kids[n])
           /\ kids[n][g].attempt = resets[n] /\ resets[n] \in 0 .. MaxReruns
           /\ Fits(n, status[n], phase[n], kids[n], logs[n], resets[n])
           /\ kids[n][g].life = "alive" => phase[n] = "running"
           /\ Pushes(kids[n][g]) => phase[n] = "settled"
           /\ phase[n] = "running" => status[n] = "running" /\ ~Pushes(kids[n][g])
           /\ phase[n] \in {"running", "settled"} => Unended(logs[n])
           /\ Len(kids[n]) <= resets[n] + 1 /\ Len(kids[n]) > 0
  <1>1. TypeOK /\ Live
    BY DEF IInv
  <1>2. Fits(n, status[n], phase[n], kids[n], logs[n], resets[n])
    BY <1>1 DEF Live, Sound
  <1>3. phase[n] # "none" /\ g = Len(kids[n]) /\ kids[n][g] = Last(kids[n])
    BY DEF Current, Last
  <1>4. phase[n] \in Phases /\ resets[n] \in 0 .. MaxReruns
    BY <1>1 DEF TypeOK, Phases
  <1>5. Len(kids[n]) <= resets[n] + 1 /\ Len(kids[n]) > 0 /\ Last(kids[n]).attempt = resets[n]
    BY <1>2, <1>3 DEF Fits
  <1>6. /\ Last(kids[n]).life = "alive" => phase[n] = "running"
        /\ Pushes(Last(kids[n])) => phase[n] = "settled"
        /\ phase[n] = "running" => status[n] = "running" /\ ~Pushes(Last(kids[n]))
    BY <1>2, <1>3, <1>4 DEF Fits, Phases, Pushes
  <1>7. phase[n] \in {"running", "settled"} => Unended(logs[n])
    BY <1>2 DEF Fits
  <1>. QED BY <1>2, <1>3, <1>4, <1>5, <1>6, <1>7

\* The logs, with node n's no more than the words of its present attempt.
Quiet(lg, n) ==
    /\ lg \in [Nodes -> [Streams -> Log]]
    /\ \A m \in Nodes : m # n => lg[m] = logs[m]
    /\ \A x \in Streams : lg[n][x].by \subseteq {resets[n]}

\* Whatever a handler does to the logs of its node, they are no more than that.
LEMMA Quietly ==
    ASSUME IInv, ~disposed, NEW n \in Nodes
    PROVE  /\ Quiet(logs, n)
           /\ \A x \in Streams : Quiet(Wrote(logs, n, x, resets[n]), n)
           /\ \A x \in Streams : Unended(logs[n]) => Unended(Wrote(logs, n, x, resets[n])[n])
           /\ Quiet(Ended(logs, {n}), n)
           /\ \A x \in Streams : Quiet(Ended(Wrote(logs, n, x, resets[n]), {n}), n)
  <1>1. logs \in [Nodes -> [Streams -> Log]] /\ resets[n] \in 0 .. MaxReruns
    BY DEF IInv, TypeOK
  <1>2. \A x \in Streams : logs[n][x].by \subseteq {resets[n]}
    BY DEF IInv, Live, Sound, Fits
  <1>3. Quiet(logs, n)
    BY <1>1, <1>2 DEF Quiet
  <1>4. ASSUME NEW lg, Quiet(lg, n) PROVE Quiet(Ended(lg, {n}), n)
    <2>1. lg \in [Nodes -> [Streams -> Log]]
      BY <1>4 DEF Quiet
    <2>2. \A m \in Nodes : m # n => Ended(lg, {n})[m] = lg[m]
      BY DEF Ended
    <2>3. /\ Ended(lg, {n}) \in [Nodes -> [Streams -> Log]]
          /\ \A x \in Streams : Ended(lg, {n})[n][x].by = lg[n][x].by
      BY <2>1, Ends
    <2>. QED BY <1>4, <2>2, <2>3 DEF Quiet
  <1>5. ASSUME NEW x \in Streams
        PROVE  /\ Quiet(Wrote(logs, n, x, resets[n]), n)
               /\ Unended(logs[n]) => Unended(Wrote(logs, n, x, resets[n])[n])
    <2>1. Said(Wrote(logs, n, x, resets[n]), logs, n, x, resets[n])
      BY <1>1, Writes
    <2>2. \A m \in Nodes : m # n => Wrote(logs, n, x, resets[n])[m] = logs[m]
      BY <1>1 DEF Wrote
    <2>. QED BY <1>2, <2>1, <2>2 DEF Quiet, Said, Unended
  <1>. QED BY <1>3, <1>4, <1>5

-----------------------------------------------------------------------------
(* The handlers: each is one node's step, or a pass over a lane it made    *)

LEMMA PrepareSaysStep ==
    ASSUME IInv, ~disposed, NEW g \in DOMAIN kids[Setup], PrepareSays(g)
    PROVE  Done
  <1>1. /\ kids[Setup][g].life = "alive" /\ Current(Setup, g)
        /\ threw' = Throws(logs, Setup, "recipe")
        /\ logs' = Wrote(logs, Setup, "recipe", kids[Setup][g].attempt)
        /\ UNCHANGED <<mode, disposed, status, phase, kids, push, diskVars, cacheVars, resets>>
    BY DEF PrepareSays
  <1>2. Setup \in Nodes /\ "recipe" \in Streams
    BY DEF Nodes, Streams
  <1>3. phase[Setup] = "running"
    BY <1>1, <1>2, Holds
  <1>. QED BY <1>1, <1>2, <1>3, Says

LEMMA OutputStep ==
    ASSUME IInv, ~disposed, NEW n \in Recipes, NEW g \in DOMAIN kids[n], Output(n, g)
    PROVE  Done
  <1>1. /\ kids[n][g].life \in {"alive", "exited"} /\ Current(n, g)
        /\ threw' = Throws(logs, n, "recipe")
        /\ logs' = Wrote(logs, n, "recipe", kids[n][g].attempt)
        /\ UNCHANGED <<mode, disposed, status, phase, kids, push, diskVars, cacheVars, resets>>
    BY DEF Output
  <1>2. n \in Nodes /\ "recipe" \in Streams
    BY DEF Nodes, Streams
  <1>3. phase[n] \in {"running", "settled"}
    <2>1. /\ phase[n] # "none" /\ kids[n][g] = Last(kids[n])
          /\ Fits(n, status[n], phase[n], kids[n], logs[n], resets[n])
      BY <1>1, <1>2, Holds
    <2>2. phase[n] # "closed"
      BY <1>1, <2>1 DEF Fits
    <2>. QED BY <1>2, <2>1, <2>2 DEF IInv, TypeOK
  <1>. QED BY <1>1, <1>2, <1>3, Says

LEMMA PushSaysStep ==
    ASSUME IInv, ~disposed, NEW n \in Recipes, NEW g \in DOMAIN kids[n], PushSays(n, g)
    PROVE  Done
  <1>1. /\ kids[n][g].pushing = "busy" /\ Current(n, g)
        /\ threw' = Throws(logs, n, "push")
        /\ logs' = Wrote(logs, n, "push", kids[n][g].attempt)
        /\ UNCHANGED <<mode, disposed, status, phase, kids, push, diskVars, cacheVars, resets>>
    BY DEF PushSays
  <1>2. n \in Nodes /\ "push" \in Streams
    BY DEF Nodes, Streams
  <1>3. phase[n] = "settled"
    BY <1>1, <1>2, Holds DEF Pushes
  <1>. QED BY <1>1, <1>2, <1>3, Says

LEMMA EscalateStep ==
    ASSUME IInv, ~disposed, NEW n \in Recipes, NEW g \in DOMAIN kids[n], Escalate(n, g)
    PROVE  Done
  <1>. DEFINE k == [kids[n][g] EXCEPT !.group = "gone"]
  <1>1. /\ n \in Nodes /\ n # Setup /\ kids \in [Nodes -> Seq(Kid)] /\ kids[n][g] \in Kid
        /\ Aside /\ Live
    BY NodeAssumption, Types DEF IInv, Nodes, Typed
  <1>2. /\ k \in Kid /\ k.group # "none"
        /\ k.attempt = kids[n][g].attempt /\ k.life = kids[n][g].life
        /\ k.closeSeen = kids[n][g].closeSeen /\ k.pushing = kids[n][g].pushing
        /\ k.sending = kids[n][g].sending /\ k.cwd = kids[n][g].cwd
    BY <1>1 DEF Kid
  <1>3. kids' = [kids EXCEPT ![n] = [kids[n] EXCEPT ![g] = k]]
    BY <1>1 DEF Escalate
  <1>. HIDE DEF k
  <1>4. NoTick(status, phase, [kids EXCEPT ![n] = [kids[n] EXCEPT ![g] = k]], logs)
    BY <1>3 DEF NoTick, Escalate, diskVars
  <1>5. /\ UNCHANGED <<mode, disposed, push, cleanup, resets, threw>>
        /\ links' \subseteq Recipes /\ sent' \subseteq bucket' /\ bucket' \subseteq Recipes
        /\ bucket \subseteq bucket'
    BY <1>1 DEF Escalate, diskVars, cacheVars, Aside, Live
  <1>. QED BY <1>1, <1>2, <1>4, <1>5, Aloof

\* The starts of n that have no say any more.
LEMMA Orphan ==
    ASSUME IInv, ~disposed, NEW n \in Nodes, NEW g \in DOMAIN kids[n], ~Current(n, g),
           NEW k \in Kid, k.group = "none" <=> n = Setup,
           NEW ks, ks = [kids EXCEPT ![n] = [kids[n] EXCEPT ![g] = k]],
           NoTick(status, phase, ks, logs),
           UNCHANGED <<mode, disposed, push, cleanup, resets, threw>>,
           links' \subseteq Recipes, sent' \subseteq bucket', bucket' \subseteq Recipes,
           bucket \subseteq bucket'
    PROVE  Done
  BY Aloof

LEMMA SpawnFailsStep ==
    ASSUME IInv, ~disposed, NEW n \in Recipes, NEW g \in DOMAIN kids[n], SpawnFails(n, g)
    PROVE  Done
  <1>. DEFINE k == [kids[n][g] EXCEPT !.life = "closed", !.group = "gone"]
              ks == [kids EXCEPT ![n] = [kids[n] EXCEPT ![g] = k]]
              lg == Ended(Wrote(logs, n, "recipe", kids[n][g].attempt), {n})
              st == [status EXCEPT ![n] = "failed"]
              ph == [phase EXCEPT ![n] = "closed"]
  <1>1. /\ n \in Nodes /\ n # Setup /\ kids \in [Nodes -> Seq(Kid)] /\ kids[n][g] \in Kid
        /\ Aside /\ Live /\ TypeOK /\ ~threw
    BY NodeAssumption, Types DEF IInv, Nodes, Typed, Kept
  <1>2. /\ k \in Kid /\ k.group = "gone" /\ k.life = "closed"
        /\ k.attempt = kids[n][g].attempt /\ k.pushing = kids[n][g].pushing
        /\ k.cwd = kids[n][g].cwd
    BY <1>1 DEF Kid
  <1>3. [kids EXCEPT ![n][g].life = "closed", ![n][g].group = "gone"] = ks
    BY <1>1
  <1>. HIDE DEF k, ks
  <1>4. Becomes(ks, n, g, k)
    BY <1>1, <1>2, KidSet DEF ks
  <1>5. /\ kids[n][g].life = "alive"
        /\ UNCHANGED <<mode, disposed, push, cleanup, links, cacheVars, resets>>
        /\ links' \subseteq Recipes /\ sent' \subseteq bucket' /\ bucket' \subseteq Recipes
        /\ bucket \subseteq bucket'
    BY <1>1 DEF SpawnFails, cacheVars, Aside, Live
  <1>6. CASE ~Current(n, g)
    <2>1. NoTick(status, phase, ks, logs) /\ UNCHANGED threw
      BY <1>3, <1>6 DEF SpawnFails
    <2>. QED BY <1>1, <1>2, <1>5, <1>6, <2>1, Orphan DEF ks
  <1>7. CASE Current(n, g)
    <2>1. Tick(st, ph, ks, lg) /\ threw' = Throws(logs, n, "recipe")
      BY <1>3, <1>7 DEF SpawnFails
    <2>2. /\ g = Len(kids[n]) /\ kids[n][g] = Last(kids[n]) /\ kids[n][g].attempt = resets[n]
          /\ phase[n] = "running" /\ status[n] = "running" /\ ~Pushes(kids[n][g])
          /\ Unended(logs[n]) /\ Len(kids[n]) <= resets[n] + 1 /\ Len(kids[n]) > 0
      BY <1>1, <1>5, <1>7, Holds
    <2>3. threw' = FALSE
      BY <1>1, <2>1, <2>2 DEF Throws, Unended, Streams, Aside
    <2>4. Quiet(lg, n)
      BY <1>1, <2>2, Quietly DEF Streams
    <2>. HIDE DEF lg
    <2>5. /\ st \in [Nodes -> Status] /\ ph \in [Nodes -> Phases]
          /\ st[n] = "failed" /\ ph[n] = "closed"
          /\ \A m \in Nodes : m # n => st[m] = status[m] /\ ph[m] = phase[m]
      BY <1>1 DEF TypeOK, Phases, Status, Terminal, Failed
    <2>. HIDE DEF st, ph
    <2>6. Fits(n, st[n], ph[n], ks[n], lg[n], resets[n])
      BY <1>1, <1>2, <1>4, <2>2, <2>4, <2>5 DEF Becomes, Quiet, Fits, Pushes
    <2>7. Only(n, st, ph, ks, lg)
      BY <1>4, <2>4, <2>5, <2>6 DEF Only, Becomes, Quiet
    <2>8. Settled(n, st[n], ks[n])
      BY <2>2, <2>5 DEF Settled, Terminal, Failed
    <2>9. Beside
      BY <1>1, <1>5, <2>3 DEF Beside, Aside
    <2>. QED BY <1>1, <2>1, <2>7, <2>8, <2>9, NodeTicks
  <1>. QED BY <1>6, <1>7

\* What start g of n is after its process has exited.
Gone(n, g, stray) ==
    [kids[n][g] EXCEPT !.life = "exited",
                       !.group = IF @ # "tracked" THEN @
                                 ELSE IF Current(n, g) /\ stray THEN "termed" ELSE "gone"]

\* Its group has been sent a signal or is gone, unless it never had one.
LEMMA GoneIs ==
    ASSUME TypeOK, NEW n \in Recipes, NEW g \in DOMAIN kids[n], NEW stray
    PROVE  LET k == Gone(n, g, stray) IN
           /\ k \in Kid /\ k.group # "none" /\ k.life = "exited"
           /\ k.attempt = kids[n][g].attempt /\ k.pushing = kids[n][g].pushing
           /\ k.closeSeen = kids[n][g].closeSeen
           /\ k.sending = kids[n][g].sending /\ k.cwd = kids[n][g].cwd
           /\ Exited(n, g, stray) = [kids EXCEPT ![n] = [kids[n] EXCEPT ![g] = k]]
  <1>1. /\ n \in Nodes /\ n # Setup /\ kids \in [Nodes -> Seq(Kid)] /\ kids[n][g] \in Kid
        /\ kids[n][g].group # "none"
    BY NodeAssumption DEF TypeOK, Nodes
  <1>2. /\ Gone(n, g, stray) \in Kid /\ Gone(n, g, stray).group # "none"
        /\ Gone(n, g, stray).life = "exited"
        /\ Gone(n, g, stray).attempt = kids[n][g].attempt
        /\ Gone(n, g, stray).pushing = kids[n][g].pushing
        /\ Gone(n, g, stray).closeSeen = kids[n][g].closeSeen
        /\ Gone(n, g, stray).sending = kids[n][g].sending
        /\ Gone(n, g, stray).cwd = kids[n][g].cwd
    BY <1>1 DEF Gone, Kid
  <1>3. Exited(n, g, stray) = [kids EXCEPT ![n] = [kids[n] EXCEPT ![g] = Gone(n, g, stray)]]
    BY <1>1 DEF Exited, Gone, Kid
  <1>. QED BY <1>2, <1>3

LEMMA ExitStep ==
    ASSUME IInv, ~disposed, NEW n \in Recipes, NEW g \in DOMAIN kids[n],
           NEW ok \in BOOLEAN, NEW stray \in BOOLEAN, Exit(n, g, ok, stray)
    PROVE  Done
  <1>. DEFINE k == Gone(n, g, stray)
              ks == [kids EXCEPT ![n] = [kids[n] EXCEPT ![g] = k]]
              st == [status EXCEPT ![n] = IF ok THEN "ok" ELSE "failed"]
              ph == [phase EXCEPT ![n] = "settled"]
  <1>1. /\ n \in Nodes /\ n # Setup /\ kids \in [Nodes -> Seq(Kid)] /\ kids[n][g] \in Kid
        /\ Aside /\ Live /\ TypeOK /\ ~threw
    BY NodeAssumption, Types DEF IInv, Nodes, Typed, Kept
  <1>2. /\ k \in Kid /\ k.group # "none" /\ k.life = "exited"
        /\ k.attempt = kids[n][g].attempt /\ k.pushing = kids[n][g].pushing
        /\ k.cwd = kids[n][g].cwd /\ Exited(n, g, stray) = ks
    BY <1>1, GoneIs
  <1>. HIDE DEF k, ks
  <1>3. Becomes(ks, n, g, k)
    BY <1>1, <1>2, KidSet DEF ks
  <1>4. /\ kids[n][g].life = "alive"
        /\ UNCHANGED <<mode, disposed, push, cleanup, cacheVars, resets, threw>>
        /\ links' \subseteq Recipes /\ sent' \subseteq bucket' /\ bucket' \subseteq Recipes
        /\ bucket \subseteq bucket'
    BY <1>1 DEF Exit, Built, cacheVars, Aside, Live
  <1>5. CASE ~Current(n, g)
    <2>1. NoTick(status, phase, ks, logs)
      BY <1>2, <1>5 DEF Exit
    <2>. QED BY <1>1, <1>2, <1>4, <1>5, <2>1, Orphan DEF ks
  <1>6. CASE Current(n, g)
    <2>1. Tick(st, ph, ks, logs) /\ (ok => n \notin Pushers)
      BY <1>2, <1>6 DEF Exit
    <2>2. /\ g = Len(kids[n]) /\ kids[n][g] = Last(kids[n]) /\ kids[n][g].attempt = resets[n]
          /\ phase[n] = "running" /\ status[n] = "running" /\ ~Pushes(kids[n][g])
          /\ Unended(logs[n]) /\ Len(kids[n]) <= resets[n] + 1 /\ Len(kids[n]) > 0
      BY <1>1, <1>4, <1>6, Holds
    <2>3. Quiet(logs, n)
      BY <1>1, Quietly
    <2>4. /\ st \in [Nodes -> Status] /\ ph \in [Nodes -> Phases]
          /\ st[n] = (IF ok THEN "ok" ELSE "failed") /\ ph[n] = "settled"
          /\ \A m \in Nodes : m # n => st[m] = status[m] /\ ph[m] = phase[m]
      BY <1>1 DEF TypeOK, Phases, Status, Terminal, Failed
    <2>. HIDE DEF st, ph
    <2>5. Fits(n, st[n], ph[n], ks[n], logs[n], resets[n])
      BY <1>1, <1>2, <1>3, <2>2, <2>3, <2>4 DEF Becomes, Quiet, Fits, Pushes
    <2>6. Only(n, st, ph, ks, logs)
      BY <1>3, <2>3, <2>4, <2>5 DEF Only, Becomes, Quiet
    <2>7. Settled(n, st[n], ks[n])
      BY <1>1, <1>2, <1>3, <2>1, <2>2, <2>4 DEF Settled, Becomes, Terminal, Failed
    <2>8. Beside
      BY <1>1, <1>4 DEF Beside, Aside
    <2>. QED BY <1>1, <2>1, <2>6, <2>7, <2>8, NodeTicks
  <1>. QED BY <1>5, <1>6

LEMMA ExitToPushStep ==
    ASSUME IInv, ~disposed, NEW n \in Recipes, NEW g \in DOMAIN kids[n],
           NEW stray \in BOOLEAN, NEW readable \in BOOLEAN, ExitToPush(n, g, stray, readable)
    PROVE  Done
  <1>. DEFINE found == Built(n, g, TRUE)
              fresh == IF readable THEN found \ sent ELSE {}
              j == Gone(n, g, stray)
              k == [j EXCEPT !.pushing = IF readable THEN "busy" ELSE "blind", !.sending = fresh]
              ks == [kids EXCEPT ![n] = [kids[n] EXCEPT ![g] = k]]
              ph == [phase EXCEPT ![n] = "settled"]
              lg == IF ~readable THEN Wrote(logs, n, "recipe", kids[n][g].attempt)
                    ELSE IF fresh # {} THEN Wrote(logs, n, "push", kids[n][g].attempt) ELSE logs
  <1>1. /\ n \in Nodes /\ n # Setup /\ kids \in [Nodes -> Seq(Kid)] /\ kids[n][g] \in Kid
        /\ Aside /\ Live /\ TypeOK /\ ~threw /\ threw = FALSE
    BY NodeAssumption, Types DEF IInv, Nodes, Typed, Kept, Aside
  <1>2. /\ kids[n][g].life = "alive" /\ Current(n, g)
        /\ links' = found /\ sent' = sent
        /\ push' = (IF fresh # {} THEN [push EXCEPT ![n] = "pushing"] ELSE push)
        /\ threw' = (threw \/ (~readable /\ Throws(logs, n, "recipe"))
                      \/ (fresh # {} /\ Throws(logs, n, "push")))
        /\ UNCHANGED <<mode, disposed, cleanup, bucket, resets>>
    BY DEF ExitToPush, Remembered
  <1>3. NoTick(status, ph, [Exited(n, g, stray)
                              EXCEPT ![n][g].pushing = IF readable THEN "busy" ELSE "blind",
                                     ![n][g].sending = fresh], lg)
    BY DEF ExitToPush
  <1>4. /\ j \in Kid /\ j.group # "none" /\ j.life = "exited"
        /\ j.attempt = kids[n][g].attempt /\ j.closeSeen = kids[n][g].closeSeen
        /\ j.cwd = kids[n][g].cwd
        /\ Exited(n, g, stray) = [kids EXCEPT ![n] = [kids[n] EXCEPT ![g] = j]]
    BY <1>1, GoneIs
  <1>. HIDE DEF j
  <1>5. found \subseteq Recipes /\ fresh \subseteq Recipes
    BY <1>1 DEF Built, Aside
  <1>6. kids[n][g].cwd = tree => n \in found
    BY DEF Built
  <1>. HIDE DEF found, fresh
  <1>7. /\ k \in Kid /\ k.group # "none" /\ k.life = "exited" /\ k.attempt = kids[n][g].attempt
        /\ k.pushing = (IF readable THEN "busy" ELSE "blind") /\ k.sending = fresh
        /\ k.cwd = kids[n][g].cwd /\ k.closeSeen = kids[n][g].closeSeen
    BY <1>4, <1>5 DEF Kid
  <1>8. [Exited(n, g, stray) EXCEPT ![n][g].pushing = IF readable THEN "busy" ELSE "blind",
                                    ![n][g].sending = fresh] = ks
    BY ZenonT(90), <1>1, <1>4
  <1>. HIDE DEF k, ks
  <1>9. Becomes(ks, n, g, k)
    BY <1>1, <1>7, KidSet DEF ks
  <1>10. /\ g = Len(kids[n]) /\ kids[n][g] = Last(kids[n]) /\ kids[n][g].attempt = resets[n]
         /\ phase[n] = "running" /\ status[n] = "running"
         /\ Fits(n, status[n], phase[n], kids[n], logs[n], resets[n])
         /\ Unended(logs[n]) /\ Len(kids[n]) <= resets[n] + 1 /\ Len(kids[n]) > 0
    BY <1>1, <1>2, Holds
  <1>11. Quiet(lg, n) /\ Unended(lg[n])
    BY <1>1, <1>10, Quietly DEF Streams
  <1>. HIDE DEF lg
  <1>12. threw' = FALSE
    BY <1>1, <1>2, <1>10 DEF Throws, Unended, Streams
  <1>13. /\ ph \in [Nodes -> Phases] /\ ph[n] = "settled"
         /\ \A m \in Nodes : m # n => ph[m] = phase[m]
    BY <1>1 DEF TypeOK, Phases
  <1>. HIDE DEF ph
  <1>14. ~kids[n][g].closeSeen
    BY <1>10 DEF Fits
  <1>15. Fits(n, status[n], ph[n], ks[n], lg[n], resets[n])
    BY <1>1, <1>7, <1>9, <1>10, <1>11, <1>13, <1>14 DEF Becomes, Quiet, Fits, Pushes
  <1>16. status \in [Nodes -> Status]
    BY <1>1 DEF TypeOK
  <1>17. Only(n, status, ph, ks, lg)
    BY <1>9, <1>11, <1>13, <1>15, <1>16 DEF Only, Becomes, Quiet
  <1>18. Last(ks[n]) = k /\ Last(ks[n]).cwd = Last(kids[n]).cwd
    BY <1>7, <1>9, <1>10 DEF Becomes
  <1>19. readable => n \in bucket' \cup fresh
    <2>1. kids[n][g].cwd = tree
      BY <1>1, <1>10 DEF Live, Sound, Placed
    <2>2. sent \subseteq bucket
      BY <1>1 DEF Live
    <2>. QED BY <1>2, <1>6, <2>1, <2>2 DEF fresh
  <1>20. Beside
    <2>1. push' \in [Nodes -> {"none", "pushing", "pushed", "failed"}]
      BY <1>1, <1>2 DEF Aside
    <2>. QED BY <1>1, <1>2, <1>5, <1>12, <2>1 DEF Beside, Aside, Live
  <1>21. n \in Pushers =>
             /\ status[n] = "ok" => n \in bucket' \/ Last(ks[n]).pushing = "skipped"
             /\ ph[n] = "settled" /\ Last(ks[n]).pushing = "busy" =>
                   n \in bucket' \cup Last(ks[n]).sending
    BY <1>7, <1>10, <1>18, <1>19
  <1>22. NoTick(status, ph, ks, lg)
    BY <1>3, <1>8
  <1>. QED BY <1>1, <1>17, <1>18, <1>20, <1>21, <1>22, NodeMoves

LEMMA CloseStep ==
    ASSUME IInv, ~disposed, NEW n \in Recipes, NEW g \in DOMAIN kids[n], Close(n, g)
    PROVE  Done
  <1>. DEFINE owed == kids[n][g].pushing \in {"busy", "blind"}
              k == [kids[n][g] EXCEPT !.life = "closed", !.closeSeen = TRUE]
              ks == [kids EXCEPT ![n] = [kids[n] EXCEPT ![g] = k]]
              ph == IF owed THEN phase ELSE [phase EXCEPT ![n] = "closed"]
              lg == IF owed THEN logs ELSE Ended(logs, {n})
  <1>1. /\ n \in Nodes /\ n # Setup /\ kids \in [Nodes -> Seq(Kid)] /\ kids[n][g] \in Kid
        /\ Aside /\ Live /\ TypeOK /\ threw = FALSE /\ kids[n][g].group # "none"
        /\ status \in [Nodes -> Status]
    BY NodeAssumption, Types DEF IInv, Nodes, Typed, Kept, Aside
  <1>2. /\ kids[n][g].life = "exited"
        /\ UNCHANGED <<mode, disposed, push, cleanup, links, cacheVars, resets, threw>>
        /\ links' \subseteq Recipes /\ sent' \subseteq bucket' /\ bucket' \subseteq Recipes
        /\ bucket \subseteq bucket' /\ bucket' = bucket
    BY <1>1 DEF Close, cacheVars, Aside, Live
  <1>3. CASE ~(Current(n, g) /\ phase[n] # "closed")
    <2>. DEFINE k2 == [kids[n][g] EXCEPT !.life = "closed"]
                ks2 == [kids EXCEPT ![n] = [kids[n] EXCEPT ![g] = k2]]
    <2>1. NoTick(status, phase, [kids EXCEPT ![n][g].life = "closed"], logs)
      BY <1>3 DEF Close
    <2>2. [kids EXCEPT ![n][g].life = "closed"] = ks2
      BY <1>1
    <2>3. k2 \in Kid /\ k2.group # "none"
      BY <1>1 DEF Kid
    <2>. HIDE DEF k2, ks2
    <2>4. ~Current(n, g)
      <3>1. ASSUME Current(n, g) PROVE FALSE
        <4>1. kids[n][g] = Last(kids[n]) /\ Fits(n, status[n], phase[n], kids[n], logs[n], resets[n])
          BY <1>1, <3>1, Holds
        <4>. QED BY <1>2, <1>3, <3>1, <4>1 DEF Fits
      <3>. QED BY <3>1
    <2>5. NoTick(status, phase, ks2, logs)
      BY <2>1, <2>2
    <2>. QED BY <1>1, <1>2, <2>3, <2>4, <2>5, Orphan DEF ks2
  <1>4. CASE Current(n, g) /\ phase[n] # "closed"
    <2>1. /\ k \in Kid /\ k.group # "none" /\ k.life = "closed" /\ k.closeSeen
          /\ k.attempt = kids[n][g].attempt /\ k.pushing = kids[n][g].pushing
          /\ k.cwd = kids[n][g].cwd /\ k.sending = kids[n][g].sending
      BY <1>1 DEF Kid
    <2>2. NoTick(status, ph, [kids EXCEPT ![n][g].life = "closed", ![n][g].closeSeen = TRUE], lg)
      BY <1>4 DEF Close
    <2>3. [kids EXCEPT ![n][g].life = "closed", ![n][g].closeSeen = TRUE] = ks
      BY <1>1
    <2>. HIDE DEF k, ks
    <2>4. Becomes(ks, n, g, k)
      BY <1>1, <2>1, KidSet DEF ks
    <2>5. /\ g = Len(kids[n]) /\ kids[n][g] = Last(kids[n]) /\ kids[n][g].attempt = resets[n]
          /\ Fits(n, status[n], phase[n], kids[n], logs[n], resets[n])
          /\ phase[n] # "none" /\ Len(kids[n]) <= resets[n] + 1 /\ Len(kids[n]) > 0
      BY <1>1, <1>4, Holds
    <2>6. phase[n] = "settled" /\ Unended(logs[n])
      BY <1>1, <1>2, <1>4, <2>5 DEF TypeOK, Fits
    <2>7. IF owed THEN status[n] = "running" ELSE status[n] \in {"ok", "failed"}
      BY <2>5, <2>6 DEF Fits, Pushes
    <2>8. Quiet(lg, n) /\ (owed => Unended(lg[n]))
      BY <1>1, <2>6, Quietly
    <2>9. /\ ph \in [Nodes -> Phases] /\ ph[n] = (IF owed THEN "settled" ELSE "closed")
          /\ \A m \in Nodes : m # n => ph[m] = phase[m]
      BY <1>1, <2>6 DEF TypeOK, Phases
    <2>. HIDE DEF ph, lg
    <2>10. Last(ks[n]) = k /\ Last(ks[n]).cwd = Last(kids[n]).cwd /\ Len(ks[n]) = Len(kids[n])
      BY <2>1, <2>4, <2>5 DEF Becomes
    <2>11. Fits(n, status[n], ph[n], ks[n], lg[n], resets[n])
      BY <1>1, <2>1, <2>5, <2>7, <2>8, <2>9, <2>10 DEF Quiet, Fits, Pushes
    <2>12. Only(n, status, ph, ks, lg)
      BY <1>1, <2>4, <2>8, <2>9, <2>11 DEF Only, Becomes, Quiet
    <2>13. Beside
      BY <1>1, <1>2 DEF Beside, Aside
    <2>14. n \in Pushers =>
             /\ status[n] = "ok" => n \in bucket' \/ Last(ks[n]).pushing = "skipped"
             /\ ph[n] = "settled" /\ Last(ks[n]).pushing = "busy" =>
                   n \in bucket' \cup Last(ks[n]).sending
      <3>1. Warm(status, phase, kids, bucket)
        BY <1>1 DEF Live
      <3>. QED BY <1>2, <2>1, <2>5, <2>6, <2>10, <3>1 DEF Warm
    <2>15. NoTick(status, ph, ks, lg)
      BY <2>2, <2>3
    <2>. QED BY <1>1, <2>10, <2>12, <2>13, <2>14, <2>15, NodeMoves
  <1>. QED BY <1>3, <1>4

\* Superseding the invocations of S reaps their groups, and changes nothing else.
LEMMA SupersededIs ==
    ASSUME TypeOK, Live, NEW S \in SUBSET Nodes
    PROVE  LET ks == Superseded(kids, S) IN
           /\ ks \in [Nodes -> Seq(Kid)]
           /\ \A m \in Nodes : m \notin S => ks[m] = kids[m]
           /\ \A m \in Nodes : Len(ks[m]) = Len(kids[m])
           /\ \A m \in Nodes : \A h \in DOMAIN ks[m] : ks[m][h].group = "none" <=> m = Setup
  <1>. DEFINE ks == Superseded(kids, S)
  <1>1. /\ kids \in [Nodes -> Seq(Kid)]
        /\ \A m \in Nodes : \A h \in DOMAIN kids[m] : kids[m][h].group = "none" <=> m = Setup
    BY DEF TypeOK
  <1>2. ASSUME NEW m \in Nodes
        PROVE  /\ ks[m] \in Seq(Kid) /\ Len(ks[m]) = Len(kids[m])
               /\ m \notin S => ks[m] = kids[m]
               /\ \A h \in DOMAIN ks[m] : ks[m][h].group = "none" <=> m = Setup
    <2>. DEFINE g == Len(kids[m])
                k == Reaped(kids[m][g])
    <2>1. CASE m \in S /\ phase[m] # "none"
      <3>1. Fits(m, status[m], phase[m], kids[m], logs[m], resets[m])
        BY DEF Live, Sound
      <3>2. kids[m] \in Seq(Kid) /\ g > 0 /\ g \in Nat
        BY <1>1, <2>1, <3>1 DEF Fits
      <3>3. g \in DOMAIN kids[m] /\ kids[m][g] \in Kid
        BY <3>2
      <3>4. k \in Kid /\ (k.group = "none" <=> kids[m][g].group = "none")
        BY <3>3 DEF Reaped, Kid
      <3>5. ks[m] = [kids[m] EXCEPT ![g] = k]
        BY <2>1, <3>3 DEF Superseded
      <3>. HIDE DEF ks, k, g
      <3>6. /\ ks[m] \in Seq(Kid) /\ Len(ks[m]) = Len(kids[m]) /\ DOMAIN ks[m] = DOMAIN kids[m]
            /\ \A h \in DOMAIN kids[m] : ks[m][h] = IF h = g THEN k ELSE kids[m][h]
        BY <3>2, <3>3, <3>4, <3>5, KidChange
      <3>. QED BY <1>1, <2>1, <3>3, <3>4, <3>6
    <2>2. CASE ~(m \in S /\ phase[m] # "none")
      <3>1. ks[m] = kids[m]
        BY <2>2 DEF Superseded
      <3>. HIDE DEF ks
      <3>. QED BY <1>1, <3>1
    <2>. QED BY <2>1, <2>2
  <1>3. ks \in [Nodes -> Seq(Kid)]
    <2>1. ks = [m \in Nodes |-> ks[m]]
      BY DEF Superseded
    <2>. HIDE DEF ks
    <2>. QED BY <1>2, <2>1
  <1>. HIDE DEF ks
  <1>4. /\ ks \in [Nodes -> Seq(Kid)]
        /\ \A m \in Nodes : m \notin S => ks[m] = kids[m]
        /\ \A m \in Nodes : Len(ks[m]) = Len(kids[m])
        /\ \A m \in Nodes : \A h \in DOMAIN ks[m] : ks[m][h].group = "none" <=> m = Setup
    BY <1>2, <1>3
  <1>. QED BY <1>4 DEF ks

LEMMA PushEndsStep ==
    ASSUME IInv, ~disposed, NEW n \in Recipes, NEW g \in DOMAIN kids[n],
           NEW served \in SUBSET kids[n][g].sending, PushEnds(n, g, served)
    PROVE  Done
  <1>. DEFINE kid == kids[n][g]
              ok == served = kid.sending
              k == [kid EXCEPT !.pushing = IF @ = "blind" THEN "skipped" ELSE "done"]
              ks == [kids EXCEPT ![n] = [kids[n] EXCEPT ![g] = k]]
              verdict == IF ok THEN "ok" ELSE "failed"
              lg == IF ok THEN logs ELSE Wrote(logs, n, "push", kid.attempt)
              st == [status EXCEPT ![n] = verdict]
  <1>1. /\ n \in Nodes /\ n # Setup /\ kids \in [Nodes -> Seq(Kid)] /\ kid \in Kid
        /\ Aside /\ Live /\ TypeOK /\ threw = FALSE /\ kid.group # "none"
    BY NodeAssumption, Types DEF IInv, Nodes, Typed, Kept, Aside
  <1>2. /\ kid.pushing \in {"busy", "blind"}
        /\ sent' = sent \cup served /\ bucket' = bucket \cup served
        /\ UNCHANGED <<mode, disposed, cleanup, links, resets>>
        /\ links' \subseteq Recipes /\ sent' \subseteq bucket' /\ bucket' \subseteq Recipes
        /\ bucket \subseteq bucket'
    <2>1. served \subseteq Recipes
      BY <1>1 DEF Kid
    <2>. QED BY <1>1, <2>1 DEF PushEnds, Aside, Live
  <1>3. /\ k \in Kid /\ k.group # "none" /\ k.attempt = kid.attempt /\ k.life = kid.life
        /\ k.closeSeen = kid.closeSeen /\ k.cwd = kid.cwd
        /\ k.pushing = IF kid.pushing = "blind" THEN "skipped" ELSE "done"
    BY <1>1 DEF Kid
  <1>4. [kids EXCEPT ![n][g].pushing = IF @ = "blind" THEN "skipped" ELSE "done"] = ks
    BY <1>1
  <1>. HIDE DEF k, ks
  <1>5. Becomes(ks, n, g, k)
    BY <1>1, <1>3, KidSet DEF ks
  <1>6. CASE ~Current(n, g)
    <2>1. NoTick(status, phase, ks, logs) /\ UNCHANGED <<push, threw>>
      BY <1>4, <1>6 DEF PushEnds
    <2>2. UNCHANGED <<mode, disposed, push, cleanup, resets, threw>>
      BY <1>2, <2>1
    <2>. QED BY <1>1, <1>2, <1>3, <1>6, <2>1, <2>2, Orphan DEF ks
  <1>7. CASE Current(n, g)
    <2>1. /\ push' = (IF kid.sending = {} THEN push
                      ELSE [push EXCEPT ![n] = IF ok THEN "pushed" ELSE "failed"])
          /\ threw' = (threw \/ (~ok /\ Throws(logs, n, "push")))
          /\ Stamp(n, g, verdict, ks, lg)
      BY <1>4, <1>7 DEF PushEnds
    <2>2. /\ g = Len(kids[n]) /\ kid = Last(kids[n]) /\ kid.attempt = resets[n]
          /\ Fits(n, status[n], phase[n], kids[n], logs[n], resets[n])
          /\ phase[n] = "settled" /\ Unended(logs[n])
          /\ Len(kids[n]) <= resets[n] + 1 /\ Len(kids[n]) > 0
      BY <1>1, <1>2, <1>7, Holds DEF Pushes
    <2>3. status[n] = "running" /\ kid.life = IF kid.closeSeen THEN "closed" ELSE "exited"
      BY <1>2, <2>2 DEF Fits, Pushes
    <2>. HIDE DEF kid
    <2>4. threw' = FALSE
      BY <1>1, <2>1, <2>2 DEF Throws, Unended, Streams
    <2>5. ks[n][g] = k /\ Last(ks[n]) = k /\ Len(ks[n]) = Len(kids[n])
      BY <1>5, <2>2 DEF Becomes, Last
    <2>6. Beside
      <3>1. push' \in [Nodes -> {"none", "pushing", "pushed", "failed"}]
        BY <1>1, <2>1 DEF Aside
      <3>. QED BY <1>2, <2>4, <3>1 DEF Beside
    <2>7. /\ st \in [Nodes -> Status] /\ st[n] = verdict /\ phase \in [Nodes -> Phases]
          /\ \A m \in Nodes : m # n => st[m] = status[m]
      BY <1>1 DEF TypeOK, Phases, Status, Terminal, Failed
    <2>8. Settled(n, st[n], ks[n])
      <3>1. Warm(status, phase, kids, bucket)
        BY <1>1 DEF Live
      <3>2. n \in Pushers /\ kid.pushing = "busy" => n \in bucket \cup kid.sending
        BY <2>2, <3>1 DEF Warm
      <3>3. n \in Pushers /\ ok => n \in bucket' \/ Last(ks[n]).pushing = "skipped"
        BY <1>2, <1>3, <2>5, <3>2 DEF kid
      <3>4. verdict \in Terminal /\ (verdict = "ok" <=> ok)
        BY DEF Terminal, Failed
      <3>. QED BY <1>1, <1>3, <2>2, <2>3, <2>5, <2>7, <3>3, <3>4 DEF Settled
    <2>9. /\ Quiet(lg, n) /\ Unended(lg[n])
          /\ Quiet(Ended(lg, {n}), n)
      BY <1>1, <2>2, Quietly DEF Streams
    <2>10. verdict \in {"ok", "failed"}
      OBVIOUS
    <2>. HIDE DEF st, lg, verdict
    <2>11. CASE ks[n][g].closeSeen
      <3>. DEFINE ph == [phase EXCEPT ![n] = "closed"]
                  end == Ended(lg, {n})
      <3>1. Tick(st, ph, ks, end)
        BY <2>1, <2>11 DEF Stamp, st
      <3>2. /\ ph \in [Nodes -> Phases] /\ ph[n] = "closed"
            /\ \A m \in Nodes : m # n => ph[m] = phase[m]
        BY <1>1 DEF TypeOK, Phases
      <3>. HIDE DEF ph
      <3>3. Quiet(end, n)
        BY <2>9
      <3>. HIDE DEF end
      <3>4. Fits(n, st[n], ph[n], ks[n], end[n], resets[n])
        BY <1>1, <1>3, <2>2, <2>3, <2>5, <2>7, <2>10, <2>11, <3>2, <3>3 DEF Fits, Pushes, Quiet
      <3>5. Only(n, st, ph, ks, end)
        BY <1>5, <2>7, <3>2, <3>3, <3>4 DEF Only, Becomes, Quiet
      <3>. QED BY <1>1, <2>6, <2>8, <3>1, <3>5, NodeTicks
    <2>12. CASE ~ks[n][g].closeSeen
      <3>1. Tick(st, phase, ks, lg)
        BY <2>1, <2>12 DEF Stamp, st
      <3>4. Fits(n, st[n], phase[n], ks[n], lg[n], resets[n])
        BY <1>1, <1>3, <2>2, <2>3, <2>5, <2>7, <2>9, <2>10, <2>12 DEF Fits, Pushes, Quiet
      <3>5. Only(n, st, phase, ks, lg)
        BY <1>5, <2>7, <2>9, <3>4 DEF Only, Becomes, Quiet
      <3>. QED BY <1>1, <2>6, <2>8, <3>1, <3>5, NodeTicks
    <2>. QED BY <2>11, <2>12
  <1>. QED BY <1>6, <1>7

LEMMA CancelStep ==
    ASSUME IInv, ~disposed, NEW n \in Nodes, Cancel(n)
    PROVE  Done
  <1>. DEFINE st == [status EXCEPT ![n] = "cancelled"]
              ph == [phase EXCEPT ![n] = "none"]
              ks == Superseded(kids, {n})
              lg == Ended(Wrote(logs, n, "recipe", resets[n]), {n})
  <1>1. /\ kids \in [Nodes -> Seq(Kid)] /\ Aside /\ Live /\ TypeOK /\ threw = FALSE
        /\ \A h \in DOMAIN kids[n] : kids[n][h].group = "none" <=> n = Setup
    BY Types DEF IInv, Typed, Kept, Aside
  <1>2. /\ status[n] \in {"pending", "running"} /\ threw' = Throws(logs, n, "recipe")
        /\ UNCHANGED <<mode, disposed, push, cleanup, links, cacheVars, resets>>
        /\ Tick(st, ph, ks, lg)
    BY DEF Cancel
  <1>3. Fits(n, status[n], phase[n], kids[n], logs[n], resets[n])
    BY <1>1 DEF Live, Sound
  <1>4. threw' = FALSE
    BY <1>1, <1>2, <1>3 DEF Fits, Throws, Unended, Streams
  <1>5. Quiet(lg, n)
    BY <1>1, Quietly DEF Streams
  <1>. HIDE DEF lg
  <1>6. /\ st \in [Nodes -> Status] /\ ph \in [Nodes -> Phases]
        /\ st[n] = "cancelled" /\ ph[n] = "none"
        /\ \A m \in Nodes : m # n => st[m] = status[m] /\ ph[m] = phase[m]
    BY <1>1 DEF TypeOK, Phases, Status, Terminal, Failed
  <1>. HIDE DEF st, ph
  <1>7. /\ ks \in [Nodes -> Seq(Kid)] /\ Len(ks[n]) = Len(kids[n])
        /\ \A m \in Nodes : m # n => ks[m] = kids[m]
        /\ \A h \in DOMAIN ks[n] : ks[n][h].group = "none" <=> n = Setup
    BY <1>1, <1>3, SupersededIs
  <1>. HIDE DEF ks
  <1>8. Fits(n, st[n], ph[n], ks[n], lg[n], resets[n])
    BY <1>1, <1>3, <1>5, <1>6, <1>7 DEF Fits, Quiet
  <1>9. Only(n, st, ph, ks, lg)
    BY <1>5, <1>6, <1>7, <1>8 DEF Only, Quiet
  <1>10. Settled(n, st[n], ks[n])
    BY <1>2, <1>6 DEF Settled, Terminal, Failed
  <1>11. Beside
    BY <1>1, <1>2, <1>4 DEF Beside, Aside, Live, cacheVars
  <1>. QED BY <1>2, <1>9, <1>10, <1>11, NodeTicks

LEMMA RerunStep ==
    ASSUME IInv, ~disposed, NEW n \in Nodes, Rerun(n)
    PROVE  Done
  <1>. DEFINE all == ToReset(n)
              st == Pending(all)
              ph == [m \in Nodes |-> IF m \in all THEN "none" ELSE phase[m]]
              ks == Superseded(kids, all)
              lg == Reset(logs, all)
  <1>1. /\ Typed(status, phase, kids, logs) /\ Aside /\ Live /\ TypeOK /\ threw = FALSE
        /\ Sound(status, phase, kids, logs, resets, tree, trees)
        /\ Warm(status, phase, kids, bucket)
    BY Types DEF IInv, Kept, Aside, Live
  <1>2. /\ \A m \in Nodes : resets[m] < MaxReruns
        /\ resets' = [m \in Nodes |-> IF m \in all THEN resets[m] + 1 ELSE resets[m]]
        /\ push' = [m \in Nodes |-> IF m \in all THEN "none" ELSE push[m]]
        /\ UNCHANGED <<mode, disposed, cleanup, links, cacheVars, threw>>
        /\ Tick(st, ph, ks, lg)
    BY DEF Rerun
  <1>3. /\ all \subseteq Nodes
        /\ n = Setup => \A r \in Recipes : status[r] # "absent" => r \in all
        /\ n # Setup => Setup \notin all
    BY DependentsAre DEF ToReset
  <1>. HIDE DEF all
  <1>4. /\ st \in [Nodes -> Status] /\ ph \in [Nodes -> Phases]
        /\ \A m \in Nodes : /\ st[m] = IF m \in all THEN "pending" ELSE status[m]
                            /\ ph[m] = IF m \in all THEN "none" ELSE phase[m]
    BY <1>1 DEF Pending, Typed, Phases, Status, Terminal, Failed
  <1>. HIDE DEF st, ph
  <1>5. /\ ks \in [Nodes -> Seq(Kid)]
        /\ \A m \in Nodes : m \notin all => ks[m] = kids[m]
        /\ \A m \in Nodes : Len(ks[m]) = Len(kids[m])
        /\ \A m \in Nodes : \A h \in DOMAIN ks[m] : ks[m][h].group = "none" <=> m = Setup
    BY <1>1, <1>3, SupersededIs
  <1>. HIDE DEF ks
  <1>6. /\ lg \in [Nodes -> [Streams -> Log]]
        /\ \A m \in Nodes : m \notin all => lg[m] = logs[m]
        /\ \A m \in all, x \in Streams : ~lg[m][x].ended /\ lg[m][x].by = {}
    <2>1. EmptyLog \in Log /\ ~EmptyLog.ended /\ EmptyLog.by = {}
      BY DEF EmptyLog, Log
    <2>2. \A m \in all : lg[m] = [x \in Streams |-> EmptyLog]
      BY <1>3 DEF Reset
    <2>3. \A m \in Nodes : m \notin all => lg[m] = logs[m]
      BY DEF Reset
    <2>4. lg = [m \in Nodes |-> lg[m]]
      BY DEF Reset
    <2>5. logs \in [Nodes -> [Streams -> Log]]
      BY <1>1 DEF Typed
    <2>. HIDE DEF lg
    <2>6. ASSUME NEW m \in Nodes PROVE lg[m] \in [Streams -> Log]
      <3>1. CASE m \in all
        BY <2>1, <2>2, <3>1
      <3>2. CASE m \notin all
        BY <2>3, <2>5, <3>2
      <3>. QED BY <3>1, <3>2
    <2>7. lg \in [Nodes -> [Streams -> Log]]
      BY <2>4, <2>6
    <2>8. \A m \in all, x \in Streams : ~lg[m][x].ended /\ lg[m][x].by = {}
      BY <2>1, <2>2
    <2>. QED BY <2>3, <2>7, <2>8
  <1>. HIDE DEF lg
  <1>7. Typed(st, ph, ks, lg)
    BY <1>4, <1>5, <1>6 DEF Typed
  <1>8. /\ resets' \in [Nodes -> 0 .. MaxReruns]
        /\ \A m \in Nodes : resets'[m] = IF m \in all THEN resets[m] + 1 ELSE resets[m]
    BY <1>1, <1>2, NodeAssumption DEF Aside
  <1>9. ASSUME NEW m \in Nodes PROVE Fits(m, st[m], ph[m], ks[m], lg[m], resets'[m])
    <2>1. Fits(m, status[m], phase[m], kids[m], logs[m], resets[m])
      BY <1>1 DEF Sound
    <2>2. CASE m \in all
      <3>1. /\ st[m] = "pending" /\ ph[m] = "none" /\ resets'[m] = resets[m] + 1
            /\ Len(ks[m]) = Len(kids[m]) /\ Len(kids[m]) <= resets[m] + 1
            /\ Len(ks[m]) \in Nat /\ resets[m] \in Nat
        BY <1>1, <1>4, <1>5, <1>8, <2>1, <2>2 DEF Fits, Aside
      <3>. QED BY <1>6, <2>2, <3>1 DEF Fits, Unended
    <2>3. CASE m \notin all
      BY <1>4, <1>5, <1>6, <1>8, <2>1, <2>3
    <2>. QED BY <2>2, <2>3
  <1>10. Setup \in Nodes /\ \A r \in Recipes : r \in Nodes
    BY DEF Nodes
  <1>11. Placed(st, ks, tree, trees)
    <2>1. Placed(status, kids, tree, trees)
      BY <1>1 DEF Sound
    <2>2. ASSUME NEW r \in Recipes, st[r] \in {"running", "ok"}
          PROVE  /\ status[r] \in {"running", "ok"} /\ ks[r] = kids[r]
                 /\ st[Setup] = status[Setup]
      <3>1. r \notin all
        BY <1>4, <1>10, <2>2
      <3>2. status[r] = st[r] /\ status[r] # "absent"
        BY <1>4, <1>10, <2>2, <3>1
      <3>3. n # Setup
        BY <1>3, <3>1, <3>2
      <3>. QED BY <1>3, <1>4, <1>5, <1>10, <2>2, <3>1, <3>2, <3>3
    <2>3. st[Setup] = "ok" => status[Setup] = "ok"
      BY <1>4, <1>10
    <2>. QED BY <2>1, <2>2, <2>3 DEF Placed
  <1>12. Sound(st, ph, ks, lg, resets', tree, trees)
    BY <1>9, <1>11 DEF Sound
  <1>13. bucket' = bucket /\ sent' = sent
    BY <1>2 DEF cacheVars
  <1>14. Warm(st, ph, ks, bucket')
    <2>1. ASSUME NEW m \in Pushers
          PROVE  /\ st[m] = "ok" => m \in bucket \/ Last(ks[m]).pushing = "skipped"
                 /\ ph[m] = "settled" /\ Last(ks[m]).pushing = "busy" =>
                       m \in bucket \cup Last(ks[m]).sending
      <3>1. m \in Nodes
        BY NodeAssumption DEF Nodes
      <3>2. CASE m \in all
        BY <1>4, <3>1, <3>2
      <3>3. CASE m \notin all
        BY <1>1, <1>4, <1>5, <3>1, <3>3 DEF Warm
      <3>. QED BY <3>2, <3>3
    <2>. QED BY <1>13, <2>1 DEF Warm
  <1>15. \A m \in Nodes : status[m] \in Terminal /\ resets'[m] = resets[m] => st[m] = status[m]
    BY <1>1, <1>4, <1>8 DEF Aside
  <1>16. TickIn(st, ph, ks, lg, tree, trees)
    BY <1>2 DEF Tick
  <1>17. /\ tree \in Nat /\ trees \in SUBSET Nat /\ disposed' = disposed
         /\ mode' \in {"no", "provided", "fetched"}
         /\ push' \in [Nodes -> {"none", "pushing", "pushed", "failed"}]
         /\ cleanup' \in Nat /\ links' \subseteq Recipes
         /\ sent' \subseteq bucket' /\ bucket' \subseteq Recipes /\ threw' = FALSE
    BY <1>1, <1>2, <1>13 DEF Aside, Live
  <1>18. mode' # "no"
    BY <1>1, <1>2 DEF Rerun, Live
  <1>. QED BY <1>1, <1>7, <1>8, <1>12, <1>14, <1>15, <1>16, <1>17, <1>18, TickDone

\* Nodes brought by configure or extend: they were absent, and are pending now.
LEMMA Brought ==
    ASSUME IInv, ~disposed, NEW S \in SUBSET Nodes, \A m \in S : status[m] = "absent",
           Tick(Pending(S), phase, kids, logs),
           mode' \in {"provided", "fetched"},
           UNCHANGED <<disposed, push, cleanup, links, cacheVars, resets, threw>>
    PROVE  Done
  <1>. DEFINE st == Pending(S)
  <1>1. /\ Typed(status, phase, kids, logs) /\ Aside /\ Live /\ TypeOK /\ threw = FALSE
        /\ Sound(status, phase, kids, logs, resets, tree, trees)
        /\ Warm(status, phase, kids, bucket)
    BY Types DEF IInv, Kept, Aside, Live
  <1>2. /\ st \in [Nodes -> Status]
        /\ \A m \in Nodes : st[m] = IF m \in S THEN "pending" ELSE status[m]
    BY <1>1 DEF Pending, Typed, Status, Terminal, Failed
  <1>. HIDE DEF st
  <1>3. Typed(st, phase, kids, logs)
    BY <1>1, <1>2 DEF Typed
  <1>4. \A m \in Nodes : Fits(m, st[m], phase[m], kids[m], logs[m], resets[m])
    <2>. SUFFICES ASSUME NEW m \in Nodes PROVE Fits(m, st[m], phase[m], kids[m], logs[m], resets[m])
      OBVIOUS
    <2>1. Fits(m, status[m], phase[m], kids[m], logs[m], resets[m])
      BY <1>1 DEF Sound
    <2>2. CASE m \in S
      BY <1>2, <2>1, <2>2 DEF Fits
    <2>3. CASE m \notin S
      BY <1>2, <2>1, <2>3
    <2>. QED BY <2>2, <2>3
  <1>5. /\ Setup \in Nodes /\ \A r \in Recipes : r \in Nodes
        /\ \A r \in Pushers : r \in Nodes
    BY NodeAssumption DEF Nodes
  <1>6. Placed(st, kids, tree, trees)
    <2>1. Placed(status, kids, tree, trees)
      BY <1>1 DEF Sound
    <2>2. \A m \in Nodes : st[m] \in {"running", "ok"} => status[m] = st[m]
      BY <1>2
    <2>3. status[Setup] = "ok" => st[Setup] = "ok"
      BY <1>2, <1>5
    <2>. QED BY <1>5, <2>1, <2>2, <2>3 DEF Placed
  <1>7. bucket' = bucket /\ sent' = sent /\ resets' = resets
    BY DEF cacheVars
  <1>8. Warm(st, phase, kids, bucket')
    BY <1>1, <1>2, <1>5, <1>7 DEF Warm
  <1>9. Sound(st, phase, kids, logs, resets', tree, trees)
    BY <1>4, <1>6, <1>7 DEF Sound
  <1>10. \A m \in Nodes : status[m] \in Terminal /\ resets'[m] = resets[m] => st[m] = status[m]
    BY <1>2 DEF Terminal, Failed
  <1>11. TickIn(st, phase, kids, logs, tree, trees)
    BY DEF Tick, st
  <1>12. /\ tree \in Nat /\ trees \in SUBSET Nat /\ disposed' = disposed
         /\ push' \in [Nodes -> {"none", "pushing", "pushed", "failed"}]
         /\ cleanup' \in Nat /\ links' \subseteq Recipes
         /\ resets' \in [Nodes -> 0 .. MaxReruns]
         /\ sent' \subseteq bucket' /\ bucket' \subseteq Recipes /\ threw' = FALSE
    BY <1>1, <1>7 DEF Aside, Live
  <1>. QED BY <1>1, <1>3, <1>8, <1>9, <1>10, <1>11, <1>12, TickDone

LEMMA ConfigureStep ==
    ASSUME IInv, ~disposed, NEW from \in {"provided", "fetched"}, Configure(from)
    PROVE  Done
  <1>1. /\ mode = "no" /\ mode' = from
        /\ UNCHANGED <<disposed, push, cleanup, links, cacheVars, resets, threw>>
        /\ Tick(Pending(Initial \cup {Setup}), phase, kids, logs)
    BY DEF Configure
  <1>. DEFINE S == Initial \cup {Setup}
  <1>2. S \in SUBSET Nodes
    BY NodeAssumption DEF Nodes
  <1>3. \A m \in S : status[m] = "absent"
    BY <1>1, <1>2 DEF IInv, Live
  <1>. HIDE DEF S
  <1>4. Tick(Pending(S), phase, kids, logs)
    BY <1>1 DEF S
  <1>. QED BY <1>1, <1>2, <1>3, <1>4, Brought

LEMMA ExtendStep ==
    ASSUME IInv, ~disposed, Extend
    PROVE  Done
  <1>. DEFINE S == {r \in Recipes : status[r] = "absent"}
  <1>1. /\ mode # "no" /\ mode' = mode /\ UNCHANGED disposed
        /\ UNCHANGED <<disposed, push, cleanup, links, cacheVars, resets, threw>>
        /\ Tick(Pending(S), phase, kids, logs)
    BY DEF Extend
  <1>2. S \in SUBSET Nodes /\ \A m \in S : status[m] = "absent"
    BY DEF Nodes
  <1>3. mode' \in {"provided", "fetched"}
    BY <1>1 DEF IInv, TypeOK
  <1>. HIDE DEF S
  <1>. QED BY <1>1, <1>2, <1>3, Brought

LEMMA PrepareEndsStep ==
    ASSUME IInv, ~disposed, NEW g \in DOMAIN kids[Setup], NEW ok \in BOOLEAN, PrepareEnds(g, ok)
    PROVE  Done
  <1>. DEFINE k == [kids[Setup][g] EXCEPT !.life = "closed"]
              ks == [kids EXCEPT ![Setup] = [kids[Setup] EXCEPT ![g] = k]]
              st == [status EXCEPT ![Setup] = IF ok THEN "ok" ELSE "failed"]
              ph == [phase EXCEPT ![Setup] = "closed"]
              lg == Ended(logs, {Setup})
              t == IF ok THEN g ELSE tree
              ws == IF ok THEN trees \cup {g} ELSE trees
  <1>1. /\ Setup \in Nodes /\ kids \in [Nodes -> Seq(Kid)] /\ kids[Setup][g] \in Kid /\ g \in Nat
        /\ Aside /\ Live /\ TypeOK /\ threw = FALSE /\ kids[Setup][g].group = "none"
    BY NodeAssumption, Types DEF IInv, Nodes, Typed, Kept, Aside
  <1>2. /\ k \in Kid /\ k.group = "none" /\ k.life = "closed"
        /\ k.attempt = kids[Setup][g].attempt /\ k.pushing = kids[Setup][g].pushing
    BY <1>1 DEF Kid
  <1>3. [kids EXCEPT ![Setup][g].life = "closed"] = ks
    BY <1>1
  <1>. HIDE DEF k, ks
  <1>4. Becomes(ks, Setup, g, k)
    BY <1>1, <1>2, KidSet DEF ks
  <1>5. /\ kids[Setup][g].life = "alive"
        /\ UNCHANGED <<mode, disposed, push, cacheVars, resets, threw>>
        /\ bucket' = bucket /\ sent' = sent /\ sent' \subseteq bucket' /\ bucket' \subseteq Recipes
        /\ bucket \subseteq bucket'
    BY <1>1 DEF PrepareEnds, cacheVars, Aside, Live
  <1>6. CASE ~Current(Setup, g)
    <2>1. NoTick(status, phase, ks, logs) /\ UNCHANGED <<cleanup, links>>
      BY <1>3, <1>6 DEF PrepareEnds
    <2>2. UNCHANGED <<mode, disposed, push, cleanup, resets, threw>> /\ links' \subseteq Recipes
      BY <1>1, <1>5, <2>1 DEF Aside
    <2>. QED BY <1>1, <1>2, <1>5, <1>6, <2>1, <2>2, Orphan DEF ks
  <1>7. CASE Current(Setup, g)
    <2>1. /\ cleanup' = (IF ok THEN g ELSE cleanup) /\ links' = (IF ok THEN {} ELSE links)
          /\ TickIn(st, ph, ks, lg, t, ws)
      BY <1>3, <1>7 DEF PrepareEnds
    <2>2. /\ g = Len(kids[Setup]) /\ kids[Setup][g] = Last(kids[Setup])
          /\ kids[Setup][g].attempt = resets[Setup]
          /\ phase[Setup] = "running" /\ status[Setup] = "running" /\ ~Pushes(kids[Setup][g])
          /\ Len(kids[Setup]) <= resets[Setup] + 1 /\ Len(kids[Setup]) > 0
      BY <1>1, <1>5, <1>7, Holds
    <2>3. Quiet(lg, Setup)
      BY <1>1, Quietly
    <2>4. /\ st \in [Nodes -> Status] /\ ph \in [Nodes -> Phases]
          /\ st[Setup] = (IF ok THEN "ok" ELSE "failed") /\ ph[Setup] = "closed"
          /\ \A m \in Nodes : m # Setup => st[m] = status[m] /\ ph[m] = phase[m]
      BY <1>1 DEF TypeOK, Phases, Status, Terminal, Failed
    <2>5. /\ t \in Nat /\ ws \in SUBSET Nat
          /\ cleanup' \in Nat /\ links' \subseteq Recipes /\ (ok => t \in ws)
      BY <1>1, <2>1 DEF Aside
    <2>. HIDE DEF st, ph, lg, t, ws
    <2>6. Typed(st, ph, ks, lg)
      <3>1. Typed(status, phase, kids, logs)
        BY <1>1, Types
      <3>2. ASSUME NEW m \in Nodes, NEW h \in DOMAIN ks[m] PROVE ks[m][h].group = "none" <=> m = Setup
        <4>1. CASE m = Setup
          BY <1>4, <4>1 DEF Becomes
        <4>2. CASE m # Setup
          BY <1>4, <3>1, <4>2 DEF Becomes, Typed
        <4>. QED BY <4>1, <4>2
      <3>. QED BY <1>4, <2>3, <2>4, <3>2 DEF Typed, Becomes, Quiet
    <2>7. \A m \in Nodes : Fits(m, st[m], ph[m], ks[m], lg[m], resets[m])
      <3>1. \A m \in Nodes : Fits(m, status[m], phase[m], kids[m], logs[m], resets[m])
        BY <1>1 DEF Live, Sound
      <3>2. Fits(Setup, st[Setup], ph[Setup], ks[Setup], lg[Setup], resets[Setup])
        BY <1>2, <1>4, <2>2, <2>3, <2>4 DEF Becomes, Quiet, Fits, Pushes
      <3>3. \A m \in Nodes : m # Setup => /\ st[m] = status[m] /\ ph[m] = phase[m]
                                          /\ ks[m] = kids[m] /\ lg[m] = logs[m]
        BY <1>4, <2>3, <2>4 DEF Becomes, Quiet
      <3>4. ASSUME NEW m \in Nodes, m # Setup PROVE Fits(m, st[m], ph[m], ks[m], lg[m], resets[m])
        BY <3>1, <3>3, <3>4
      <3>. QED BY <3>2, <3>4
    <2>8. Placed(st, ks, t, ws)
      <3>1. \A r \in Recipes : r \in Nodes /\ r # Setup
        BY NodeAssumption DEF Nodes
      <3>2. \A r \in Recipes : status[r] \notin {"running", "ok"}
        BY <1>1, <2>2 DEF Live, Sound, Placed
      <3>. QED BY <2>4, <2>5, <3>1, <3>2 DEF Placed
    <2>9. Warm(st, ph, ks, bucket')
      <3>1. \A r \in Pushers : r \in Nodes /\ r # Setup
        BY NodeAssumption DEF Nodes
      <3>. QED BY ZenonT(90), <1>1, <1>4, <1>5, <2>4, <3>1 DEF Warm, Live, Becomes
    <2>10. /\ resets' \in [Nodes -> 0 .. MaxReruns] /\ resets' = resets
           /\ disposed' = disposed /\ mode' \in {"no", "provided", "fetched"}
           /\ push' \in [Nodes -> {"none", "pushing", "pushed", "failed"}] /\ threw' = FALSE
      BY <1>1, <1>5 DEF Aside
    <2>11. mode' # "no"
      BY <1>1, <1>5, <2>2 DEF Live
    <2>12. \A m \in Nodes : status[m] \in Terminal /\ resets'[m] = resets[m] => st[m] = status[m]
      BY <2>2, <2>4 DEF Terminal, Failed
    <2>13. Sound(st, ph, ks, lg, resets', t, ws)
      BY <2>7, <2>8, <2>10 DEF Sound
    <2>. QED BY <1>1, <1>5, <2>1, <2>5, <2>6, <2>9, <2>10, <2>11, <2>12, <2>13, TickDone
  <1>. QED BY <1>6, <1>7

LEMMA DisposeStep ==
    ASSUME IInv, ~disposed, Dispose
    PROVE  TypeOK' /\ disposed' /\ Kept' /\ status' = status
  <1>1. /\ Typed(status, phase, kids, logs) /\ Aside /\ Live /\ TypeOK /\ Kept
        /\ \A n \in Nodes : Fits(n, status[n], phase[n], kids[n], logs[n], resets[n])
    BY Types DEF IInv, Live, Sound
  <1>2. /\ disposed' = TRUE
        /\ phase' = [n \in Nodes |-> "none"]
        /\ kids' = [n \in Nodes |-> [g \in DOMAIN kids[n] |-> Swept(kids[n][g])]]
        /\ trees' \subseteq trees
        /\ UNCHANGED <<mode, status, logs, push, tree, cleanup, links, cacheVars, resets, threw>>
    BY DEF Dispose
  <1>3. ASSUME NEW n \in Nodes, NEW g \in DOMAIN kids[n]
        PROVE  /\ Swept(kids[n][g]) \in Kid
               /\ Swept(kids[n][g]).group = IF n = Setup THEN "none" ELSE "gone"
               /\ Swept(kids[n][g]).pushing = kids[n][g].pushing
    <2>1. kids[n][g] \in Kid /\ (kids[n][g].group = "none" <=> n = Setup)
      BY <1>1 DEF Typed
    <2>. QED BY <2>1 DEF Swept, Kid
  <1>4. ASSUME NEW n \in Nodes
        PROVE  /\ kids'[n] \in Seq(Kid) /\ DOMAIN kids'[n] = DOMAIN kids[n]
               /\ Len(kids'[n]) = Len(kids[n])
               /\ \A g \in DOMAIN kids[n] : kids'[n][g] = Swept(kids[n][g])
    <2>. DEFINE swept(g) == Swept(kids[n][g])
                len == Len(kids[n])
    <2>1. DOMAIN kids[n] = 1 .. len /\ len \in Nat
      BY <1>1 DEF Typed
    <2>2. kids'[n] = [g \in 1 .. len |-> swept(g)]
      BY <1>2, <2>1
    <2>3. \A g \in 1 .. len : swept(g) \in Kid
      BY <1>3, <2>1
    <2>. HIDE DEF swept, len
    <2>4. kids'[n] \in Seq(Kid) /\ DOMAIN kids'[n] = 1 .. len /\ Len(kids'[n]) = len
      BY <2>1, <2>2, <2>3
    <2>. QED BY <2>1, <2>2, <2>4 DEF swept, len
  <1>5. TypeOK'
    <2>1. Aside'
      BY <1>1, <1>2 DEF Aside, cacheVars
    <2>2. Typed(status', phase', kids', logs')
      <3>1. kids' \in [Nodes -> Seq(Kid)]
        BY <1>2, <1>4
      <3>2. \A n \in Nodes : \A g \in DOMAIN kids'[n] : kids'[n][g].group = "none" <=> n = Setup
        BY <1>3, <1>4
      <3>3. phase' \in [Nodes -> Phases]
        BY <1>2 DEF Phases
      <3>. QED BY <1>1, <1>2, <3>1, <3>2, <3>3 DEF Typed
    <2>. QED BY <2>1, <2>2 DEF TypeOK, Typed, Aside, Phases
  <1>6. GreenMeansWarmed'
    <2>. SUFFICES ASSUME NEW n \in Pushers, status[n] = "ok"
                  PROVE  n \in bucket \/ kids'[n][Len(kids'[n])].pushing = "skipped"
      BY <1>2 DEF GreenMeansWarmed, cacheVars
    <2>1. n \in Nodes
      BY NodeAssumption DEF Nodes
    <2>2. Len(kids[n]) > 0
      BY <1>1, <2>1 DEF Fits
    <2>3. Len(kids[n]) \in DOMAIN kids[n]
      BY <1>1, <2>1, <2>2 DEF Typed
    <2>. QED BY <1>1, <1>3, <1>4, <2>1, <2>3 DEF Kept, GreenMeansWarmed
  <1>7. StartedOncePerReset' /\ LogOfThisAttempt'
    BY <1>1, <1>2, <1>4 DEF Kept, StartedOncePerReset, LogOfThisAttempt
  <1>8. NoSurvivors'
    <2>1. \A n \in Recipes : n \in Nodes /\ n # Setup
      BY NodeAssumption DEF Nodes
    <2>. QED BY <1>3, <1>4, <2>1 DEF NoSurvivors
  <1>9. ~threw' /\ AtRest'
    BY <1>1, <1>2 DEF Kept, AtRest
  <1>. QED BY <1>2, <1>5, <1>6, <1>7, <1>8, <1>9 DEF Kept

-----------------------------------------------------------------------------
(* The lane                                                                *)

\* The lane before configure.
LEMMA InitHolds == Init => IInv
  <1>. SUFFICES ASSUME Init PROVE IInv
    OBVIOUS
  <1>1. /\ mode = "no" /\ disposed = FALSE /\ tree = 0 /\ trees = {} /\ cleanup = 0 /\ links = {}
        /\ sent = {} /\ bucket = {} /\ threw = FALSE
        /\ status = [n \in Nodes |-> "absent"] /\ phase = [n \in Nodes |-> "none"]
        /\ kids = [n \in Nodes |-> <<>>] /\ push = [n \in Nodes |-> "none"]
        /\ logs = [n \in Nodes |-> [s \in Streams |-> EmptyLog]]
        /\ resets = [n \in Nodes |-> 0]
    BY DEF Init
  <1>2. EmptyLog \in Log /\ ~EmptyLog.ended /\ EmptyLog.by = {}
    BY DEF EmptyLog, Log
  <1>3. \A n \in Nodes : /\ status[n] = "absent" /\ phase[n] = "none" /\ kids[n] = <<>>
                         /\ resets[n] = 0 /\ Len(kids[n]) = 0 /\ DOMAIN kids[n] = {}
                         /\ kids[n] \in Seq(Kid)
    BY <1>1
  <1>4. \A n \in Nodes, s \in Streams : ~logs[n][s].ended /\ logs[n][s].by = {}
    BY <1>1, <1>2
  <1>5. logs \in [Nodes -> [Streams -> Log]]
    BY <1>1, <1>2
  <1>6. 0 \in 0 .. MaxReruns
    BY NodeAssumption
  <1>7. TypeOK
    BY <1>1, <1>3, <1>5, <1>6 DEF TypeOK, Status
  <1>8. \A n \in Nodes : Fits(n, status[n], phase[n], kids[n], logs[n], resets[n])
    BY <1>3, <1>4 DEF Fits, Unended
  <1>9. Setup \in Nodes /\ (\A n \in Recipes : n \in Nodes) /\ \A n \in Pushers : n \in Nodes
    BY NodeAssumption DEF Nodes
  <1>10. Live
    BY <1>1, <1>3, <1>8, <1>9 DEF Live, Sound, Placed, Warm
  <1>11. Kept
    BY <1>1, <1>3, <1>4, <1>9 DEF Kept, StartedOncePerReset, LogOfThisAttempt, GreenMeansWarmed,
                                 AtRest, NoSurvivors
  <1>. QED BY <1>7, <1>10, <1>11 DEF IInv

\* Every step keeps the invariant, and the verdicts of the nodes it does not reset.
LEMMA NextKeeps ==
    ASSUME IInv, [Next]_vars
    PROVE  /\ IInv'
           /\ \A n \in Nodes : status[n] \in Terminal /\ resets'[n] = resets[n] =>
                 status'[n] = status[n]
  <1>1. CASE UNCHANGED vars
    <2>1. /\ UNCHANGED <<mode, disposed, status, phase, kids, logs, push, tree, trees>>
          /\ UNCHANGED <<cleanup, links, sent, bucket, resets, threw>>
      BY <1>1 DEF vars, nodeVars, diskVars, cacheVars
    <2>2. TypeOK'
      BY <2>1 DEF IInv, TypeOK
    <2>3. disposed' = disposed /\ (~disposed => Live')
      BY <2>1 DEF IInv, Live
    <2>4. Kept'
      BY <2>1 DEF IInv, Kept, StartedOncePerReset, LogOfThisAttempt, GreenMeansWarmed, AtRest,
                  NoSurvivors
    <2>. QED BY <2>1, <2>2, <2>3, <2>4 DEF IInv
  <1>2. ASSUME Done PROVE IInv' /\ \A n \in Nodes :
                              status[n] \in Terminal /\ resets'[n] = resets[n] => status'[n] = status[n]
    BY <1>2 DEF Done, IInv
  <1>3. ASSUME ~disposed, Call PROVE Done \/ Dispose
    BY <1>3, ConfigureStep, ExtendStep, RerunStep, CancelStep DEF Call
  <1>4. ASSUME ~disposed, SetupStep PROVE Done
    BY <1>4, PrepareSaysStep, PrepareEndsStep DEF SetupStep
  <1>5. ASSUME ~disposed, NEW n \in Recipes, NEW g \in DOMAIN kids[n], ChildStep(n, g) PROVE Done
    <2>1. MayStray(n) \subseteq BOOLEAN
      BY DEF MayStray
    <2>. QED BY <1>5, <2>1, OutputStep, SpawnFailsStep, ExitStep, ExitToPushStep, CloseStep,
                PushSaysStep, PushEndsStep, EscalateStep DEF ChildStep
  <1>6. CASE ~disposed /\ Dispose
    BY <1>6, DisposeStep DEF IInv
  <1>. QED BY <1>1, <1>2, <1>3, <1>4, <1>5, <1>6 DEF Next

-----------------------------------------------------------------------------
(* What a coordinator hears of the lane                                    *)

Did(s) == IF s \in {"absent", "pending"} THEN "pending"
          ELSE IF s \in {"running", "skipped"} THEN s ELSE "done"

\* What there is to hear of a task with status s, logs lg and r resets.
Task(e, d, x, c) == [exec |-> e, did |-> d, said |-> x, closed |-> c]
Seen(s, lg, r) == Task(r, Did(s), r \in lg["recipe"].by, lg["recipe"].ended)

\* The moves of LaneNode, of a task that is given by its parts.
LEMMA TaskMoves ==
    ASSUME NEW e, NEW d, NEW x, NEW c
    PROVE  /\ d = "pending" => Task(e, "running", x, c) \in Outside!Start(Task(e, d, x, c))
           /\ d = "pending" => Task(e, "skipped", x, TRUE) \in Outside!Skip(Task(e, d, x, c))
           /\ d \in {"running", "done"} /\ ~c =>
                 Task(e, d, TRUE, c) \in Outside!Write(Task(e, d, x, c))
           /\ d = "running" => Task(e, "done", x, c) \in Outside!Exit(Task(e, d, x, c))
           /\ d = "done" => Task(e, d, x, TRUE) \in Outside!EndLog(Task(e, d, x, c))
           /\ d \in {"pending", "running"} =>
                 Task(e, "done", TRUE, TRUE) \in Outside!Cancel(Task(e, d, x, c))
           /\ Task(e + 1, "pending", FALSE, FALSE) \in Outside!Rerun(Task(e, d, x, c))
  <1>. DEFINE v == Task(e, d, x, c)
  <1>1. /\ v.did = d /\ v.closed = c
        /\ [v EXCEPT !.did = "running"] = Task(e, "running", x, c)
        /\ [v EXCEPT !.did = "done"] = Task(e, "done", x, c)
    BY DEF Task
  <1>2. ASSUME NEW y PROVE [v EXCEPT !.did = "skipped", !.closed = y] = Task(e, "skipped", x, y)
    <2>1. [v EXCEPT !.did = "skipped"] = Task(e, "skipped", x, c)
      BY DEF Task
    <2>2. [Task(e, "skipped", x, c) EXCEPT !.closed = y] = Task(e, "skipped", x, y)
      BY DEF Task
    <2>. HIDE DEF v
    <2>3. [v EXCEPT !.did = "skipped", !.closed = y]
             = [[v EXCEPT !.did = "skipped"] EXCEPT !.closed = y]
      OBVIOUS
    <2>. QED BY <2>1, <2>2, <2>3
  <1>3. \A y : [v EXCEPT !.said = y] = Task(e, d, y, c)
    BY DEF Task
  <1>4. \A y : [v EXCEPT !.closed = y] = Task(e, d, x, y)
    BY DEF Task
  <1>5. ASSUME NEW y, NEW z
        PROVE  [v EXCEPT !.did = "done", !.said = y, !.closed = z] = Task(e, "done", y, z)
    <2>1. [v EXCEPT !.did = "done"] = Task(e, "done", x, c)
      BY DEF Task
    <2>2. [Task(e, "done", x, c) EXCEPT !.said = y] = Task(e, "done", y, c)
      BY DEF Task
    <2>3. [Task(e, "done", y, c) EXCEPT !.closed = z] = Task(e, "done", y, z)
      BY DEF Task
    <2>. HIDE DEF v
    <2>4. [v EXCEPT !.did = "done", !.said = y, !.closed = z]
             = [[[v EXCEPT !.did = "done"] EXCEPT !.said = y] EXCEPT !.closed = z]
      OBVIOUS
    <2>. QED BY <2>1, <2>2, <2>3, <2>4
  <1>6. Task(e + 1, "pending", FALSE, FALSE) \in Outside!Rerun(v)
    BY DEF Task, Outside!Rerun, Outside!Fresh
  <1>. HIDE DEF v
  <1>7. d = "pending" => Task(e, "skipped", x, TRUE) \in Outside!Skip(v)
    BY <1>1, <1>2, Zenon DEF Outside!Skip
  <1>8. d \in {"running", "done"} /\ ~c => Task(e, d, TRUE, c) \in Outside!Write(v)
    BY <1>1, <1>3, Zenon DEF Outside!Write
  <1>9. d = "done" => Task(e, d, x, TRUE) \in Outside!EndLog(v)
    BY <1>1, <1>4, Zenon DEF Outside!EndLog
  <1>10. d \in {"pending", "running"} => Task(e, "done", TRUE, TRUE) \in Outside!Cancel(v)
    BY <1>1, <1>5, Zenon DEF Outside!Cancel
  <1>11. /\ d = "pending" => Task(e, "running", x, c) \in Outside!Start(v)
         /\ d = "running" => Task(e, "done", x, c) \in Outside!Exit(v)
    BY <1>1 DEF Outside!Start, Outside!Exit
  <1>. QED BY <1>6, <1>7, <1>8, <1>9, <1>10, <1>11 DEF v


\* The recipe's log after a handler: as it was; with a line of attempt r; ended;
\* ended upon a last word of it; opened for another attempt.
Same(before, after) == /\ after["recipe"].by = before["recipe"].by
                       /\ after["recipe"].ended = before["recipe"].ended
Spoke(before, after, r) == /\ r \in after["recipe"].by
                           /\ ~before["recipe"].ended /\ ~after["recipe"].ended
Shut(before, after) == after["recipe"].by = before["recipe"].by /\ after["recipe"].ended
LastWord(after, r) == r \in after["recipe"].by /\ after["recipe"].ended
Opened(after) == after["recipe"].by = {} /\ ~after["recipe"].ended

\* A task is heard as it was when its log is as it was.
LEMMA SeenSame ==
    ASSUME NEW s, NEW t, NEW lg, NEW after, NEW e, Did(t) = Did(s), Same(lg, after)
    PROVE  Seen(t, after, e) = Seen(s, lg, e)
  BY DEF Same, Seen

\* What a handler does to the status and the log of a task is one of LaneNode's moves.
LEMMA SeenMoves ==
    ASSUME NEW s \in Status, NEW t \in Status, NEW lg \in [Streams -> Log],
           NEW after \in [Streams -> Log], NEW r
    PROVE  /\ s = "pending" /\ t = "running" /\ Same(lg, after) =>
                 Seen(t, after, r) \in Outside!Start(Seen(s, lg, r))
           /\ s = "pending" /\ t = "skipped" /\ Shut(lg, after) =>
                 Seen(t, after, r) \in Outside!Skip(Seen(s, lg, r))
           /\ t = s /\ Did(s) \in {"running", "done"} /\ Spoke(lg, after, r) =>
                 Seen(t, after, r) \in Outside!Write(Seen(s, lg, r))
           /\ s = "running" /\ Did(t) = "done" /\ Same(lg, after) =>
                 Seen(t, after, r) \in Outside!Exit(Seen(s, lg, r))
           /\ t = s /\ Did(s) = "done" /\ Shut(lg, after) =>
                 Seen(t, after, r) \in Outside!EndLog(Seen(s, lg, r))
           /\ s \in {"pending", "running"} /\ t = "cancelled" /\ LastWord(after, r) =>
                 Seen(t, after, r) \in Outside!Cancel(Seen(s, lg, r))
           /\ t = "pending" /\ Opened(after) =>
                 Seen(t, after, r + 1) \in Outside!Rerun(Seen(s, lg, r))
  <1>. DEFINE x == r \in lg["recipe"].by
              y == r \in after["recipe"].by
              z == r + 1 \in after["recipe"].by
              c == lg["recipe"].ended
              f == after["recipe"].ended
  <1>1. c \in BOOLEAN /\ f \in BOOLEAN
    BY DEF Streams, Log
  <1>2. /\ Seen(s, lg, r) = Task(r, Did(s), x, c)
        /\ Seen(t, after, r) = Task(r, Did(t), y, f)
        /\ Seen(t, after, r + 1) = Task(r + 1, Did(t), z, f)
    BY Zenon DEF Seen
  <1>3. /\ Same(lg, after) => y = x /\ f = c
        /\ Spoke(lg, after, r) => y = TRUE /\ f = c /\ ~c
        /\ Shut(lg, after) => y = x /\ f = TRUE
        /\ LastWord(after, r) => y = TRUE /\ f = TRUE
        /\ Opened(after) => z = FALSE /\ f = FALSE
    BY <1>1 DEF Same, Spoke, Shut, LastWord, Opened
  <1>4. /\ Did("pending") = "pending" /\ Did("running") = "running" /\ Did("skipped") = "skipped"
        /\ Did("cancelled") = "done"
    BY DEF Did
  <1>. HIDE DEF x, y, z, c, f
  <1>6. s = "pending" /\ t = "running" /\ Same(lg, after) =>
                 Seen(t, after, r) \in Outside!Start(Seen(s, lg, r))
    BY <1>2, <1>3, <1>4, TaskMoves, Zenon
  <1>7. s = "pending" /\ t = "skipped" /\ Shut(lg, after) =>
                 Seen(t, after, r) \in Outside!Skip(Seen(s, lg, r))
    BY <1>2, <1>3, <1>4, TaskMoves, Zenon
  <1>8. t = s /\ Did(s) \in {"running", "done"} /\ Spoke(lg, after, r) =>
                 Seen(t, after, r) \in Outside!Write(Seen(s, lg, r))
    BY <1>2, <1>3, <1>4, TaskMoves, Zenon
  <1>9. s = "running" /\ Did(t) = "done" /\ Same(lg, after) =>
                 Seen(t, after, r) \in Outside!Exit(Seen(s, lg, r))
    BY <1>2, <1>3, <1>4, TaskMoves, Zenon
  <1>10. t = s /\ Did(s) = "done" /\ Shut(lg, after) =>
                 Seen(t, after, r) \in Outside!EndLog(Seen(s, lg, r))
    BY <1>2, <1>3, <1>4, TaskMoves, Zenon
  <1>11. s \in {"pending", "running"} /\ t = "cancelled" /\ LastWord(after, r) =>
                 Seen(t, after, r) \in Outside!Cancel(Seen(s, lg, r))
    BY <1>2, <1>3, <1>4, TaskMoves, Zenon
  <1>12. t = "pending" /\ Opened(after) =>
                 Seen(t, after, r + 1) \in Outside!Rerun(Seen(s, lg, r))
    BY <1>2, <1>3, <1>4, TaskMoves, Zenon
  <1>. QED BY <1>6, <1>7, <1>8, <1>9, <1>10, <1>11, <1>12

\* The pass leaves a task alone, or starts it or skips it when it is pending.
Passed(s, v, w) == w = v \/ (s = "pending" /\ w \in Outside!Start(v) \cup Outside!Skip(v))

\* The pass makes at most one move of a task, and none of one that is not pending.
LEMMA TickMoves ==
    ASSUME NEW st \in [Nodes -> Status], NEW ph, NEW ks, NEW lg \in [Nodes -> [Streams -> Log]],
           NEW was, NEW ws, TickIn(st, ph, ks, lg, was, ws), resets' \in [Nodes -> 0 .. MaxReruns],
           NEW n \in Recipes, NEW e
    PROVE  Passed(st[n], Seen(st[n], lg[n], e), Seen(status'[n], logs'[n], e))
  <1>pass. PICK verdict \in IF st[Setup] # "pending" THEN {st[Setup]}
                   ELSE IF mode' = "provided" THEN {"ok", "failed"} ELSE {"running"} :
         LET begun == st[Setup] = "pending"
             nested == begun /\ verdict # "running"
             st1 == [st EXCEPT ![Setup] = verdict]
         IN /\ status' = [m \in Nodes |-> IF m \in Blocked(st1) THEN "skipped"
                                          ELSE IF m \in Runnable(st1) THEN "running" ELSE st1[m]]
            /\ logs' = Ended(IF begun THEN Wrote(lg, Setup, "recipe", resets'[Setup]) ELSE lg,
                             Blocked(st1) \cup (IF nested THEN {Setup} ELSE {}))
    BY ZenonT(90) DEF TickIn
  <1>. DEFINE begun == st[Setup] = "pending"
              nested == begun /\ verdict # "running"
              st1 == [st EXCEPT ![Setup] = verdict]
              opened == IF begun THEN Wrote(lg, Setup, "recipe", resets'[Setup]) ELSE lg
              S == Blocked(st1) \cup (IF nested THEN {Setup} ELSE {})
  <1>1. n \in Nodes /\ n # Setup /\ Setup \in Nodes /\ "recipe" \in Streams
    BY NodeAssumption DEF Nodes, Streams
  <1>2. st1 \in [Nodes -> Status] /\ st1[n] = st[n]
    BY <1>pass, <1>1 DEF Status, Terminal, Failed
  <1>3. status'[n] = IF n \in Blocked(st1) THEN "skipped"
                     ELSE IF n \in Runnable(st1) THEN "running" ELSE st[n]
    BY <1>pass, <1>1, <1>2
  <1>4. n \in Blocked(st1) \/ n \in Runnable(st1) => st[n] = "pending"
    <2>. HIDE DEF st1
    <2>. QED BY <1>1, <1>2, BlockedIs DEF Runnable
  <1>5. opened \in [Nodes -> [Streams -> Log]] /\ Same(lg[n], opened[n])
    <2>1. Said(Wrote(lg, Setup, "recipe", resets'[Setup]), lg, Setup, "recipe", resets'[Setup])
      BY <1>1, Writes
    <2>. QED BY <1>1, <2>1 DEF Said, Same
  <1>6. n \in S <=> n \in Blocked(st1)
    BY <1>1
  <1>7. logs' = Ended(opened, S)
    BY <1>pass
  <1>. HIDE DEF opened, S, st1
  <1>8. /\ logs' \in [Nodes -> [Streams -> Log]]
        /\ logs'[n]["recipe"].ended <=> (n \in Blocked(st1) \/ lg[n]["recipe"].ended)
        /\ logs'[n]["recipe"].by = lg[n]["recipe"].by
    <2>1. /\ Ended(opened, S) \in [Nodes -> [Streams -> Log]]
          /\ \A m \in Nodes, x \in Streams :
                /\ Ended(opened, S)[m][x].ended <=> (m \in S \/ opened[m][x].ended)
                /\ Ended(opened, S)[m][x].by = opened[m][x].by
      BY <1>5, Ends
    <2>. QED BY <1>1, <1>5, <1>6, <1>7, <2>1 DEF Same
  <1>9. lg[n]["recipe"].ended \in BOOLEAN /\ logs'[n]["recipe"].ended \in BOOLEAN
    BY <1>1, <1>8 DEF Log
  <1>10. IF n \in Blocked(st1) THEN Shut(lg[n], logs'[n]) ELSE Same(lg[n], logs'[n])
    BY <1>8, <1>9 DEF Shut, Same
  <1>11. /\ st[n] \in Status /\ status'[n] \in Status
         /\ lg[n] \in [Streams -> Log] /\ logs'[n] \in [Streams -> Log]
    BY <1>1, <1>3, <1>8 DEF Status, Terminal, Failed
  <1>. DEFINE v == Seen(st[n], lg[n], e)
              w == Seen(status'[n], logs'[n], e)
  <1>12. CASE n \in Blocked(st1)
    <2>1. st[n] = "pending" /\ status'[n] = "skipped" /\ Shut(lg[n], logs'[n])
      BY <1>3, <1>4, <1>10, <1>12
    <2>2. w \in Outside!Skip(v)
      BY <1>11, <2>1, SeenMoves
    <2>. QED BY <2>1, <2>2 DEF Passed
  <1>13. CASE n \notin Blocked(st1) /\ n \in Runnable(st1)
    <2>1. st[n] = "pending" /\ status'[n] = "running" /\ Same(lg[n], logs'[n])
      BY <1>3, <1>4, <1>10, <1>13
    <2>2. w \in Outside!Start(v)
      BY <1>11, <2>1, SeenMoves
    <2>. QED BY <2>1, <2>2 DEF Passed
  <1>14. CASE n \notin Blocked(st1) /\ n \notin Runnable(st1)
    <2>1. status'[n] = st[n] /\ Same(lg[n], logs'[n])
      BY <1>3, <1>10, <1>14
    <2>2. Did(status'[n]) = Did(st[n])
      BY <2>1
    <2>3. w = v
      BY <2>1, <2>2, SeenSame
    <2>. QED BY <2>3 DEF Passed
  <1>. QED BY <1>12, <1>13, <1>14

\* What a task has come to, within two moves or, if it has settled, within three.
Within(n, s, lg) ==
    \E a \in Outside!After(AsHeard(n)) : \E b \in Outside!After(a) :
        LET w == Seen(s, lg, resets'[n]) IN
        w = b \/ (s # "pending" /\ w \in Outside!After(b))

\* A handler that takes every task that far and then makes a pass takes a turn.
LEMMA TickTurns ==
    ASSUME NEW st \in [Nodes -> Status], NEW ph, NEW ks, NEW lg \in [Nodes -> [Streams -> Log]],
           NEW was, NEW ws, TickIn(st, ph, ks, lg, was, ws), resets' \in [Nodes -> 0 .. MaxReruns],
           NEW n \in Recipes, Within(n, st[n], lg[n])
    PROVE  Outside!Turn(AsHeard(n), AsHeard(n)')
  <1>. DEFINE v == Seen(st[n], lg[n], resets'[n])
              w == Seen(status'[n], logs'[n], resets'[n])
  <1>1. AsHeard(n)' = w
    BY DEF AsHeard, Seen, Task, Did
  <1>2. Passed(st[n], v, w)
    BY TickMoves
  <1>. HIDE DEF v, w
  <1>3. PICK a \in Outside!After(AsHeard(n)) : \E b \in Outside!After(a) :
           v = b \/ (st[n] # "pending" /\ v \in Outside!After(b))
    BY DEF Within, v
  <1>4. PICK b \in Outside!After(a) : v = b \/ (st[n] # "pending" /\ v \in Outside!After(b))
    BY <1>3
  <1>5. w \in Outside!After(b)
    BY <1>2, <1>4 DEF Passed, Outside!After, Outside!Moves
  <1>. QED BY <1>1, <1>3, <1>4, <1>5 DEF Outside!Turn

\* What is heard of each task goes on by one turn.
Heard == \A n \in Recipes : Outside!Turn(AsHeard(n), AsHeard(n)')

\* What is heard, by its parts.
LEMMA HeardIs ==
    /\ \A n \in Recipes : AsHeard(n) = Seen(status[n], logs[n], resets[n])
    /\ \A n \in Recipes : AsHeard(n)' = Seen(status'[n], logs'[n], resets'[n])
  BY DEF AsHeard, Seen, Task, Did

\* What a line and an end make of the logs of their node, and of no others.
LEMMA LogMoves ==
    ASSUME NEW lg \in [Nodes -> [Streams -> Log]], NEW n \in Nodes, NEW e \in 0 .. MaxReruns
    PROVE  /\ Wrote(lg, n, "recipe", e) \in [Nodes -> [Streams -> Log]]
           /\ Wrote(lg, n, "push", e) \in [Nodes -> [Streams -> Log]]
           /\ Ended(lg, {n}) \in [Nodes -> [Streams -> Log]]
           /\ Unended(lg[n]) => Spoke(lg[n], Wrote(lg, n, "recipe", e)[n], e)
           /\ e \in Wrote(lg, n, "recipe", e)[n]["recipe"].by
           /\ Same(lg[n], Wrote(lg, n, "push", e)[n])
           /\ Shut(lg[n], Ended(lg, {n})[n])
           /\ \A m \in Nodes : m # n => /\ Wrote(lg, n, "recipe", e)[m] = lg[m]
                                        /\ Wrote(lg, n, "push", e)[m] = lg[m]
                                        /\ Ended(lg, {n})[m] = lg[m]
  <1>1. "recipe" \in Streams /\ "push" \in Streams /\ "recipe" # "push"
    BY DEF Streams
  <1>2. /\ Said(Wrote(lg, n, "recipe", e), lg, n, "recipe", e)
        /\ Said(Wrote(lg, n, "push", e), lg, n, "push", e)
    BY <1>1, Writes
  <1>3. \A m \in Nodes : m # n => /\ Wrote(lg, n, "recipe", e)[m] = lg[m]
                                  /\ Wrote(lg, n, "push", e)[m] = lg[m]
                                  /\ Ended(lg, {n})[m] = lg[m]
    BY DEF Wrote, Ended
  <1>4. /\ Ended(lg, {n}) \in [Nodes -> [Streams -> Log]]
        /\ Ended(lg, {n})[n]["recipe"].ended
        /\ Ended(lg, {n})[n]["recipe"].by = lg[n]["recipe"].by
    BY <1>1, Ends
  <1>5. /\ Wrote(lg, n, "recipe", e)[n]["recipe"].by = lg[n]["recipe"].by \cup {e}
        /\ Wrote(lg, n, "recipe", e)[n]["recipe"].ended = lg[n]["recipe"].ended
        /\ Wrote(lg, n, "push", e)[n]["recipe"].by = lg[n]["recipe"].by
        /\ Wrote(lg, n, "push", e)[n]["recipe"].ended = lg[n]["recipe"].ended
    BY <1>1, <1>2 DEF Said
  <1>. QED BY <1>1, <1>2, <1>3, <1>4, <1>5 DEF Said, Same, Spoke, Shut, Unended

\* A lane where no status and no recipe's log has moved is heard as it was.
LEMMA HeardSame ==
    ASSUME \A n \in Recipes : /\ Did(status'[n]) = Did(status[n]) /\ Same(logs[n], logs'[n])
                              /\ resets'[n] = resets[n]
    PROVE  Heard
  <1>1. ASSUME NEW n \in Recipes PROVE AsHeard(n)' = AsHeard(n)
    BY HeardIs, SeenSame
  <1>. QED BY <1>1 DEF Heard, Outside!Turn, Outside!After

\* A handler that moves one node's part and makes a pass.
LEMMA OneTicks ==
    ASSUME NEW n \in Nodes, NEW st \in [Nodes -> Status], NEW ph, NEW ks,
           NEW lg \in [Nodes -> [Streams -> Log]], NEW was, NEW ws,
           TickIn(st, ph, ks, lg, was, ws),
           resets \in [Nodes -> 0 .. MaxReruns], resets' = resets,
           \A m \in Nodes : m # n => st[m] = status[m] /\ lg[m] = logs[m],
           n \in Recipes => Within(n, st[n], lg[n])
    PROVE  Heard
  <1>1. ASSUME NEW m \in Recipes PROVE Within(m, st[m], lg[m])
    <2>1. CASE m = n
      BY <2>1
    <2>2. CASE m # n
      <3>1. st[m] = status[m] /\ lg[m] = logs[m]
        BY <2>2 DEF Nodes
      <3>2. Seen(st[m], lg[m], resets'[m]) = AsHeard(m)
        BY <3>1, HeardIs
      <3>. QED BY <3>2 DEF Within, Outside!After
    <2>. QED BY <2>1, <2>2
  <1>2. ASSUME NEW m \in Recipes PROVE Outside!Turn(AsHeard(m), AsHeard(m)')
    BY <1>1, TickTurns
  <1>. QED BY <1>2 DEF Heard

\* A handler that moves one node's log and makes no pass.
LEMMA OneMoves ==
    ASSUME NEW n \in Nodes, status' = status, resets' = resets,
           \A m \in Nodes : m # n => logs'[m] = logs[m],
           n \in Recipes => AsHeard(n)' \in Outside!After(AsHeard(n))
    PROVE  Heard
  <1>1. ASSUME NEW m \in Recipes PROVE AsHeard(m)' \in Outside!After(AsHeard(m))
    <2>1. CASE m = n
      BY <2>1
    <2>2. CASE m # n
      BY <2>2, HeardIs DEF Nodes, Outside!After
    <2>. QED BY <2>1, <2>2
  <1>. QED BY <1>1 DEF Heard, Outside!Turn, Outside!After

\* What a task is seen as within two moves, or three of one that has settled.
LEMMA Moves1 ==
    ASSUME NEW n \in Recipes, NEW s, NEW lg,
           Seen(s, lg, resets'[n]) \in Outside!After(AsHeard(n))
    PROVE  Within(n, s, lg)
  BY DEF Within, Outside!After

LEMMA Moves2 ==
    ASSUME NEW n \in Recipes, NEW s, NEW lg, NEW a,
           a \in Outside!Moves(AsHeard(n)), Seen(s, lg, resets'[n]) \in Outside!Moves(a)
    PROVE  Within(n, s, lg)
  BY DEF Within, Outside!After

LEMMA Moves3 ==
    ASSUME NEW n \in Recipes, NEW s, NEW lg, NEW a, NEW b, s # "pending",
           a \in Outside!Moves(AsHeard(n)), b \in Outside!Moves(a),
           Seen(s, lg, resets'[n]) \in Outside!Moves(b)
    PROVE  Within(n, s, lg)
  BY DEF Within, Outside!After

\* The types of what is heard.
LEMMA HeardTypes ==
    ASSUME IInv
    PROVE  /\ status \in [Nodes -> Status] /\ logs \in [Nodes -> [Streams -> Log]]
           /\ resets \in [Nodes -> 0 .. MaxReruns]
           /\ Setup \in Nodes /\ Setup \notin Recipes /\ \A n \in Recipes : n \in Nodes
           /\ "recipe" \in Streams /\ "push" \in Streams
  BY NodeAssumption DEF IInv, TypeOK, Nodes, Streams

\* Of a start that holds its task: the task is running, or its verdict is stamped.
LEMMA HoldsHeard ==
    ASSUME IInv, ~disposed, NEW n \in Recipes, NEW g \in DOMAIN kids[n], Current(n, g)
    PROVE  /\ kids[n][g].attempt = resets[n]
           /\ kids[n][g].life = "alive" => status[n] = "running" /\ Unended(logs[n])
           /\ Pushes(kids[n][g]) => status[n] = "running" /\ Unended(logs[n])
           /\ kids[n][g].life # "closed" =>
                 status[n] \in {"running", "ok", "failed"} /\ Unended(logs[n])
           /\ ~Pushes(kids[n][g]) /\ kids[n][g].life = "exited" => status[n] \in {"ok", "failed"}
  <1>1. /\ phase[n] # "none" /\ kids[n][g] = Last(kids[n]) /\ kids[n][g].attempt = resets[n]
        /\ Fits(n, status[n], phase[n], kids[n], logs[n], resets[n])
        /\ phase[n] \in {"running", "settled"} => Unended(logs[n])
    BY HeardTypes, Holds
  <1>2. phase[n] \in Phases
    BY HeardTypes DEF IInv, TypeOK, Phases
  <1>. QED BY <1>1, <1>2 DEF Fits, Phases, Pushes

LEMMA OutputHeard ==
    ASSUME IInv, ~disposed, NEW n \in Recipes, NEW g \in DOMAIN kids[n], Output(n, g)
    PROVE  Heard
  <1>0. /\ n \in Nodes /\ status \in [Nodes -> Status] /\ logs \in [Nodes -> [Streams -> Log]]
        /\ resets \in [Nodes -> 0 .. MaxReruns] /\ resets[n] \in 0 .. MaxReruns
    BY HeardTypes
  <1>1. /\ kids[n][g].life # "closed" /\ Current(n, g)
        /\ logs' = Wrote(logs, n, "recipe", kids[n][g].attempt)
        /\ status' = status /\ resets' = resets
    BY DEF Output
  <1>2. /\ kids[n][g].attempt = resets[n] /\ status[n] \in {"running", "ok", "failed"}
        /\ Unended(logs[n])
    BY <1>1, HoldsHeard
  <1>3. /\ logs' \in [Nodes -> [Streams -> Log]] /\ Spoke(logs[n], logs'[n], resets[n])
        /\ \A m \in Nodes : m # n => logs'[m] = logs[m]
    <2>1. logs' = Wrote(logs, n, "recipe", resets[n])
      BY <1>1, <1>2
    <2>. QED BY <1>0, <1>2, <2>1, LogMoves
  <1>4. Did(status[n]) \in {"running", "done"}
    BY <1>2 DEF Did
  <1>5. Seen(status[n], logs'[n], resets[n]) \in Outside!Write(Seen(status[n], logs[n], resets[n]))
    BY <1>0, <1>3, <1>4, SeenMoves
  <1>6. AsHeard(n)' \in Outside!After(AsHeard(n))
    BY <1>1, <1>5, HeardIs DEF Outside!After, Outside!Moves
  <1>. QED BY <1>0, <1>1, <1>3, <1>6, OneMoves

LEMMA SpawnFailsHeard ==
    ASSUME IInv, ~disposed, NEW n \in Recipes, NEW g \in DOMAIN kids[n], SpawnFails(n, g)
    PROVE  Heard
  <1>. DEFINE ks == [kids EXCEPT ![n][g].life = "closed", ![n][g].group = "gone"]
              wrote == Wrote(logs, n, "recipe", resets[n])
              ended == Ended(wrote, {n})
              st == [status EXCEPT ![n] = "failed"]
              e == resets[n]
  <1>0. /\ n \in Nodes /\ status \in [Nodes -> Status] /\ logs \in [Nodes -> [Streams -> Log]]
        /\ resets \in [Nodes -> 0 .. MaxReruns] /\ resets[n] \in 0 .. MaxReruns
    BY HeardTypes
  <1>1. kids[n][g].life = "alive" /\ resets' = resets
    BY DEF SpawnFails
  <1>2. CASE ~Current(n, g)
    <2>1. status' = status /\ logs' = logs
      BY <1>2 DEF SpawnFails, NoTick
    <2>. QED BY <1>1, <2>1, HeardSame DEF Same
  <1>3. CASE Current(n, g)
    <2>1. kids[n][g].attempt = e /\ status[n] = "running" /\ Unended(logs[n]) 
      BY <1>1, <1>3, HoldsHeard
    <2>2. Tick(st, [phase EXCEPT ![n] = "closed"], ks, ended)
      <3>1. Tick(st, [phase EXCEPT ![n] = "closed"], ks,
                 Ended(Wrote(logs, n, "recipe", kids[n][g].attempt), {n}))
        BY <1>3 DEF SpawnFails
      <3>. QED BY <2>1, <3>1, Zenon
    <2>3. TickIn(st, [phase EXCEPT ![n] = "closed"], ks, ended, tree, trees)
      BY <2>2 DEF Tick
    <2>4. /\ wrote \in [Nodes -> [Streams -> Log]] /\ Spoke(logs[n], wrote[n], e)
          /\ \A m \in Nodes : m # n => wrote[m] = logs[m]
      BY <1>0, <2>1, LogMoves
    <2>. HIDE DEF wrote, ks
    <2>5. /\ ended \in [Nodes -> [Streams -> Log]] /\ Shut(wrote[n], ended[n])
          /\ \A m \in Nodes : m # n => ended[m] = wrote[m]
      BY <1>0, <2>4, LogMoves
    <2>. HIDE DEF ended
    <2>6. /\ st \in [Nodes -> Status] /\ st[n] = "failed"
          /\ \A m \in Nodes : m # n => st[m] = status[m]
      BY <1>0 DEF Status, Terminal, Failed
    <2>. HIDE DEF st
    <2>7. "running" \in Status /\ "failed" \in Status /\ Did("running") = "running"
          /\ Did("failed") = "done"
      BY DEF Status, Terminal, Failed, Did
    <2>8. /\ logs[n] \in [Streams -> Log] /\ wrote[n] \in [Streams -> Log]
          /\ ended[n] \in [Streams -> Log]
      BY <1>0, <2>4, <2>5
    <2>9. Seen("running", wrote[n], e) \in Outside!Write(Seen("running", logs[n], e))
      BY <2>4, <2>7, <2>8, SeenMoves
    <2>10. Seen("failed", wrote[n], e) \in Outside!Exit(Seen("running", wrote[n], e))
      BY <2>7, <2>8, SeenMoves DEF Same
    <2>11. Seen("failed", ended[n], e) \in Outside!EndLog(Seen("failed", wrote[n], e))
      BY <2>5, <2>7, <2>8, SeenMoves
    <2>12. Within(n, st[n], ended[n])
      <3>1. AsHeard(n) = Seen("running", logs[n], e) /\ resets'[n] = e
        BY <1>1, <2>1, HeardIs
      <3>2. /\ Seen("running", wrote[n], e) \in Outside!Moves(AsHeard(n))
            /\ Seen("failed", wrote[n], e) \in Outside!Moves(Seen("running", wrote[n], e))
            /\ Seen("failed", ended[n], e) \in Outside!Moves(Seen("failed", wrote[n], e))
        BY <2>9, <2>10, <2>11, <3>1 DEF Outside!Moves
      <3>3. Seen(st[n], ended[n], resets'[n]) = Seen("failed", ended[n], e)
        BY <2>6, <3>1
      <3>. QED BY <2>6, <3>2, <3>3, Moves3, Zenon
    <2>13. \A m \in Nodes : m # n => st[m] = status[m] /\ ended[m] = logs[m]
      BY <2>4, <2>5, <2>6
    <2>. QED BY <1>0, <1>1, <2>3, <2>5, <2>6, <2>12, <2>13, OneTicks
  <1>. QED BY <1>2, <1>3

LEMMA ExitHeard ==
    ASSUME IInv, ~disposed, NEW n \in Recipes, NEW g \in DOMAIN kids[n],
           NEW ok \in BOOLEAN, NEW stray, Exit(n, g, ok, stray)
    PROVE  Heard
  <1>. DEFINE st == [status EXCEPT ![n] = IF ok THEN "ok" ELSE "failed"]
  <1>1. kids[n][g].life = "alive" /\ resets' = resets
    BY DEF Exit
  <1>2. CASE ~Current(n, g)
    <2>1. status' = status /\ logs' = logs
      BY <1>2 DEF Exit, NoTick
    <2>. QED BY <1>1, <2>1, HeardSame DEF Same
  <1>3. CASE Current(n, g)
    <2>1. status[n] = "running"
      BY <1>1, <1>3, HoldsHeard
    <2>2. Tick(st, [phase EXCEPT ![n] = "settled"], Exited(n, g, stray), logs)
      BY <1>3 DEF Exit
    <2>3. TickIn(st, [phase EXCEPT ![n] = "settled"], Exited(n, g, stray), logs, tree, trees)
      BY <2>2 DEF Tick
    <2>4. /\ st \in [Nodes -> Status] /\ st[n] \in {"ok", "failed"}
          /\ \A m \in Nodes : m # n => st[m] = status[m]
      BY HeardTypes DEF Status, Terminal, Failed
    <2>. HIDE DEF st
    <2>5. st[n] \in Status /\ Did(st[n]) = "done" /\ "running" \in Status
      BY <2>4, HeardTypes DEF Did, Status, Terminal, Failed
    <2>6. Seen(st[n], logs[n], resets[n]) \in Outside!Exit(Seen("running", logs[n], resets[n]))
      BY <2>5, HeardTypes, SeenMoves DEF Same
    <2>7. Within(n, st[n], logs[n])
      BY <1>1, <2>1, <2>6, HeardIs, Moves1 DEF Outside!After, Outside!Moves
    <2>. QED BY <1>1, <2>3, <2>4, <2>7, HeardTypes, OneTicks
  <1>. QED BY <1>2, <1>3

LEMMA ExitToPushHeard ==
    ASSUME IInv, ~disposed, NEW n \in Recipes, NEW g \in DOMAIN kids[n],
           NEW stray, NEW readable, ExitToPush(n, g, stray, readable)
    PROVE  Heard
  <1>0. /\ n \in Nodes /\ status \in [Nodes -> Status] /\ logs \in [Nodes -> [Streams -> Log]]
        /\ resets \in [Nodes -> 0 .. MaxReruns] /\ resets[n] \in 0 .. MaxReruns
    BY HeardTypes
  <1>. DEFINE line == Wrote(logs, n, "recipe", resets[n])
              sends == Wrote(logs, n, "push", resets[n])
  <1>1. kids[n][g].life = "alive" /\ Current(n, g) /\ resets' = resets /\ status' = status
    BY DEF ExitToPush, NoTick
  <1>2. kids[n][g].attempt = resets[n] /\ status[n] = "running" /\ Unended(logs[n])
    BY <1>1, HoldsHeard
  <1>3. logs' \in {line, sends, logs}
    <2>1. logs' \in {Wrote(logs, n, "recipe", kids[n][g].attempt),
                     Wrote(logs, n, "push", kids[n][g].attempt), logs}
      BY DEF ExitToPush, NoTick
    <2>. QED BY <1>2, <2>1
  <1>4. /\ line \in [Nodes -> [Streams -> Log]] /\ Spoke(logs[n], line[n], resets[n])
        /\ Same(logs[n], sends[n])
        /\ \A m \in Nodes : m # n => line[m] = logs[m] /\ sends[m] = logs[m]
    BY <1>0, <1>2, LogMoves
  <1>. HIDE DEF line, sends
  <1>5. "running" \in Status /\ Did("running") = "running" /\ line[n] \in [Streams -> Log]
    BY <1>0, <1>4 DEF Status, Did
  <1>6. AsHeard(n)' \in Outside!After(AsHeard(n))
    <2>1. CASE logs' = line
      <3>1. Seen("running", line[n], resets[n]) \in Outside!Write(Seen("running", logs[n], resets[n]))
        BY <1>0, <1>4, <1>5, SeenMoves
      <3>. QED BY <1>1, <1>2, <2>1, <3>1, HeardIs DEF Outside!After, Outside!Moves
    <2>2. CASE logs' = sends \/ logs' = logs
      <3>1. Same(logs[n], logs'[n])
        BY <1>4, <2>2 DEF Same
      <3>2. AsHeard(n)' = AsHeard(n)
        BY <1>1, <3>1, HeardIs, SeenSame
      <3>. QED BY <3>2 DEF Outside!After
    <2>. QED BY <1>3, <2>1, <2>2
  <1>7. \A m \in Nodes : m # n => logs'[m] = logs[m]
    BY <1>3, <1>4
  <1>. QED BY <1>0, <1>1, <1>6, <1>7, OneMoves

LEMMA CloseHeard ==
    ASSUME IInv, ~disposed, NEW n \in Recipes, NEW g \in DOMAIN kids[n], Close(n, g)
    PROVE  Heard
  <1>0. /\ n \in Nodes /\ status \in [Nodes -> Status] /\ logs \in [Nodes -> [Streams -> Log]]
        /\ resets \in [Nodes -> 0 .. MaxReruns] /\ resets[n] \in 0 .. MaxReruns
    BY HeardTypes
  <1>. DEFINE end == Ended(logs, {n})
  <1>1. kids[n][g].life = "exited" /\ resets' = resets /\ status' = status
    BY DEF Close, NoTick
  <1>2. logs' = logs \/ (Current(n, g) /\ ~Pushes(kids[n][g]) /\ logs' = end)
    BY DEF Close, NoTick, Pushes
  <1>3. CASE logs' = logs
    BY <1>1, <1>3, HeardSame DEF Same
  <1>4. CASE Current(n, g) /\ ~Pushes(kids[n][g]) /\ logs' = end
    <2>1. status[n] \in {"ok", "failed"}
      BY <1>1, <1>4, HoldsHeard
    <2>2. /\ end \in [Nodes -> [Streams -> Log]] /\ Shut(logs[n], end[n])
          /\ \A m \in Nodes : m # n => end[m] = logs[m]
      BY <1>0, LogMoves
    <2>. HIDE DEF end
    <2>3. Did(status[n]) = "done" /\ status[n] \in Status /\ end[n] \in [Streams -> Log]
      BY <1>0, <2>1, <2>2 DEF Did
    <2>4. Seen(status[n], end[n], resets[n]) \in Outside!EndLog(Seen(status[n], logs[n], resets[n]))
      BY <1>0, <2>2, <2>3, SeenMoves
    <2>5. AsHeard(n)' \in Outside!After(AsHeard(n))
      BY <1>1, <1>4, <2>4, HeardIs DEF Outside!After, Outside!Moves
    <2>. QED BY <1>0, <1>1, <1>4, <2>2, <2>5, OneMoves
  <1>. QED BY <1>2, <1>3, <1>4

LEMMA PushSaysHeard ==
    ASSUME IInv, ~disposed, NEW n \in Recipes, NEW g \in DOMAIN kids[n], PushSays(n, g)
    PROVE  Heard
  <1>0. /\ n \in Nodes /\ logs \in [Nodes -> [Streams -> Log]] /\ resets[n] \in 0 .. MaxReruns
    BY HeardTypes
  <1>1. /\ Current(n, g) /\ resets' = resets /\ status' = status
        /\ logs' = Wrote(logs, n, "push", kids[n][g].attempt)
    BY DEF PushSays
  <1>2. logs' = Wrote(logs, n, "push", resets[n])
    BY <1>1, HoldsHeard
  <1>3. Same(logs[n], logs'[n]) /\ \A m \in Nodes : m # n => logs'[m] = logs[m]
    BY <1>0, <1>2, LogMoves
  <1>4. \A m \in Recipes : Same(logs[m], logs'[m])
    BY <1>3 DEF Same, Nodes
  <1>. QED BY <1>1, <1>4, HeardSame

LEMMA PushEndsHeard ==
    ASSUME IInv, ~disposed, NEW n \in Recipes, NEW g \in DOMAIN kids[n], NEW served,
           PushEnds(n, g, served)
    PROVE  Heard
  <1>0. /\ n \in Nodes /\ status \in [Nodes -> Status] /\ logs \in [Nodes -> [Streams -> Log]]
        /\ resets \in [Nodes -> 0 .. MaxReruns] /\ resets[n] \in 0 .. MaxReruns
    BY HeardTypes
  <1>. DEFINE ok == served = kids[n][g].sending
              ks == [kids EXCEPT ![n][g].pushing = IF @ = "blind" THEN "skipped" ELSE "done"]
              verdict == IF ok THEN "ok" ELSE "failed"
              lg == IF ok THEN logs ELSE Wrote(logs, n, "push", kids[n][g].attempt)
              end == Ended(lg, {n})
              st == [status EXCEPT ![n] = verdict]
              ph == [phase EXCEPT ![n] = "closed"]
  <1>1. Pushes(kids[n][g]) /\ resets' = resets
    BY DEF PushEnds, Pushes
  <1>2. CASE ~Current(n, g)
    <2>1. status' = status /\ logs' = logs
      BY <1>2 DEF PushEnds, NoTick
    <2>. QED BY <1>1, <2>1, HeardSame DEF Same
  <1>3. CASE Current(n, g)
    <2>1. kids[n][g].attempt = resets[n] /\ status[n] = "running"
      BY <1>1, <1>3, HoldsHeard
    <2>2. Stamp(n, g, verdict, ks, lg)
      BY <1>3 DEF PushEnds
    <2>3. /\ lg \in [Nodes -> [Streams -> Log]] /\ Same(logs[n], lg[n])
          /\ \A m \in Nodes : m # n => lg[m] = logs[m]
      <3>1. CASE ok
        BY <1>0, <3>1 DEF Same
      <3>2. CASE ~ok
        <4>1. lg = Wrote(logs, n, "push", resets[n])
          BY <2>1, <3>2
        <4>. HIDE DEF lg
        <4>. QED BY <1>0, <4>1, LogMoves
      <3>. QED BY <3>1, <3>2
    <2>. HIDE DEF lg
    <2>4. /\ end \in [Nodes -> [Streams -> Log]] /\ Shut(lg[n], end[n])
          /\ \A m \in Nodes : m # n => end[m] = lg[m]
      BY <1>0, <2>3, LogMoves
    <2>. HIDE DEF end
    <2>5. /\ st \in [Nodes -> Status] /\ st[n] \in {"ok", "failed"}
          /\ \A m \in Nodes : m # n => st[m] = status[m]
      BY <1>0 DEF Status, Terminal, Failed
    <2>6. \/ TickIn(st, phase, ks, lg, tree, trees)
          \/ TickIn(st, ph, ks, end, tree, trees)
      BY <2>2 DEF Stamp, Tick, end
    <2>. HIDE DEF st, ph, ks, verdict
    <2>7. /\ st[n] \in Status /\ st[n] # "pending" /\ "running" \in Status /\ Did(st[n]) = "done"
          /\ logs[n] \in [Streams -> Log] /\ lg[n] \in [Streams -> Log] /\ end[n] \in [Streams -> Log]
      BY <1>0, <2>3, <2>4, <2>5 DEF Did, Status
    <2>8. Seen(st[n], lg[n], resets[n]) \in Outside!Exit(Seen("running", logs[n], resets[n]))
      BY <2>3, <2>7, SeenMoves
    <2>9. Seen(st[n], end[n], resets[n]) \in Outside!EndLog(Seen(st[n], lg[n], resets[n]))
      BY <2>4, <2>7, SeenMoves
    <2>10. AsHeard(n) = Seen("running", logs[n], resets[n]) /\ resets'[n] = resets[n]
      BY <1>1, <2>1, HeardIs
    <2>11. Within(n, st[n], lg[n])
      BY <2>8, <2>10, Moves1 DEF Outside!After, Outside!Moves
    <2>12. Within(n, st[n], end[n])
      <3>1. /\ Seen(st[n], lg[n], resets[n]) \in Outside!Moves(AsHeard(n))
            /\ Seen(st[n], end[n], resets'[n]) \in Outside!Moves(Seen(st[n], lg[n], resets[n]))
        BY <2>8, <2>9, <2>10 DEF Outside!Moves
      <3>. QED BY <3>1, Moves2
    <2>13. \A m \in Nodes : m # n => /\ st[m] = status[m] /\ lg[m] = logs[m]
                                     /\ end[m] = logs[m]
      BY <2>3, <2>4, <2>5
    <2>14. CASE TickIn(st, phase, ks, lg, tree, trees)
      BY <1>0, <1>1, <2>3, <2>5, <2>11, <2>13, <2>14, OneTicks
    <2>15. CASE TickIn(st, ph, ks, end, tree, trees)
      BY <1>0, <1>1, <2>4, <2>5, <2>12, <2>13, <2>15, OneTicks
    <2>. QED BY <2>6, <2>14, <2>15
  <1>. QED BY <1>2, <1>3

LEMMA CancelHeard ==
    ASSUME IInv, ~disposed, NEW n \in Nodes, Cancel(n)
    PROVE  Heard
  <1>0. /\ status \in [Nodes -> Status] /\ logs \in [Nodes -> [Streams -> Log]]
        /\ resets \in [Nodes -> 0 .. MaxReruns] /\ resets[n] \in 0 .. MaxReruns
    BY HeardTypes
  <1>. DEFINE st == [status EXCEPT ![n] = "cancelled"]
              ph == [phase EXCEPT ![n] = "none"]
              ks == Superseded(kids, {n})
              line == Wrote(logs, n, "recipe", resets[n])
              end == Ended(line, {n})
  <1>1. /\ status[n] \in {"pending", "running"} /\ resets' = resets
        /\ TickIn(st, ph, ks, end, tree, trees)
    BY DEF Cancel, Tick
  <1>2. /\ line \in [Nodes -> [Streams -> Log]] /\ resets[n] \in line[n]["recipe"].by
        /\ \A m \in Nodes : m # n => line[m] = logs[m]
    BY <1>0, LogMoves
  <1>. HIDE DEF line
  <1>3. /\ end \in [Nodes -> [Streams -> Log]] /\ Shut(line[n], end[n])
        /\ \A m \in Nodes : m # n => end[m] = line[m]
    BY <1>0, <1>2, LogMoves
  <1>. HIDE DEF end
  <1>4. LastWord(end[n], resets[n])
    BY <1>2, <1>3 DEF Shut, LastWord
  <1>5. /\ st \in [Nodes -> Status] /\ st[n] = "cancelled"
        /\ \A m \in Nodes : m # n => st[m] = status[m]
    BY <1>0 DEF Status, Terminal, Failed
  <1>. HIDE DEF st, ph, ks
  <1>6. /\ status[n] \in Status /\ st[n] \in Status
        /\ logs[n] \in [Streams -> Log] /\ end[n] \in [Streams -> Log]
    BY <1>0, <1>3, <1>5
  <1>7. Seen(st[n], end[n], resets[n]) \in Outside!Cancel(Seen(status[n], logs[n], resets[n]))
    BY <1>1, <1>4, <1>5, <1>6, SeenMoves
  <1>8. n \in Recipes => Within(n, st[n], end[n])
    BY <1>1, <1>7, HeardIs, Moves1 DEF Outside!After, Outside!Moves
  <1>9. \A m \in Nodes : m # n => st[m] = status[m] /\ end[m] = logs[m]
    BY <1>2, <1>3, <1>5
  <1>. QED BY <1>0, <1>1, <1>3, <1>5, <1>8, <1>9, OneTicks

LEMMA RerunHeard ==
    ASSUME IInv, ~disposed, NEW n \in Nodes, Rerun(n)
    PROVE  Heard
  <1>. DEFINE all == ToReset(n)
              st == Pending(all)
              ph == [m \in Nodes |-> IF m \in all THEN "none" ELSE phase[m]]
              ks == Superseded(kids, all)
              lg == Reset(logs, all)
  <1>0. /\ status \in [Nodes -> Status] /\ logs \in [Nodes -> [Streams -> Log]]
        /\ resets \in [Nodes -> 0 .. MaxReruns] /\ \A m \in Recipes : m \in Nodes
        /\ "recipe" \in Streams
    BY HeardTypes
  <1>1. /\ \A m \in Nodes : resets[m] < MaxReruns
        /\ resets' = [m \in Nodes |-> IF m \in all THEN resets[m] + 1 ELSE resets[m]]
        /\ TickIn(st, ph, ks, lg, tree, trees)
    BY DEF Rerun, Tick
  <1>2. resets' \in [Nodes -> 0 .. MaxReruns]
    BY <1>0, <1>1, NodeAssumption
  <1>. HIDE DEF all
  <1>3. st \in [Nodes -> Status] /\ \A m \in Nodes : st[m] = IF m \in all THEN "pending" ELSE status[m]
    BY <1>0 DEF Pending, Status, Terminal, Failed
  <1>4. EmptyLog \in Log /\ ~EmptyLog.ended /\ EmptyLog.by = {}
    BY DEF EmptyLog, Log
  <1>5. \A m \in Nodes : lg[m] = IF m \in all THEN [x \in Streams |-> EmptyLog] ELSE logs[m]
    BY DEF Reset
  <1>6. lg \in [Nodes -> [Streams -> Log]]
    <2>1. lg = [m \in Nodes |-> lg[m]]
      BY DEF Reset
    <2>. HIDE DEF lg
    <2>2. ASSUME NEW m \in Nodes PROVE lg[m] \in [Streams -> Log]
      BY <1>0, <1>4, <1>5
    <2>. QED BY <2>1, <2>2
  <1>. HIDE DEF st, ph, ks, lg
  <1>7. ASSUME NEW m \in Recipes PROVE Within(m, st[m], lg[m])
    <2>1. /\ m \in Nodes /\ st[m] \in Status /\ status[m] \in Status
          /\ lg[m] \in [Streams -> Log] /\ logs[m] \in [Streams -> Log]
      BY <1>0, <1>3, <1>6
    <2>2. CASE m \in all
      <3>1. st[m] = "pending" /\ Opened(lg[m]) /\ resets'[m] = resets[m] + 1
        BY <1>0, <1>1, <1>3, <1>4, <1>5, <2>1, <2>2 DEF Opened
      <3>2. Seen(st[m], lg[m], resets[m] + 1) \in Outside!Rerun(Seen(status[m], logs[m], resets[m]))
        BY <2>1, <3>1, SeenMoves
      <3>. QED BY <3>1, <3>2, HeardIs, Moves1 DEF Outside!After, Outside!Moves
    <2>3. CASE m \notin all
      <3>1. st[m] = status[m] /\ lg[m] = logs[m] /\ resets'[m] = resets[m]
        BY <1>1, <1>3, <1>5, <2>1, <2>3
      <3>. QED BY <3>1, HeardIs, Moves1 DEF Outside!After
    <2>. QED BY <2>2, <2>3
  <1>8. ASSUME NEW m \in Recipes PROVE Outside!Turn(AsHeard(m), AsHeard(m)')
    BY <1>1, <1>2, <1>3, <1>6, <1>7, TickTurns
  <1>. QED BY <1>8 DEF Heard

\* Tasks that configure or extend brings are heard as they were before: not yet started.
LEMMA BroughtHeard ==
    ASSUME IInv, NEW S \in SUBSET Nodes, \A m \in S : status[m] = "absent",
           Tick(Pending(S), phase, kids, logs), resets' = resets
    PROVE  Heard
  <1>. DEFINE st == Pending(S)
  <1>0. /\ status \in [Nodes -> Status] /\ logs \in [Nodes -> [Streams -> Log]]
        /\ resets' \in [Nodes -> 0 .. MaxReruns] /\ \A m \in Recipes : m \in Nodes
    BY HeardTypes
  <1>1. st \in [Nodes -> Status] /\ \A m \in Nodes : st[m] = IF m \in S THEN "pending" ELSE status[m]
    BY <1>0 DEF Pending, Status, Terminal, Failed
  <1>2. TickIn(st, phase, kids, logs, tree, trees)
    BY DEF Tick
  <1>. HIDE DEF st
  <1>3. ASSUME NEW m \in Recipes PROVE Within(m, st[m], logs[m])
    <2>1. Did(st[m]) = Did(status[m]) /\ Same(logs[m], logs[m])
      BY <1>0, <1>1 DEF Did, Same
    <2>2. Seen(st[m], logs[m], resets[m]) = Seen(status[m], logs[m], resets[m])
      BY <2>1, SeenSame
    <2>. QED BY <2>2, HeardIs, Moves1 DEF Outside!After
  <1>4. ASSUME NEW m \in Recipes PROVE Outside!Turn(AsHeard(m), AsHeard(m)')
    BY <1>0, <1>1, <1>2, <1>3, TickTurns
  <1>. QED BY <1>4 DEF Heard

LEMMA ConfigureHeard ==
    ASSUME IInv, ~disposed, NEW from, Configure(from)
    PROVE  Heard
  <1>. DEFINE S == Initial \cup {Setup}
  <1>1. mode = "no" /\ resets' = resets /\ Tick(Pending(S), phase, kids, logs)
    BY DEF Configure
  <1>2. S \in SUBSET Nodes
    BY NodeAssumption DEF Nodes
  <1>3. \A m \in S : status[m] = "absent"
    BY <1>1, <1>2 DEF IInv, Live
  <1>. HIDE DEF S
  <1>. QED BY <1>1, <1>2, <1>3, BroughtHeard

LEMMA ExtendHeard ==
    ASSUME IInv, ~disposed, Extend
    PROVE  Heard
  <1>. DEFINE S == {r \in Recipes : status[r] = "absent"}
  <1>1. resets' = resets /\ Tick(Pending(S), phase, kids, logs)
    BY DEF Extend
  <1>2. S \in SUBSET Nodes /\ \A m \in S : status[m] = "absent"
    BY DEF Nodes
  <1>. HIDE DEF S
  <1>. QED BY <1>1, <1>2, BroughtHeard

\* The setup node's own words and verdict are of no task.
LEMMA SetupHeard ==
    ASSUME IInv, ~disposed, SetupStep
    PROVE  Heard
  <1>0. /\ status \in [Nodes -> Status] /\ logs \in [Nodes -> [Streams -> Log]]
        /\ resets \in [Nodes -> 0 .. MaxReruns] /\ Setup \in Nodes /\ Setup \notin Recipes
        /\ \A m \in Recipes : m \in Nodes
    BY HeardTypes
  <1>1. ASSUME NEW g \in DOMAIN kids[Setup], PrepareSays(g) PROVE Heard
    <2>1. /\ status' = status /\ resets' = resets
          /\ \A m \in Recipes : logs'[m] = logs[m]
      BY <1>0, <1>1 DEF PrepareSays, Wrote
    <2>. QED BY <2>1, HeardSame DEF Same
  <1>2. ASSUME NEW g \in DOMAIN kids[Setup], NEW ok \in BOOLEAN, PrepareEnds(g, ok) PROVE Heard
    <2>. DEFINE ks == [kids EXCEPT ![Setup][g].life = "closed"]
                st == [status EXCEPT ![Setup] = IF ok THEN "ok" ELSE "failed"]
                ph == [phase EXCEPT ![Setup] = "closed"]
                lg == Ended(logs, {Setup})
                t == IF ok THEN g ELSE tree
                ws == IF ok THEN trees \cup {g} ELSE trees
    <2>1. resets' = resets
      BY <1>2 DEF PrepareEnds
    <2>2. CASE ~Current(Setup, g)
      <3>1. status' = status /\ logs' = logs
        BY <1>2, <2>2 DEF PrepareEnds, NoTick
      <3>. QED BY <2>1, <3>1, HeardSame DEF Same
    <2>3. CASE Current(Setup, g)
      <3>1. TickIn(st, ph, ks, lg, t, ws)
        BY <1>2, <2>3 DEF PrepareEnds
      <3>2. st \in [Nodes -> Status] /\ \A m \in Nodes : m # Setup => st[m] = status[m]
        BY <1>0 DEF Status, Terminal, Failed
      <3>3. lg \in [Nodes -> [Streams -> Log]] /\ \A m \in Nodes : m # Setup => lg[m] = logs[m]
        <4>1. lg \in [Nodes -> [Streams -> Log]]
          BY <1>0, Ends
        <4>. QED BY <4>1 DEF Ended
      <3>. HIDE DEF st, ph, ks, lg, t, ws
      <3>4. \A m \in Nodes : m # Setup => st[m] = status[m] /\ lg[m] = logs[m]
        BY <3>2, <3>3
      <3>. QED BY <1>0, <2>1, <3>1, <3>2, <3>3, <3>4, OneTicks
    <2>. QED BY <2>2, <2>3
  <1>. QED BY <1>1, <1>2 DEF SetupStep

\* What the coordinator hears of a task follows upon what it heard before.
LEMMA NextHeard ==
    ASSUME IInv, Next
    PROVE  Heard
  <1>1. ASSUME ~disposed, Call PROVE Heard
    <2>1. CASE Dispose
      <3>1. status' = status /\ logs' = logs /\ resets' = resets
        BY <2>1 DEF Dispose
      <3>. QED BY <3>1, HeardSame DEF Same
    <2>. QED BY <1>1, <2>1, ConfigureHeard, ExtendHeard, RerunHeard, CancelHeard DEF Call
  <1>2. ASSUME ~disposed, NEW n \in Recipes, NEW g \in DOMAIN kids[n], ChildStep(n, g) PROVE Heard
    <2>1. CASE Escalate(n, g)
      <3>1. status' = status /\ logs' = logs /\ resets' = resets
        BY <2>1 DEF Escalate
      <3>. QED BY <3>1, HeardSame DEF Same
    <2>. QED BY <1>2, <2>1, OutputHeard, SpawnFailsHeard, ExitHeard, ExitToPushHeard, CloseHeard,
                PushSaysHeard, PushEndsHeard DEF ChildStep
  <1>. QED BY <1>1, <1>2, SetupHeard DEF Next

-----------------------------------------------------------------------------
(* The theorems                                                            *)

\* Through every call and every event of a child the lane keeps the invariant
\* (runner.ts, reap.ts, logTail.ts and pushResults.ts together).
THEOREM Invariance == Spec => []IInv
  <1>1. Init => IInv
    BY InitHolds
  <1>2. IInv /\ [Next]_vars => IInv'
    BY NextKeeps
  <1>. QED BY <1>1, <1>2, PTL DEF Spec

\* The lane is sound: typed, nothing is appended to a log that has ended, and no
\* node is started more often than it was configured or reset (runner.ts tick).
THEOREM LaneIsSound == Spec => []Inv
  <1>1. IInv => Inv
    BY DEF IInv, Kept, Inv, NeverWritesPastEnd
  <1>. QED BY <1>1, Invariance, PTL

\* A log never holds the words of another attempt than the node's present one
\* (runner.ts isCurrent, logTail.ts reset).
THEOREM OwnWordsOnly == Spec => []LogOfThisAttempt
  <1>1. IInv => LogOfThisAttempt
    BY DEF IInv, Kept
  <1>. QED BY <1>1, Invariance, PTL

\* Every handler leaves the lane at the fixed point of tick (runner.ts): nothing is
\* runnable and nothing blocked is pending, for any needs without a circle.
THEOREM NothingWaits == Spec => []AtRest
  <1>1. IInv => AtRest
    BY DEF IInv, Kept
  <1>. QED BY <1>1, Invariance, PTL

\* What is running or green ran in the present workspace, and the output of a
\* green pusher is served (pushResults.ts).
THEOREM GreenSpeaksTrue == Spec => []GreenIsTrue
  <1>1. IInv => GreenIsTrue
    <2>. SUFFICES ASSUME IInv PROVE RanInThisTree /\ GreenMeansWarmed
      BY DEF GreenIsTrue
    <2>1. RanInThisTree
      BY DEF IInv, Live, Sound, Placed, RanInThisTree, Last
    <2>. QED BY <2>1 DEF IInv, Kept
  <1>. QED BY <1>1, Invariance, PTL

\* No process group outlives the lane (reap.ts).
THEOREM NobodySurvives == Spec => []NoSurvivors
  <1>1. IInv => NoSurvivors
    BY DEF IInv, Kept
  <1>. QED BY <1>1, Invariance, PTL

\* A verdict is a node's last until a rerun resets it (runner.ts).
THEOREM VerdictsAreFinal == Spec => TerminalIsFinal
  <1>1. IInv /\ [Next]_vars =>
          [\A n \in Nodes : status[n] \in Terminal /\ resets'[n] = resets[n]
                              => status'[n] = status[n]]_vars
    BY NextKeeps
  <1>. QED BY <1>1, Invariance, PTL DEF Spec, TerminalIsFinal

\* The lane is one that LaneNode allows: whatever its calls and its children do, what
\* is heard of a task is a few of its moves on from what was heard (runner.ts tick,
\* stamp, cancel, rerun; logTail.ts).
THEOREM LaneIsHeard == Spec => ImplementsLane
  <1>1. Init => Outside!Init
    <2>. SUFFICES ASSUME Init, NEW n \in Recipes PROVE AsHeard(n) = Outside!Fresh(0)
      BY DEF Outside!Init
    <2>1. n \in Nodes /\ "recipe" \in Streams
      BY DEF Nodes, Streams
    <2>2. status[n] = "absent" /\ resets[n] = 0 /\ logs[n]["recipe"] = EmptyLog
      BY <2>1 DEF Init
    <2>3. EmptyLog.by = {} /\ EmptyLog.ended = FALSE
      BY DEF EmptyLog
    <2>4. (resets[n] \in logs[n]["recipe"].by) = FALSE
      BY <2>2, <2>3
    <2>. QED BY <2>2, <2>3, <2>4 DEF AsHeard, Outside!Fresh
  <1>2. IInv /\ [Next]_vars => [Outside!Next]_[n \in Recipes |-> AsHeard(n)]
    <2>. SUFFICES ASSUME IInv, [Next]_vars
                  PROVE  \/ Outside!Next
                         \/ [n \in Recipes |-> AsHeard(n)]' = [n \in Recipes |-> AsHeard(n)]
      OBVIOUS
    <2>1. CASE Next
      <3>1. Heard
        BY <2>1, NextHeard
      <3>. QED BY <3>1 DEF Heard, Outside!Next
    <2>2. CASE UNCHANGED vars
      BY <2>2 DEF vars, nodeVars, AsHeard
    <2>. QED BY <2>1, <2>2
  <1>. QED BY <1>1, <1>2, Invariance, PTL DEF Spec, ImplementsLane, Outside!Spec

\* What is heard of a task follows upon what was heard before, and of its verdicts
\* the first holds until a reset (runner.ts).
THEOREM HeardFollows == Spec => HeardInOrder
  BY VerdictsAreFinal, LaneIsHeard, PTL DEF HeardInOrder
=============================================================================
