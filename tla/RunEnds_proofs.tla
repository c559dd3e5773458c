--------------------------- MODULE RunEnds_proofs ---------------------------
(***************************************************************************)
(* How a run ends, and what the world is told of it.                       *)
(*                                                                         *)
(* StatusPoster: for every set of contexts, every order of posts, sends    *)
(* and failures, no status a living run owes is forgotten, a context that  *)
(* none of its nodes reached is never written, and once the poster has     *)
(* closed GitHub shows the truth or the record says what is owed.          *)
(*                                                                         *)
(* CheckoutRun and SettleWait: for every number of runs in a checkout, of  *)
(* kills, failed writes, lost links and reruns, an ordinal that was seen   *)
(* is one run's, a settled verdict is true of the run it names, and no run *)
(* that holds its lock is reported dead.                                   *)
(***************************************************************************)
EXTENDS StatusPoster, SettleWait, SequenceTheorems, FiniteSetTheorems,
        WellFoundedInduction, TLAPS

(***************************************************************************)
(* The statuses.                                                           *)
(***************************************************************************)
Finished == {"ok", "bad", "gone"}

\* A node and what its own transitions posted last.
Nodes ==
    \A c \in Contexts :
        /\ node[c] = "idle" <=> last[c] = None
        /\ node[c] = "run" <=> last[c] = "run"
        /\ last[c] \in {None, "run"} \cup Finished
        /\ phase = "seeding" => last[c] = None
        /\ ending = "done" => last[c] # "run"

\* Only a context that a node posted to is wanted, sent or counted as the run's.
Own ==
    /\ \A c \in Contexts : posts[c].owned <=> last[c] # None
    /\ \A c \in Contexts : last[c] = None => posts[c].desired = None
    /\ sending # None => posts[Head(queue)].desired # None

\* What is confirmed is what GitHub shows.
Confirmed == \A c \in Contexts : posts[c].confirmed \in {None, github[c]}

\* The interrupt's error is still wanted, or was the last thing sent.
Erred(p) == p.desired = "err" \/ (p.desired = None /\ p.confirmed = "err")

\* After a node's verdict the entry wants it, or has seen it confirmed.
WantsVerdict ==
    \A c \in Contexts : last[c] \in Finished =>
        \/ posts[c].desired = last[c]
        \/ posts[c].desired = None /\ posts[c].confirmed = last[c]
        \/ ending = "cancel" /\ Erred(posts[c])

\* While a node runs, the entry wants "run", or wants nothing, or keeps an older
\* verdict that GitHub does not show; on the wire is what it wants, or something
\* that "run" will follow.
WantsRun ==
    ending \in {"none", "cancel"} => \A c \in Contexts : last[c] = "run" =>
        /\ \/ posts[c].desired \in {None, "run"}
           \/ posts[c].confirmed = "run"
           \/ ending = "cancel" /\ posts[c].desired = "err"
        /\ posts[c].desired = None => posts[c].confirmed # None
        /\ Flying(c) => \/ posts[c].desired \in {"run", sending}
                        \/ ending = "cancel" /\ posts[c].desired = "err"

\* When the lease is lost, no node that ran leaves its context at "run".
LeaseErred ==
    ending = "lease" => \A c \in Contexts : last[c] = "run" =>
        /\ posts[c].desired # "run"
        /\ posts[c].desired = None => posts[c].confirmed \notin {None, "run"}

IInv == TypeOK /\ Nodes /\ Own /\ Confirmed /\ WantsVerdict /\ WantsRun /\ LeaseErred

Entries == [desired : Payloads \cup {None}, confirmed : Payloads \cup {None},
            wake : BOOLEAN, owned : BOOLEAN]

-----------------------------------------------------------------------------
(* Sequences.                                                              *)

LEMMA SetToSeqType ==
    ASSUME NEW S \in SUBSET Contexts
    PROVE  SetToSeq(S) \in Seq(Contexts)
  <1>1. IsFiniteSet(S)
    BY PosterAssumption, FS_Subset
  <1>2. Cardinality(S) \in Nat /\ ExistsBijection(1 .. Cardinality(S), S)
    BY <1>1, FS_CardinalityType
  <1>3. \E f \in [1 .. Cardinality(S) -> S] : IsInjective(f)
    BY <1>2 DEF ExistsBijection, Bijection, Injection, IsInjective
  <1>4. SetToSeq(S) \in [1 .. Cardinality(S) -> S]
    BY <1>3 DEF SetToSeq
  <1>. QED BY <1>2, <1>4

LEMMA HeadStays ==
    ASSUME NEW q \in Seq(Contexts), q # <<>>, NEW s \in Seq(Contexts)
    PROVE  q \o s # <<>> /\ Head(q \o s) = Head(q)
  BY ConcatProperties, EmptySeq, LenProperties

LEMMA HeadIn ==
    ASSUME NEW q \in Seq(Contexts), q # <<>>
    PROVE  Head(q) \in Contexts /\ Tail(q) \in Seq(Contexts) /\ Len(Tail(q)) = Len(q) - 1
  BY HeadTailProperties

LEMMA InTail ==
    ASSUME NEW q \in Seq(Contexts), q # <<>>, NEW c \in ToSet(q), c # Head(q)
    PROVE  c \in ToSet(Tail(q))
  <1>1. PICK i \in 1 .. Len(q) : q[i] = c
    BY DEF ToSet
  <1>2. i # 1
    BY <1>1
  <1>3. Tail(q) = SubSeq(q, 2, Len(q)) /\ Len(Tail(q)) = Len(q) - 1 /\ Tail(q) \in Seq(Contexts)
    BY TailIsSubSeq, HeadTailProperties
  <1>4. i - 1 \in 1 .. Len(Tail(q)) /\ Tail(q)[i - 1] = c
    BY <1>1, <1>2, <1>3
  <1>5. DOMAIN Tail(q) = 1 .. Len(Tail(q))
    BY <1>3
  <1>. QED BY <1>4, <1>5 DEF ToSet

LEMMA InAppend ==
    ASSUME NEW q \in Seq(Contexts), NEW c \in Contexts
    PROVE  ToSet(q) \cup {c} \subseteq ToSet(Append(q, c))
  <1>1. /\ DOMAIN Append(q, c) = 1 .. Len(q) + 1 /\ DOMAIN q = 1 .. Len(q) /\ Len(q) \in Nat
        /\ \A i \in 1 .. Len(q) : Append(q, c)[i] = q[i]
        /\ Append(q, c)[Len(q) + 1] = c
    BY AppendProperties, LenProperties
  <1>. QED BY <1>1 DEF ToSet

-----------------------------------------------------------------------------
(* What a post leaves of an entry.                                         *)

LEMMA PostedFields ==
    ASSUME TypeOK, NEW c \in Contexts, NEW x \in Payloads
    PROVE  LET p == posts[c]
               q == Posted(c, x)
           IN  /\ q \in Entries /\ q.owned /\ q.confirmed = p.confirmed
               /\ \/ ~Redundant(c, x) /\ q.desired = x /\ q.wake = (phase = "open")
                  \/ Redundant(c, x) /\ p.desired \in {x, "run"} /\ q.desired = None /\ ~q.wake
                  \/ /\ Redundant(c, x) /\ p.desired \notin {x, "run"}
                     /\ q.desired = p.desired /\ q.wake = p.wake
  <1>1. posts[c] \in Entries
    BY DEF TypeOK, Entries
  <1>2. CASE ~Redundant(c, x)
    BY <1>1, <1>2 DEF Posted, Entries
  <1>3. CASE Redundant(c, x) /\ posts[c].desired \in {x, "run"}
    BY <1>1, <1>3 DEF Posted, Entries, Settled
  <1>4. CASE Redundant(c, x) /\ posts[c].desired \notin {x, "run"}
    BY <1>1, <1>4 DEF Posted, Entries
  <1>. QED BY <1>2, <1>3, <1>4

-----------------------------------------------------------------------------
(* The types.                                                              *)

LEMMA DrainTypes ==
    ASSUME NEW ps \in [Contexts -> Entries], NEW q \in Seq(Contexts),
           NEW marks \in SUBSET (Contexts \X Payloads), Pass(ps, q, marks)
    PROVE  /\ queue' \in Seq(Contexts) /\ awaited' \in 0 .. Len(queue')
           /\ attempted' \subseteq Contexts \X Payloads
           /\ q # <<>> => queue' # <<>> /\ Head(queue') = Head(q)
  <1>1. Fresh(ps, marks) \in SUBSET Contexts
    BY DEF Fresh
  <1>2. SetToSeq(Fresh(ps, marks)) \in Seq(Contexts)
    BY <1>1, SetToSeqType
  <1>3. queue' \in Seq(Contexts) /\ (q # <<>> => queue' # <<>> /\ Head(queue') = Head(q))
    BY <1>2, HeadStays, ConcatProperties DEF Pass
  <1>4. \A c \in Fresh(ps, marks) : ps[c].desired \in Payloads
    BY DEF Fresh, Owed, Entries
  <1>. QED BY <1>1, <1>3, <1>4, LenProperties DEF Pass

LEMMA FinalizeTypes ==
    ASSUME TypeOK, NEW ps \in [Contexts -> Entries], Finalize(ps)
    PROVE  /\ posts' \in [Contexts -> Entries] /\ phase' = "finalizing"
           /\ \A c \in Contexts : /\ ~posts'[c].wake /\ posts'[c].desired = ps[c].desired
                                  /\ posts'[c].confirmed = ps[c].confirmed
                                  /\ posts'[c].owned = ps[c].owned
           /\ queue' \in Seq(Contexts) /\ awaited' \in 0 .. Len(queue')
           /\ attempted' \subseteq Contexts \X Payloads
           /\ queue # <<>> => queue' # <<>> /\ Head(queue') = Head(queue)
  <1>. DEFINE awake == {c \in Contexts : ps[c].wake}
              calm == [c \in Contexts |-> [ps[c] EXCEPT !.wake = FALSE]]
  <1>1. calm \in [Contexts -> Entries]
    BY DEF Entries
  <1>2. posts' = calm /\ phase' = "finalizing" /\ Pass(calm, queue \o SetToSeq(awake), {})
    BY DEF Finalize
  <1>3. SetToSeq(awake) \in Seq(Contexts) /\ queue \in Seq(Contexts)
    BY SetToSeqType DEF TypeOK
  <1>4. queue \o SetToSeq(awake) \in Seq(Contexts)
    BY <1>3, ConcatProperties
  <1>5. queue # <<>> => /\ queue \o SetToSeq(awake) # <<>>
                        /\ Head(queue \o SetToSeq(awake)) = Head(queue)
    BY <1>3, HeadStays
  <1>6. \A c \in Contexts : /\ ~calm[c].wake /\ calm[c].desired = ps[c].desired
                            /\ calm[c].confirmed = ps[c].confirmed /\ calm[c].owned = ps[c].owned
    BY DEF Entries
  <1>. HIDE DEF calm, awake
  <1>7. /\ queue' \in Seq(Contexts) /\ awaited' \in 0 .. Len(queue')
        /\ attempted' \subseteq Contexts \X Payloads
        /\ queue \o SetToSeq(awake) # <<>> =>
              queue' # <<>> /\ Head(queue') = Head(queue \o SetToSeq(awake))
    BY <1>1, <1>2, <1>4, DrainTypes
  <1>. QED BY <1>1, <1>2, <1>5, <1>6, <1>7

\* What the interrupt's entries are, before the timers are stopped.
AtInterrupt == [c \in Contexts |-> IF c \in PendingContexts THEN Posted(c, "err") ELSE posts[c]]

LEMMA InterruptedType ==
    ASSUME TypeOK
    PROVE  AtInterrupt \in [Contexts -> Entries]
  BY PostedFields DEF AtInterrupt, TypeOK, Entries, Payloads

\* What a post does beyond its entry.
LEMMA PostTypes ==
    ASSUME TypeOK, NEW c \in Contexts, NEW x \in Payloads, Post(c, x)
    PROVE  /\ posts' \in [Contexts -> Entries] /\ queue' \in Seq(Contexts)
           /\ \A d \in Contexts : posts'[d].wake => phase = "open"
           /\ queue # <<>> => queue' # <<>> /\ Head(queue') = Head(queue)
           /\ awaited \in 0 .. Len(queue') /\ ToSet(queue) \subseteq ToSet(queue')
  <1>1. posts \in [Contexts -> Entries] /\ Posted(c, x) \in Entries
    BY PostedFields DEF TypeOK, Entries
  <1>2. \A d \in Contexts : posts'[d].wake => phase = "open"
    BY <1>1, PostedFields DEF Post, TypeOK
  <1>3. queue' = queue \/ queue' = Append(queue, c)
    BY DEF Post
  <1>4. /\ queue' \in Seq(Contexts) /\ awaited \in 0 .. Len(queue')
        /\ queue # <<>> => queue' # <<>> /\ Head(queue') = Head(queue)
    <2>1. queue \in Seq(Contexts) /\ awaited \in 0 .. Len(queue) /\ Len(queue) \in Nat
      BY LenProperties DEF TypeOK
    <2>2. CASE queue' = queue
      BY <2>1, <2>2
    <2>3. CASE queue' = Append(queue, c)
      <3>1. queue' \in Seq(Contexts) /\ Len(queue') = Len(queue) + 1 /\ queue' # <<>>
        BY <2>1, <2>3, AppendProperties
      <3>2. queue # <<>> => Head(queue') = Head(queue)
        BY <2>1, <2>3, HeadIn
      <3>. QED BY <2>1, <3>1, <3>2
    <2>. QED BY <1>3, <2>2, <2>3
  <1>5. ToSet(queue) \subseteq ToSet(queue')
    BY <1>3, InAppend DEF TypeOK
  <1>. QED BY <1>1, <1>2, <1>4, <1>5 DEF Post

LEMMA DequeueTypes ==
    ASSUME TypeOK, queue # <<>>, NEW grown \in Seq(Contexts), Dequeue(grown),
           grown = queue \/ grown = Append(queue, Head(queue))
    PROVE  queue' \in Seq(Contexts) /\ awaited' \in 0 .. Len(queue')
  <1>1. Len(grown) >= Len(queue) /\ grown # <<>> /\ Len(grown) \in Nat /\ Len(queue) \in Nat
    BY HeadIn, AppendProperties, LenProperties DEF TypeOK
  <1>2. Tail(grown) \in Seq(Contexts) /\ Len(Tail(grown)) = Len(grown) - 1
    BY <1>1, HeadTailProperties
  <1>3. awaited \in 0 .. Len(queue) /\ Len(queue) # 0
    BY EmptySeq DEF TypeOK
  <1>4. queue' = Tail(grown) /\ awaited' = IF awaited = 0 THEN 0 ELSE awaited - 1
    BY DEF Dequeue
  <1>5. Len(queue') \in Nat /\ Len(queue') >= Len(queue) - 1
    <2>1. Len(queue') = Len(grown) - 1 /\ queue' \in Seq(Contexts)
      BY <1>2, <1>4, Zenon
    <2>2. Len(queue') \in Nat
      BY <2>1, LenProperties
    <2>. QED BY <1>1, <2>1, <2>2
  <1>6. awaited' \in 0 .. Len(queue) - 1
    BY <1>1, <1>3, <1>4
  <1>. QED
    <2>1. queue' \in Seq(Contexts)
      BY <1>2, <1>4
    <2>2. awaited' \in 0 .. Len(queue')
      BY <1>1, <1>5, <1>6
    <2>. QED BY <2>1, <2>2

LEMMA FollowUpTypes ==
    ASSUME TypeOK, queue # <<>>, NEW p \in Entries, p.wake => phase = "open", FollowUp(p)
    PROVE  /\ posts' \in [Contexts -> Entries]
           /\ \A d \in Contexts : posts'[d].wake => phase = "open"
           /\ queue' \in Seq(Contexts) /\ awaited' \in 0 .. Len(queue')
           /\ phase = "open" => posts'[Head(queue)].wake /\ queue' = Tail(queue)
           /\ \A d \in Contexts \ {Head(queue)} : posts'[d] = posts[d]
           /\ posts'[Head(queue)].desired = p.desired
           /\ posts'[Head(queue)].confirmed = p.confirmed
           /\ posts'[Head(queue)].owned = p.owned
  <1>1. Head(queue) \in Contexts /\ queue \in Seq(Contexts)
    BY HeadIn DEF TypeOK
  <1>2. queue' \in Seq(Contexts) /\ awaited' \in 0 .. Len(queue')
    <2>. DEFINE grown == IF phase = "finalizing" /\ ~p.wake
                         THEN Append(queue, Head(queue)) ELSE queue
    <2>1. grown \in Seq(Contexts) /\ (grown = queue \/ grown = Append(queue, Head(queue)))
      BY <1>1, AppendProperties
    <2>2. Dequeue(grown)
      BY DEF FollowUp
    <2>. HIDE DEF grown
    <2>. QED BY <2>1, <2>2, DequeueTypes
  <1>3. phase = "open" => queue' = Tail(queue)
    BY DEF FollowUp, Dequeue
  <1>4. posts' = [posts EXCEPT ![Head(queue)] = [p EXCEPT !.wake = (@ \/ phase = "open")]]
    BY DEF FollowUp
  <1>. QED BY <1>1, <1>2, <1>3, <1>4 DEF TypeOK, Entries

\* The two ends of a send, as they leave the entry it was for.
SendEnds ==
    LET h == Head(queue)
    IN  /\ h \in Contexts /\ queue # <<>> /\ sending \in Payloads /\ sending' = None
        /\ posts' \in [Contexts -> Entries]
        /\ \A d \in Contexts : posts'[d].wake => phase = "open"
        /\ queue' \in Seq(Contexts) /\ awaited' \in 0 .. Len(queue')
        /\ phase = "open" => queue' = Tail(queue)
        /\ \A d \in Contexts \ {h} : posts'[d] = posts[d]
        /\ posts'[h].owned = posts[h].owned
        /\ phase = "open" => posts'[h].wake \/ posts'[h].desired = None

LEMMA SendLandsEffect ==
    ASSUME TypeOK, SendLands
    PROVE  /\ SendEnds /\ posts'[Head(queue)].confirmed = sending
           /\ \/ Moved /\ posts'[Head(queue)].desired = posts[Head(queue)].desired
              \/ ~Moved /\ posts'[Head(queue)].desired = None
  <1>. DEFINE h == Head(queue)
              p == [posts[h] EXCEPT !.confirmed = sending]
  <1>1. h \in Contexts /\ queue # <<>> /\ sending \in Payloads /\ queue \in Seq(Contexts)
    BY HeadIn DEF SendLands, TypeOK
  <1>2. posts \in [Contexts -> Entries] /\ \A d \in Contexts : posts[d].wake => phase = "open"
    BY DEF TypeOK, Entries
  <1>3. /\ p \in Entries /\ (p.wake => phase = "open")
        /\ p.confirmed = sending /\ p.owned = posts[h].owned /\ p.desired = posts[h].desired
    BY <1>1, <1>2 DEF Entries
  <1>4. CASE Moved
    <2>1. FollowUp(p) /\ sending' = None
      BY <1>4 DEF SendLands
    <2>. HIDE DEF p
    <2>2. /\ posts' \in [Contexts -> Entries]
          /\ \A d \in Contexts : posts'[d].wake => phase = "open"
          /\ queue' \in Seq(Contexts) /\ awaited' \in 0 .. Len(queue')
          /\ phase = "open" => posts'[h].wake /\ queue' = Tail(queue)
          /\ \A d \in Contexts \ {h} : posts'[d] = posts[d]
          /\ posts'[h].desired = p.desired /\ posts'[h].confirmed = p.confirmed
          /\ posts'[h].owned = p.owned
      BY <1>1, <1>3, <2>1, FollowUpTypes
    <2>. HIDE DEF h
    <2>3. SendEnds
      BY <1>1, <1>3, <2>1, <2>2 DEF SendEnds, h
    <2>. QED BY <1>3, <1>4, <2>2, <2>3 DEF h
  <1>5. CASE ~Moved
    <2>1. posts' = [posts EXCEPT ![h] = Settled(p)] /\ Dequeue(queue) /\ sending' = None
      BY <1>5 DEF SendLands
    <2>. HIDE DEF p
    <2>2. /\ Settled(p) \in Entries /\ ~Settled(p).wake /\ Settled(p).desired = None
          /\ Settled(p).confirmed = sending /\ Settled(p).owned = p.owned
      BY <1>3 DEF Settled, Entries
    <2>3. queue' = Tail(queue) /\ queue' \in Seq(Contexts) /\ awaited' \in 0 .. Len(queue')
      BY <1>1, <2>1, DequeueTypes DEF Dequeue
    <2>. QED BY <1>1, <1>2, <1>3, <1>5, <2>1, <2>2, <2>3 DEF SendEnds
  <1>. QED BY <1>4, <1>5

LEMMA SendFailsEffect ==
    ASSUME TypeOK, SendFails
    PROVE  /\ SendEnds /\ posts'[Head(queue)].confirmed = posts[Head(queue)].confirmed
           /\ posts'[Head(queue)].desired = posts[Head(queue)].desired
  <1>. DEFINE h == Head(queue)
              p == [posts[h] EXCEPT !.wake = (phase = "open")]
  <1>1. h \in Contexts /\ queue # <<>> /\ sending \in Payloads /\ queue \in Seq(Contexts)
    BY HeadIn DEF SendFails, TypeOK
  <1>2. posts \in [Contexts -> Entries] /\ \A d \in Contexts : posts[d].wake => phase = "open"
    BY DEF TypeOK, Entries
  <1>3. /\ p \in Entries /\ p.wake = (phase = "open")
        /\ p.confirmed = posts[h].confirmed /\ p.owned = posts[h].owned
        /\ p.desired = posts[h].desired
    BY <1>1, <1>2 DEF Entries
  <1>4. CASE Moved
    <2>1. FollowUp(posts[h]) /\ sending' = None
      BY <1>4 DEF SendFails
    <2>. QED BY <1>1, <1>2, <1>4, <2>1, FollowUpTypes DEF SendEnds
  <1>5. CASE ~Moved
    <2>1. posts' = [posts EXCEPT ![h] = p] /\ Dequeue(queue) /\ sending' = None
      BY <1>5 DEF SendFails
    <2>2. queue' = Tail(queue) /\ queue' \in Seq(Contexts) /\ awaited' \in 0 .. Len(queue')
      BY <1>1, <2>1, DequeueTypes DEF Dequeue
    <2>. HIDE DEF p
    <2>. QED BY <1>1, <1>2, <1>3, <1>5, <2>1, <2>2 DEF SendEnds
  <1>. QED BY <1>4, <1>5

LEMMA TypeKept ==
    ASSUME TypeOK, [Next]_vars
    PROVE  TypeOK'
  <1>. DEFINE Entered == posts' \in [Contexts -> Entries]
                         /\ \A c \in Contexts : posts'[c].wake => phase' = "open"
  <1>0. TypeOK => posts \in [Contexts -> Entries] /\ Len(queue) \in Nat
    BY LenProperties DEF TypeOK, Entries
  <1>1. CASE Seed
    <2>1. Entered
      <3>. DEFINE listed == [c \in Contexts |-> [NoPost EXCEPT !.confirmed = github[c]]]
      <3>1. listed \in [Contexts -> Entries] /\ \A c \in Contexts : ~listed[c].wake
        BY DEF TypeOK, NoPost, Entries
      <3>2. posts' = listed \/ posts' = posts
        BY <1>1 DEF Seed
      <3>3. \A c \in Contexts : ~posts[c].wake
        BY <1>1 DEF Seed, TypeOK
      <3>. HIDE DEF listed
      <3>. QED BY <1>0, <3>1, <3>2, <3>3
    <2>. HIDE DEF Entered
    <2>. QED BY <1>1, <2>1 DEF Seed, nodes, TypeOK, Entered, Entries
  <1>2. ASSUME NEW c \in Contexts, NodeStarts(c) PROVE TypeOK'
    <2>1. Entered /\ queue' \in Seq(Contexts) /\ awaited' \in 0 .. Len(queue')
          /\ (queue # <<>> => queue' # <<>>) /\ UNCHANGED <<sending, phase, attempted>>
      BY <1>2, PostTypes DEF NodeStarts, Post, Payloads
    <2>. HIDE DEF Entered
    <2>2. node' \in [Contexts -> {"idle", "run", "done"}]
          /\ last' \in [Contexts -> Payloads \cup {None}] /\ moves' \in 0 .. MaxMoves
      BY <1>2, PosterAssumption DEF NodeStarts, TypeOK, Payloads
    <2>. QED BY <1>2, <2>1, <2>2 DEF NodeStarts, TypeOK, Entered, Entries
  <1>3. ASSUME NEW c \in Contexts, NodeEnds(c) PROVE TypeOK'
    <2>1. PICK x \in {"ok", "bad"} : Post(c, x) /\ last' = [last EXCEPT ![c] = x]
      BY <1>3 DEF NodeEnds
    <2>2. Entered /\ queue' \in Seq(Contexts) /\ awaited' \in 0 .. Len(queue')
          /\ (queue # <<>> => queue' # <<>>) /\ UNCHANGED <<sending, phase, attempted>>
      BY <2>1, PostTypes DEF Post, Payloads
    <2>. HIDE DEF Entered
    <2>3. node' \in [Contexts -> {"idle", "run", "done"}]
          /\ last' \in [Contexts -> Payloads \cup {None}]
      BY <1>3, <2>1 DEF NodeEnds, TypeOK, Payloads
    <2>. QED BY <1>3, <2>2, <2>3 DEF NodeEnds, TypeOK, Entered, Entries
  <1>4. ASSUME NEW c \in Contexts, NodeDropped(c) PROVE TypeOK'
    <2>1. Entered /\ queue' \in Seq(Contexts) /\ awaited' \in 0 .. Len(queue')
          /\ (queue # <<>> => queue' # <<>>) /\ UNCHANGED <<sending, phase, attempted>>
      BY <1>4, PostTypes DEF NodeDropped, Post, Payloads
    <2>. HIDE DEF Entered
    <2>2. node' \in [Contexts -> {"idle", "run", "done"}]
          /\ last' \in [Contexts -> Payloads \cup {None}] /\ moves' \in 0 .. MaxMoves
      BY <1>4, PosterAssumption DEF NodeDropped, TypeOK, Payloads
    <2>. QED BY <1>4, <2>1, <2>2 DEF NodeDropped, TypeOK, Entered, Entries
  <1>5. ASSUME NEW ps \in [Contexts -> Entries], NEW how \in {"done", "cancel", "lease"},
               Finalize(ps), ending' = how, UNCHANGED <<github, sending, nodes>>
        PROVE  TypeOK'
    <2>1. Entered /\ phase' = "finalizing" /\ queue' \in Seq(Contexts)
          /\ awaited' \in 0 .. Len(queue') /\ attempted' \subseteq Contexts \X Payloads
          /\ (queue # <<>> => queue' # <<>>)
      BY <1>5, FinalizeTypes
    <2>. HIDE DEF Entered
    <2>. QED BY <1>5, <2>1 DEF TypeOK, nodes, Entered, Entries, Ends
  <1>6. CASE RunEnds
    BY <1>0, <1>5, <1>6 DEF RunEnds
  <1>7. ASSUME NEW how \in {"cancel", "lease"}, Interrupt(how) PROVE TypeOK'
    BY <1>5, <1>7, InterruptedType DEF Interrupt, AtInterrupt
  <1>8. CASE DrainAgain
    <2>1. queue' \in Seq(Contexts) /\ awaited' \in 0 .. Len(queue')
          /\ attempted' \subseteq Contexts \X Payloads /\ (queue # <<>> => queue' # <<>>)
      <3>1. Pass(posts, queue, attempted) /\ queue \in Seq(Contexts)
            /\ attempted \in SUBSET (Contexts \X Payloads)
        BY <1>8 DEF DrainAgain, TypeOK
      <3>. QED BY <1>0, <3>1, DrainTypes
    <2>. QED BY <1>8, <2>1 DEF DrainAgain, TypeOK, nodes
  <1>9. CASE Closes
    <2>1. posts' \in [Contexts -> Entries] /\ \A c \in Contexts : ~posts'[c].wake
      BY <1>0, <1>9 DEF Closes, Entries
    <2>. QED BY <1>9, <2>1 DEF Closes, TypeOK, nodes, Entries
  <1>10. ASSUME NEW c \in Contexts, Wakes(c) PROVE TypeOK'
    <2>1. queue' \in Seq(Contexts) /\ Len(queue') = Len(queue) + 1 /\ queue' # <<>>
      BY <1>10, AppendProperties DEF Wakes, TypeOK
    <2>2. Entered
      BY <1>0, <1>10 DEF Wakes, Entries, TypeOK
    <2>. HIDE DEF Entered
    <2>3. awaited' \in 0 .. Len(queue')
      BY <1>0, <1>10, <2>1 DEF Wakes, TypeOK
    <2>. QED BY <1>10, <2>1, <2>2, <2>3 DEF Wakes, TypeOK, nodes, Entered, Entries
  <1>11. CASE SendNothing
    <2>1. queue' \in Seq(Contexts) /\ awaited' \in 0 .. Len(queue')
      <3>1. queue \in Seq(Contexts) /\ queue # <<>> /\ Dequeue(queue)
        BY <1>11 DEF SendNothing, TypeOK
      <3>. QED BY <3>1, DequeueTypes
    <2>2. Entered
      <3>1. Head(queue) \in Contexts
        BY <1>11, HeadIn DEF SendNothing, TypeOK
      <3>. QED BY ZenonT(90), <1>0, <1>11, <3>1 DEF SendNothing, Settled, Entries, TypeOK
    <2>. HIDE DEF Entered
    <2>. QED BY <1>11, <2>1, <2>2 DEF SendNothing, TypeOK, nodes, Entered, Entries
  <1>12. CASE SendStarts
    <2>1. Head(queue) \in Contexts
      BY <1>12, HeadIn DEF SendStarts, TypeOK
    <2>2. sending' \in Payloads
      BY <1>12, <2>1 DEF SendStarts, Owed, TypeOK
    <2>. QED BY <1>12, <2>2 DEF SendStarts, TypeOK, nodes
  <1>13. ASSUME SendLands \/ SendFails PROVE TypeOK'
    <2>1. SendEnds /\ phase' = phase
      BY <1>13, SendLandsEffect, SendFailsEffect DEF SendLands, SendFails
    <2>2. github' \in [Contexts -> Payloads \cup {None}]
      BY <1>13, <2>1 DEF SendLands, SendFails, SendEnds, TypeOK
    <2>3. Entered /\ queue' \in Seq(Contexts) /\ awaited' \in 0 .. Len(queue') /\ sending' = None
      BY <2>1 DEF SendEnds
    <2>. HIDE DEF Entered
    <2>. QED BY <1>13, <2>2, <2>3 DEF SendLands, SendFails, TypeOK, nodes, Entered, Entries
  <1>14. CASE Exited \/ UNCHANGED vars
    BY <1>14 DEF Exited, vars, poster, nodes, TypeOK
  <1>. QED BY <1>1, <1>2, <1>3, <1>4, <1>6, <1>7, <1>8, <1>9, <1>10, <1>11, <1>12, <1>13, <1>14
           DEF Next, Queue, Drain

LEMMA NoLostWakeKept ==
    ASSUME TypeOK, Nodes, Own, NoLostWake, [Next]_vars
    PROVE  NoLostWake'
  <1>. DEFINE Kept(c) == Owed(posts'[c]) => posts'[c].wake \/ c \in ToSet(queue')
  <1>0. posts \in [Contexts -> Entries] /\ queue \in Seq(Contexts)
    BY DEF TypeOK, Entries
  <1>1. SUFFICES ASSUME phase' = "open", NEW c \in Contexts PROVE Kept(c)
    BY DEF NoLostWake, Owing, Owed
  <1>. USE DEF Owed
  <1>2. CASE Seed
    <2>1. posts[c].desired = None
      BY <1>2 DEF Seed, Nodes, Own
    <2>2. posts'[c].desired = None
      BY <1>2, <2>1 DEF Seed, NoPost
    <2>. QED BY <2>2
  <1>3. ASSUME NEW d \in Contexts, NEW x \in Payloads, phase = "open", Post(d, x) PROVE Kept(c)
    <2>1. Posted(d, x) \in Entries
          /\ \/ Posted(d, x).wake \/ Posted(d, x).desired = None
             \/ /\ Posted(d, x).desired = posts[d].desired /\ Posted(d, x).wake = posts[d].wake
                /\ Posted(d, x).confirmed = posts[d].confirmed
      BY ZenonT(90), <1>3, PostedFields
    <2>2. ToSet(queue) \subseteq ToSet(queue') /\ posts' = [posts EXCEPT ![d] = Posted(d, x)]
      BY <1>3, PostTypes DEF Post
    <2>3. Owed(posts[c]) => posts[c].wake \/ c \in ToSet(queue)
      BY <1>3 DEF NoLostWake, Owing
    <2>. QED BY <1>0, <2>1, <2>2, <2>3
  <1>4. ASSUME NEW d \in Contexts, NodeStarts(d) \/ NodeEnds(d) \/ NodeDropped(d) PROVE Kept(c)
    <2>1. \E x \in Payloads : Post(d, x)
      BY <1>4 DEF NodeStarts, NodeEnds, NodeDropped, Payloads
    <2>2. phase = "open"
      BY <1>1, <2>1 DEF Post
    <2>. QED BY <1>3, <2>1, <2>2
  <1>5. CASE RunEnds \/ (\E how \in {"cancel", "lease"} : Interrupt(how)) \/ Drain
    BY <1>1, <1>5 DEF RunEnds, Interrupt, Finalize, Drain, DrainAgain, Closes
  <1>6. phase = "open" => (Owed(posts[c]) => posts[c].wake \/ c \in ToSet(queue))
    BY DEF NoLostWake, Owing
  <1>7. ASSUME NEW d \in Contexts, Wakes(d) PROVE Kept(c)
    <2>1. ToSet(queue) \cup {d} \subseteq ToSet(queue')
      BY <1>0, <1>7, InAppend DEF Wakes
    <2>. QED BY <1>0, <1>6, <1>7, <2>1 DEF Wakes, Entries
  <1>8. CASE SendStarts
    BY <1>1, <1>6, <1>8 DEF SendStarts
  <1>9. ASSUME queue # <<>>, queue' = Tail(queue), c # Head(queue), posts'[c] = posts[c],
               phase = "open"
        PROVE  Kept(c)
    BY <1>0, <1>6, <1>9, InTail
  <1>10. CASE SendNothing
    <2>1. Head(queue) \in Contexts /\ queue # <<>> /\ queue' = Tail(queue) /\ phase = "open"
      BY <1>0, <1>1, <1>10, HeadIn DEF SendNothing, Dequeue
    <2>2. CASE c = Head(queue)
      BY <1>0, <1>10, <2>1, <2>2 DEF SendNothing, Settled, Entries
    <2>3. CASE c # Head(queue)
      <3>1. posts'[c] = posts[c]
        BY <1>0, <1>10, <2>3 DEF SendNothing
      <3>. QED BY <1>9, <2>1, <2>3, <3>1
    <2>. QED BY <2>2, <2>3
  <1>11. CASE SendLands \/ SendFails
    <2>1. SendEnds /\ phase = "open"
      BY <1>1, <1>11, SendLandsEffect, SendFailsEffect DEF SendLands, SendFails
    <2>3. posts'[Head(queue)].wake \/ posts'[Head(queue)].desired = None
      BY <2>1 DEF SendEnds
    <2>4. CASE c = Head(queue)
      BY <2>3, <2>4
    <2>. QED BY <1>9, <2>1, <2>4 DEF SendEnds
  <1>12. CASE Exited \/ UNCHANGED vars
    BY <1>1, <1>6, <1>12 DEF Exited, vars, poster
  <1>. QED BY <1>2, <1>4, <1>5, <1>7, <1>8, <1>10, <1>11, <1>12 DEF Next, Queue

-----------------------------------------------------------------------------
(* The steps, as the rest of the invariant sees them.                      *)

\* A node moves and posts x.
NodePosts(c, x) ==
    /\ x \in {"run"} \cup Finished /\ LanesOpen
    /\ x \in {"ok", "bad"} => node[c] = "run"
    /\ x = "gone" /\ ~DropReruns => node[c] = "idle"
    /\ Post(c, x)
    /\ last' = [last EXCEPT ![c] = x]
    /\ node' = [node EXCEPT ![c] = IF x = "run" THEN "run" ELSE "done"]
    /\ UNCHANGED <<github, ending>>

\* Timers and the drain: no entry changes what it wants or has seen confirmed.
Calm ==
    /\ \A c \in Contexts : /\ posts'[c].desired = posts[c].desired
                           /\ posts'[c].confirmed = posts[c].confirmed
                           /\ posts'[c].owned = posts[c].owned
    /\ sending # None => Head(queue') = Head(queue)
    /\ phase' # "seeding" \/ phase' = phase
    /\ UNCHANGED <<github, sending, ending, node, last>>

LEMMA StepKinds ==
    ASSUME TypeOK, [Next]_vars
    PROVE  \/ Seed \/ RunEnds \/ Calm \/ Queue
           \/ \E how \in {"cancel", "lease"} : Interrupt(how)
           \/ \E c \in Contexts, x \in Payloads : NodePosts(c, x)
  <1>0. posts \in [Contexts -> Entries] /\ queue \in Seq(Contexts)
        /\ (sending # None => queue # <<>>)
    BY DEF TypeOK, Entries
  <1>1. ASSUME NEW c \in Contexts, NodeStarts(c) \/ NodeEnds(c) \/ NodeDropped(c)
        PROVE  \E x \in Payloads : NodePosts(c, x)
    <2>1. CASE NodeStarts(c)
      <3>1. NodePosts(c, "run")
        BY <2>1 DEF NodeStarts, NodePosts
      <3>. QED BY <3>1 DEF Payloads
    <2>2. CASE NodeEnds(c)
      <3>1. PICK x \in {"ok", "bad"} : Post(c, x) /\ last' = [last EXCEPT ![c] = x]
        BY <2>2 DEF NodeEnds
      <3>2. NodePosts(c, x)
        BY <2>2, <3>1 DEF NodeEnds, NodePosts, Finished
      <3>. QED BY <3>2 DEF Payloads
    <2>3. CASE NodeDropped(c)
      <3>1. NodePosts(c, "gone")
        BY <2>3 DEF NodeDropped, NodePosts, Finished
      <3>. QED BY <3>1 DEF Payloads
    <2>. QED BY <1>1, <2>1, <2>2, <2>3
  <1>2. ASSUME NEW c \in Contexts, Wakes(c) PROVE Calm
    <2>1. queue # <<>> => Head(queue') = Head(queue)
      BY <1>0, <1>2, HeadIn, AppendProperties DEF Wakes
    <2>. QED BY <1>0, <1>2, <2>1 DEF Wakes, Calm, nodes, Entries
  <1>3. CASE DrainAgain
    <2>1. Pass(posts, queue, attempted) /\ attempted \in SUBSET (Contexts \X Payloads)
      BY <1>3 DEF DrainAgain, TypeOK
    <2>2. queue # <<>> => Head(queue') = Head(queue)
      BY <1>0, <2>1, DrainTypes
    <2>. QED BY <1>0, <1>3, <2>2 DEF DrainAgain, Calm, nodes
  <1>4. CASE Closes
    BY <1>0, <1>4 DEF Closes, Calm, nodes, Entries
  <1>5. CASE Exited \/ UNCHANGED vars
    BY <1>5 DEF Exited, vars, poster, nodes, Calm
  <1>. QED BY <1>1, <1>2, <1>3, <1>4, <1>5 DEF Next, Drain

LEMMA CalmKeeps ==
    ASSUME TypeOK, TypeOK', Calm
    PROVE  /\ Nodes => Nodes'
           /\ Own => Own'
           /\ Confirmed => Confirmed'
           /\ WantsVerdict => WantsVerdict'
           /\ WantsRun => WantsRun'
           /\ LeaseErred => LeaseErred'
  <1>1. Nodes => Nodes'
    BY DEF Calm, Nodes
  <1>2. Own => Own'
    <2>1. queue # <<>> => Head(queue) \in Contexts
      BY HeadIn DEF TypeOK
    <2>. QED BY <2>1 DEF Calm, Own, TypeOK
  <1>3. Confirmed => Confirmed'
    BY DEF Calm, Confirmed
  <1>4. WantsVerdict => WantsVerdict'
    BY DEF Calm, WantsVerdict, Erred
  <1>5. WantsRun => WantsRun'
    BY DEF Calm, WantsRun, Flying
  <1>6. LeaseErred => LeaseErred'
    BY DEF Calm, LeaseErred
  <1>. QED BY <1>1, <1>2, <1>3, <1>4, <1>5, <1>6

LEMMA SendNothingEffect ==
    ASSUME TypeOK, SendNothing
    PROVE  /\ Head(queue) \in Contexts /\ sending = None
           /\ UNCHANGED <<github, sending, phase, ending, node, last>>
           /\ \A c \in Contexts :
                 /\ posts'[c].confirmed = posts[c].confirmed /\ posts'[c].owned = posts[c].owned
                 /\ \/ posts'[c].desired = posts[c].desired
                    \/ /\ posts'[c].desired = None
                       /\ posts[c].desired # None /\ posts[c].desired = posts[c].confirmed
  <1>1. Head(queue) \in Contexts /\ posts \in [Contexts -> Entries]
    BY HeadIn DEF SendNothing, TypeOK, Entries
  <1>. QED BY <1>1 DEF SendNothing, nodes, Owed, Settled, Entries

LEMMA InterruptEffect ==
    ASSUME TypeOK, NEW how \in {"cancel", "lease"}, Interrupt(how)
    PROVE  /\ phase = "open" /\ phase' = "finalizing" /\ ending = "none" /\ ending' = how
           /\ UNCHANGED <<github, sending, node, last>>
           /\ sending # None => Head(queue') = Head(queue)
           /\ \A c \in Contexts :
                 /\ posts'[c].confirmed = posts[c].confirmed
                 /\ c \notin PendingContexts => /\ posts'[c].owned = posts[c].owned
                                                /\ posts'[c].desired = posts[c].desired
                 /\ c \in PendingContexts =>
                       /\ posts'[c].owned
                       /\ \/ posts'[c].desired = "err"
                          \/ /\ posts'[c].desired = None /\ posts[c].confirmed = "err"
                             /\ ~Flying(c)
  <1>1. AtInterrupt \in [Contexts -> Entries] /\ Finalize(AtInterrupt)
    BY InterruptedType DEF Interrupt, AtInterrupt
  <1>2. /\ phase' = "finalizing" /\ (queue # <<>> => Head(queue') = Head(queue))
        /\ \A c \in Contexts : /\ posts'[c].desired = AtInterrupt[c].desired
                               /\ posts'[c].confirmed = AtInterrupt[c].confirmed
                               /\ posts'[c].owned = AtInterrupt[c].owned
    BY <1>1, FinalizeTypes
  <1>3. \A c \in Contexts \ PendingContexts : AtInterrupt[c] = posts[c]
    BY DEF AtInterrupt
  <1>4. ASSUME NEW c \in PendingContexts
        PROVE  /\ AtInterrupt[c].owned /\ AtInterrupt[c].confirmed = posts[c].confirmed
               /\ \/ AtInterrupt[c].desired = "err"
                  \/ /\ AtInterrupt[c].desired = None /\ posts[c].confirmed = "err"
                     /\ ~Flying(c)
    <2>1. c \in Contexts /\ AtInterrupt[c] = Posted(c, "err")
      BY DEF AtInterrupt, PendingContexts
    <2>2. posts[c].desired = "run" \/ (posts[c].desired = None /\ posts[c].confirmed = "run")
      BY DEF PendingContexts
    <2>. QED BY <2>1, <2>2, PostedFields DEF Redundant, Payloads
  <1>. QED BY SMTT(60), <1>2, <1>3, <1>4 DEF Interrupt, nodes, TypeOK

LEMMA RunEndsEffect ==
    ASSUME TypeOK, RunEnds
    PROVE  /\ phase' = "finalizing" /\ ending' = "done" /\ ending = "none"
           /\ \A c \in Contexts : node[c] # "run"
           /\ UNCHANGED <<github, sending, node, last>>
           /\ sending # None => Head(queue') = Head(queue)
           /\ \A c \in Contexts : /\ posts'[c].confirmed = posts[c].confirmed
                                  /\ posts'[c].owned = posts[c].owned
                                  /\ posts'[c].desired = posts[c].desired
  <1>1. posts \in [Contexts -> Entries]
    BY DEF TypeOK, Entries
  <1>2. Finalize(posts)
    BY DEF RunEnds
  <1>. QED BY <1>1, <1>2, FinalizeTypes DEF RunEnds, nodes, TypeOK

LEMMA SeedEffect ==
    ASSUME TypeOK, Nodes, Own, Seed
    PROVE  /\ phase' = "open" /\ UNCHANGED <<github, queue, sending, ending, node, last>>
           /\ sending = None
           /\ \A c \in Contexts : /\ posts'[c].desired = None /\ ~posts'[c].owned
                                  /\ last[c] = None
                                  /\ posts'[c].confirmed \in {github[c], posts[c].confirmed}
  <1>1. \A c \in Contexts : last[c] = None /\ posts[c].desired = None /\ ~posts[c].owned
    BY DEF Seed, Nodes, Own
  <1>2. sending = None
    <2>1. queue # <<>> => Head(queue) \in Contexts
      BY HeadIn DEF TypeOK
    <2>. QED BY <1>1, <2>1 DEF Own, TypeOK
  <1>. QED BY <1>1, <1>2 DEF Seed, NoPost, nodes

LEMMA NodePostsEffect ==
    ASSUME TypeOK, NEW c \in Contexts, NEW x \in Payloads, NodePosts(c, x)
    PROVE  /\ UNCHANGED <<github, sending, phase, ending>>
           /\ sending # None => Head(queue') = Head(queue)
           /\ \A d \in Contexts \ {c} : posts'[d] = posts[d] /\ last'[d] = last[d] /\ node'[d] = node[d]
           /\ last'[c] = x /\ node'[c] = IF x = "run" THEN "run" ELSE "done"
           /\ posts'[c].owned /\ posts'[c].confirmed = posts[c].confirmed
           /\ \/ ~Redundant(c, x) /\ posts'[c].desired = x
              \/ Redundant(c, x) /\ posts[c].desired \in {x, "run"} /\ posts'[c].desired = None
              \/ /\ Redundant(c, x) /\ posts[c].desired \notin {x, "run"}
                 /\ posts'[c].desired = posts[c].desired
           /\ phase = "open" \/ (phase = "finalizing" /\ ending = "cancel")
           /\ ending \in {"none", "cancel"}
  <1>1. posts' = [posts EXCEPT ![c] = Posted(c, x)] /\ UNCHANGED <<sending, phase>>
    BY DEF NodePosts, Post
  <1>2. sending # None => Head(queue') = Head(queue)
    BY PostTypes DEF NodePosts, TypeOK
  <1>3. (phase = "open" \/ (phase = "finalizing" /\ ending = "cancel")) /\ ending \in {"none", "cancel"}
    BY DEF NodePosts, LanesOpen, TypeOK
  <1>4. \A d \in Contexts \ {c} : posts'[d] = posts[d] /\ last'[d] = last[d] /\ node'[d] = node[d]
    BY <1>1 DEF NodePosts, TypeOK
  <1>5. posts'[c] = Posted(c, x) /\ last'[c] = x /\ node'[c] = IF x = "run" THEN "run" ELSE "done"
    BY <1>1 DEF NodePosts, TypeOK
  <1>. QED BY <1>1, <1>2, <1>3, <1>4, <1>5, PostedFields DEF NodePosts

-----------------------------------------------------------------------------
(* The invariant, conjunct by conjunct.                                    *)

LEMMA HeadOfQueue ==
    ASSUME TypeOK, sending # None
    PROVE  Head(queue) \in Contexts
  BY HeadIn DEF TypeOK

LEMMA OwnKept ==
    ASSUME TypeOK, TypeOK', Nodes, Own, [Next]_vars
    PROVE  Nodes' /\ Own'
  <1>. USE DEF Nodes, Own
  <1>1. CASE Seed
    BY <1>1, SeedEffect
  <1>2. CASE RunEnds
    BY <1>2, RunEndsEffect, HeadOfQueue
  <1>3. CASE Calm
    BY <1>3, CalmKeeps
  <1>4. CASE SendNothing
    BY <1>4, SendNothingEffect, HeadOfQueue DEF SendNothing, TypeOK
  <1>5. CASE SendStarts
    BY <1>5, HeadIn DEF SendStarts, Owed, nodes, TypeOK
  <1>6. CASE SendLands
    <2>1. SendEnds /\ UNCHANGED <<phase, ending, node, last>>
      BY <1>6, SendLandsEffect DEF SendLands, nodes
    <2>2. posts'[Head(queue)].desired \in {None, posts[Head(queue)].desired}
      BY <1>6, SendLandsEffect
    <2>. QED BY <2>1, <2>2 DEF SendEnds
  <1>7. CASE SendFails
    <2>1. SendEnds /\ UNCHANGED <<phase, ending, node, last>>
      BY <1>7, SendFailsEffect DEF SendFails, nodes
    <2>2. posts'[Head(queue)].desired \in {None, posts[Head(queue)].desired}
      BY <1>7, SendFailsEffect
    <2>. QED BY <2>1, <2>2 DEF SendEnds
  <1>8. ASSUME NEW how \in {"cancel", "lease"}, Interrupt(how) PROVE Nodes' /\ Own'
    <2>1. Nodes'
      BY <1>8, InterruptEffect
    <2>2. \A c \in PendingContexts : c \in Contexts /\ posts[c].owned
      BY DEF PendingContexts
    <2>3. ASSUME sending # None PROVE posts'[Head(queue)].desired # None
      <3>1. Flying(Head(queue)) /\ Head(queue) \in Contexts
        BY <2>3, HeadOfQueue DEF Flying
      <3>. QED BY <1>8, <2>3, <3>1, InterruptEffect DEF None
    <2>. QED BY <1>8, <2>1, <2>2, <2>3, InterruptEffect
  <1>9. ASSUME NEW c \in Contexts, NEW x \in Payloads, NodePosts(c, x) PROVE Nodes' /\ Own'
    <2>1. Nodes'
      <3>1. ASSUME NEW d \in Contexts, d # c
            PROVE  /\ node'[d] = "idle" <=> last'[d] = None
                   /\ node'[d] = "run" <=> last'[d] = "run"
                   /\ last'[d] \in {None, "run"} \cup Finished
                   /\ phase' = "seeding" => last'[d] = None
                   /\ ending' = "done" => last'[d] # "run"
        BY <1>9, <3>1, NodePostsEffect
      <3>2. x \in {"run"} \cup Finished
        BY <1>9 DEF NodePosts
      <3>3. /\ node'[c] = "idle" <=> last'[c] = None
            /\ node'[c] = "run" <=> last'[c] = "run"
            /\ last'[c] \in {None, "run"} \cup Finished
            /\ phase' = "seeding" => last'[c] = None
            /\ ending' = "done" => last'[c] # "run"
        BY <1>9, <3>2, NodePostsEffect DEF Finished, None
      <3>. QED BY <3>1, <3>3
    <2>2. ASSUME sending # None PROVE posts'[Head(queue)].desired # None
      <3>1. Flying(Head(queue)) /\ Head(queue) \in Contexts
        BY <2>2, HeadOfQueue DEF Flying
      <3>2. Head(queue) = c => ~Redundant(c, x)
        BY <3>1 DEF Redundant
      <3>. QED BY <1>9, <2>2, <3>1, <3>2, NodePostsEffect DEF None, Payloads
    <2>. QED BY <1>9, <2>1, <2>2, NodePostsEffect DEF Payloads, None
  <1>. QED BY <1>1, <1>2, <1>3, <1>4, <1>5, <1>6, <1>7, <1>8, <1>9, StepKinds DEF Queue

\* GitHub shows what was confirmed because a send that is reported as failed
\* has not arrived, and nobody else writes the run's contexts.
LEMMA ConfirmedKept ==
    ASSUME ~Landing, TypeOK, TypeOK', Nodes, Own, Confirmed, [Next]_vars
    PROVE  Confirmed'
  <1>. USE DEF Confirmed
  <1>1. CASE Seed
    BY <1>1, SeedEffect
  <1>2. CASE RunEnds
    BY <1>2, RunEndsEffect
  <1>3. CASE Calm
    BY <1>3, CalmKeeps
  <1>4. CASE SendNothing
    BY <1>4, SendNothingEffect
  <1>5. CASE SendStarts
    BY <1>5 DEF SendStarts
  <1>6. CASE SendLands
    <2>1. github' = [github EXCEPT ![Head(queue)] = sending]
      BY <1>6 DEF SendLands
    <2>. QED BY <1>6, <2>1, SendLandsEffect DEF SendEnds, TypeOK
  <1>7. CASE SendFails
    BY <1>7, SendFailsEffect DEF SendEnds, SendFails
  <1>8. ASSUME NEW how \in {"cancel", "lease"}, Interrupt(how) PROVE Confirmed'
    BY <1>8, InterruptEffect
  <1>9. ASSUME NEW c \in Contexts, NEW x \in Payloads, NodePosts(c, x) PROVE Confirmed'
    BY <1>9, NodePostsEffect
  <1>. QED BY <1>1, <1>2, <1>3, <1>4, <1>5, <1>6, <1>7, <1>8, <1>9, StepKinds DEF Queue

LEMMA WantsVerdictKept ==
    ASSUME ~DropReruns, TypeOK, TypeOK', Nodes, Own, WantsVerdict, WantsRun, [Next]_vars
    PROVE  WantsVerdict'
  <1>. USE DEF WantsVerdict, Erred
  <1>1. CASE Seed
    BY <1>1, SeedEffect DEF Finished, None
  <1>2. CASE RunEnds
    BY <1>2, RunEndsEffect
  <1>3. CASE Calm
    BY <1>3, CalmKeeps
  <1>4. CASE SendNothing
    BY <1>4, SendNothingEffect DEF Finished, None
  <1>5. CASE SendStarts
    BY <1>5 DEF SendStarts, nodes
  <1>6. CASE SendLands
    <2>1. SendEnds /\ UNCHANGED <<ending, last>> /\ posts[Head(queue)].desired # None
      BY <1>6, SendLandsEffect DEF SendLands, nodes, Own
    <2>2. \/ posts'[Head(queue)].desired = posts[Head(queue)].desired
          \/ /\ posts'[Head(queue)].desired = None
             /\ posts'[Head(queue)].confirmed = posts[Head(queue)].desired
      BY <1>6, <2>1, SendLandsEffect DEF Moved
    <2>. QED BY <2>1, <2>2 DEF SendEnds
  <1>7. CASE SendFails
    BY <1>7, SendFailsEffect DEF SendEnds, SendFails, nodes
  <1>8. ASSUME NEW how \in {"cancel", "lease"}, Interrupt(how) PROVE WantsVerdict'
    <2>1. ASSUME NEW c \in Contexts, last[c] \in Finished PROVE c \notin PendingContexts
      BY <1>8, <2>1, InterruptEffect DEF PendingContexts, Finished, None
    <2>. QED BY <1>8, <2>1, InterruptEffect
  <1>9. ASSUME NEW c \in Contexts, NEW x \in Payloads, NodePosts(c, x) PROVE WantsVerdict'
    <2>1. x \in Finished => last[c] = None \/ last[c] = "run"
      BY <1>9 DEF NodePosts, Nodes, Finished
    <2>2. last[c] = None => posts[c].desired = None
      BY DEF Own
    <2>3. last[c] = "run" => \/ posts[c].desired \in {None, "run"}
                             \/ posts[c].confirmed = "run"
                             \/ ending = "cancel" /\ posts[c].desired = "err"
      BY <1>9, NodePostsEffect DEF WantsRun
    <2>4. x \in Finished => \/ posts'[c].desired = x
                            \/ posts'[c].desired = None /\ posts'[c].confirmed = x
                            \/ ending = "cancel" /\ Erred(posts'[c])
      BY <1>9, <2>1, <2>2, <2>3, NodePostsEffect DEF Redundant, Finished, None
    <2>. QED BY <1>9, <2>4, NodePostsEffect
  <1>. QED BY <1>1, <1>2, <1>3, <1>4, <1>5, <1>6, <1>7, <1>8, <1>9, StepKinds DEF Queue

LEMMA WantsRunKept ==
    ASSUME TypeOK, TypeOK', Nodes, Own, WantsRun, [Next]_vars
    PROVE  WantsRun'
  <1>. USE DEF WantsRun
  <1>1. CASE Seed
    BY <1>1, SeedEffect DEF None
  <1>2. CASE RunEnds
    BY <1>2, RunEndsEffect
  <1>3. CASE Calm
    BY <1>3, CalmKeeps
  <1>4. CASE SendNothing
    BY <1>4, SendNothingEffect DEF Flying
  <1>5. CASE SendStarts
    BY <1>5 DEF SendStarts, nodes, Flying
  <1>6. CASE SendLands
    <2>1. SendEnds /\ UNCHANGED <<ending, last>> /\ posts[Head(queue)].desired # None
      BY <1>6, SendLandsEffect DEF SendLands, nodes, Own
    <2>2. /\ Flying(Head(queue)) /\ \A c \in Contexts : ~Flying(c)'
          /\ sending # None
      BY <1>6, <2>1 DEF Flying, SendLands, SendEnds
    <2>3. \/ /\ posts'[Head(queue)].desired = posts[Head(queue)].desired
             /\ posts[Head(queue)].desired # sending
          \/ /\ posts'[Head(queue)].desired = None
             /\ posts'[Head(queue)].confirmed = sending
      BY <1>6, <2>1, SendLandsEffect DEF Moved
    <2>. QED BY <2>1, <2>2, <2>3 DEF SendEnds
  <1>7. CASE SendFails
    BY <1>7, SendFailsEffect DEF SendEnds, SendFails, nodes, Flying
  <1>8. ASSUME NEW how \in {"cancel", "lease"}, Interrupt(how) PROVE WantsRun'
    <2>1. \A c \in Contexts : Flying(c)' = Flying(c)
      BY <1>8, InterruptEffect DEF Flying
    <2>. QED BY <1>8, <2>1, InterruptEffect DEF None
  <1>9. ASSUME NEW c \in Contexts, NEW x \in Payloads, NodePosts(c, x) PROVE WantsRun'
    <2>1. \A d \in Contexts : Flying(d)' = Flying(d)
      BY <1>9, NodePostsEffect DEF Flying
    <2>2. ~Redundant(c, x) \/ (~Flying(c) /\ posts[c].confirmed = x)
      BY DEF Redundant
    <2>. QED BY <1>9, <2>1, <2>2, NodePostsEffect DEF None
  <1>. QED BY <1>1, <1>2, <1>3, <1>4, <1>5, <1>6, <1>7, <1>8, <1>9, StepKinds DEF Queue

LEMMA LeaseErredKept ==
    ASSUME TypeOK, TypeOK', Nodes, Own, WantsRun, LeaseErred, [Next]_vars
    PROVE  LeaseErred'
  <1>. USE DEF LeaseErred
  <1>1. CASE Seed
    BY <1>1, SeedEffect DEF None
  <1>2. CASE RunEnds
    BY <1>2, RunEndsEffect
  <1>3. CASE Calm
    BY <1>3, CalmKeeps
  <1>4. CASE SendNothing
    BY <1>4, SendNothingEffect DEF None
  <1>5. CASE SendStarts
    BY <1>5 DEF SendStarts, nodes
  <1>6. CASE SendLands
    <2>1. SendEnds /\ UNCHANGED <<ending, last>> /\ posts[Head(queue)].desired # None
      BY <1>6, SendLandsEffect DEF SendLands, nodes, Own
    <2>2. \/ posts'[Head(queue)].desired = posts[Head(queue)].desired
          \/ /\ posts'[Head(queue)].desired = None
             /\ posts'[Head(queue)].confirmed = posts[Head(queue)].desired
      BY <1>6, <2>1, SendLandsEffect DEF Moved
    <2>3. \A c \in Contexts \ {Head(queue)} : posts'[c] = posts[c]
      BY <2>1 DEF SendEnds
    <2>. QED BY <2>1, <2>2, <2>3 DEF None
  <1>7. CASE SendFails
    BY <1>7, SendFailsEffect DEF SendEnds, SendFails, nodes
  <1>8. ASSUME NEW how \in {"cancel", "lease"}, Interrupt(how) PROVE LeaseErred'
    <2>1. ASSUME NEW c \in Contexts, last[c] = "run", c \notin PendingContexts
          PROVE  /\ posts[c].desired # "run"
                 /\ posts[c].desired = None => posts[c].confirmed \notin {None, "run"}
      <3>1. posts[c].owned
        BY <2>1 DEF Own, None
      <3>2. posts[c].desired = None => posts[c].confirmed # None
        BY <1>8, <2>1, InterruptEffect DEF WantsRun
      <3>. QED BY <2>1, <3>1, <3>2 DEF PendingContexts
    <2>. QED BY <1>8, <2>1, InterruptEffect DEF None
  <1>9. ASSUME NEW c \in Contexts, NEW x \in Payloads, NodePosts(c, x) PROVE LeaseErred'
    BY <1>9, NodePostsEffect
  <1>. QED BY <1>1, <1>2, <1>3, <1>4, <1>5, <1>6, <1>7, <1>8, <1>9, StepKinds DEF Queue

-----------------------------------------------------------------------------
(* The theorems.                                                           *)

LEMMA InitIInv == Init => IInv /\ NoLostWake
  <1>. SUFFICES ASSUME Init PROVE IInv /\ NoLostWake
    OBVIOUS
  <1>1. TypeOK
    <2>1. github \in [Contexts -> Payloads \cup {None}]
      BY PosterAssumption DEF Init, Payloads, None
    <2>2. /\ posts \in [Contexts -> Entries] /\ \A c \in Contexts : ~posts[c].wake
          /\ last \in [Contexts -> Payloads \cup {None}]
      BY DEF Init, NoPost, Entries
    <2>3. <<>> \in Seq(Contexts) /\ Len(<<>>) = 0
      BY EmptySeq
    <2>4. moves \in 0 .. MaxMoves /\ awaited \in 0 .. Len(queue)
      BY <2>3, PosterAssumption DEF Init
    <2>. QED BY <2>1, <2>2, <2>3, <2>4 DEF Init, TypeOK, Entries, Ends
  <1>2. Nodes /\ Own /\ Confirmed /\ WantsVerdict /\ WantsRun /\ LeaseErred /\ NoLostWake
    BY DEF Init, Nodes, Own, Confirmed, WantsVerdict, WantsRun, LeaseErred, NoLostWake, NoPost,
           Finished, None
  <1>. QED BY <1>1, <1>2 DEF IInv

\* While a run lives the entries are typed, and a status it owes has a timer or
\* a place in the queue, whatever order posts, sends and failures come in
\* (post, ensureWake, sendLatest).
THEOREM NothingForgotten == Spec => []Inv
  <1>. DEFINE I == TypeOK /\ NoLostWake /\ Nodes /\ Own
  <1>1. Init => I
    BY InitIInv DEF IInv
  <1>2. I /\ [Next]_vars => I'
    BY TypeKept, NoLostWakeKept, OwnKept
  <1>3. I => Inv
    BY DEF Inv
  <1>. QED BY <1>1, <1>2, <1>3, PTL DEF Spec

\* A context that no node of the run reached is never written (seed,
\* pendingContexts, shutdown): another program's pending check is left alone.
THEOREM ForeignLeftAlone == Spec => ForeignUntouched
  <1>. DEFINE I == TypeOK /\ Nodes /\ Own
              Untouched == \A c \in Contexts : last[c] = None => github'[c] = github[c]
  <1>1. Init => I
    BY InitIInv DEF IInv
  <1>2. I /\ [Next]_vars => I'
    BY TypeKept, OwnKept
  <1>3. I /\ [Next]_vars => [Untouched]_vars
    <2>. SUFFICES ASSUME TypeOK, Nodes, Own, [Next]_vars, NEW c \in Contexts, last[c] = None
                  PROVE  github'[c] = github[c]
      OBVIOUS
    <2>1. CASE github' = [github EXCEPT ![Head(queue)] = sending] /\ sending # None
      <3>1. Head(queue) # c
        BY <2>1 DEF Own
      <3>. QED BY <2>1, <3>1 DEF TypeOK
    <2>2. github' = github \/ (github' = [github EXCEPT ![Head(queue)] = sending] /\ sending # None)
      BY StepKinds, RunEndsEffect, InterruptEffect, NodePostsEffect, SeedEffect, SendNothingEffect
         DEF Calm, Queue, SendStarts, SendLands, SendFails
    <2>. QED BY <2>1, <2>2
  <1>4. [][Untouched]_vars => ForeignUntouched
    BY PTL DEF ForeignUntouched
  <1>. QED BY <1>1, <1>2, <1>3, <1>4, PTL DEF Spec

\* Once the poster has closed, GitHub shows the last verdict of every node that
\* finished and "Running" of none, or the record owes it; when a send that is
\* reported as failed did not arrive and no rerun is dropped before it starts
\* (finalize, shutdown).
THEOREM ClosesTruly ==
    ASSUME ~Landing, ~DropReruns
    PROVE  Spec => []ClosesTrue
  <1>1. Init => IInv
    BY InitIInv
  <1>2. IInv /\ [Next]_vars => IInv'
    BY TypeKept, OwnKept, ConfirmedKept, WantsVerdictKept, WantsRunKept, LeaseErredKept DEF IInv
  <1>3. IInv => ClosesTrue
    <2>. SUFFICES ASSUME IInv, phase = "closed" PROVE FinishedIsShown /\ NothingStranded
      BY DEF ClosesTrue, FinishedIsShown, NothingStranded
    <2>. USE DEF IInv
    <2>1. \A c \in Contexts : posts[c].confirmed \in {None, github[c]}
      BY DEF Confirmed
    <2>2. FinishedIsShown
      <3>. SUFFICES ASSUME NEW c \in Contexts, last[c] \notin {None, "run"}
                    PROVE  \/ github[c] = last[c]
                           \/ Owed(posts[c])
                           \/ ending = "cancel" /\ github[c] = "err"
        BY DEF FinishedIsShown
      <3>1. last[c] \in Finished
        BY DEF Nodes
      <3>. QED BY <2>1, <3>1 DEF WantsVerdict, Erred, Owed, Finished, None
    <2>3. NothingStranded
      <3>. SUFFICES ASSUME ending # "cancel", NEW c \in Contexts, posts[c].owned, github[c] = "run"
                    PROVE  Owed(posts[c])
        BY DEF NothingStranded
      <3>1. last[c] # None
        BY DEF Own
      <3>2. CASE last[c] = "run"
        <4>1. ending = "lease"
          BY <3>2 DEF Nodes, TypeOK, Ends
        <4>. QED BY <2>1, <3>2, <4>1 DEF LeaseErred, Owed, None
      <3>3. CASE last[c] # "run"
        BY <2>2, <3>1, <3>3 DEF FinishedIsShown, Nodes, Finished
      <3>. QED BY <3>2, <3>3
    <2>. QED BY <2>2, <2>3
  <1>. QED BY <1>1, <1>2, <1>3, PTL DEF Spec

-----------------------------------------------------------------------------
(***************************************************************************)
(* The runs of a checkout, and the wait.                                   *)
(***************************************************************************)
\* What the ordinal r reserved says.
Says(r) == ledger[seq[r]].says

\* An ordinal is its run's until the run hands it back, unseen; and what bears a
\* run's name is at its ordinal.
Ordinals ==
    /\ \A r \in Runs : seq[r] # 0 /\ (pc[r] = "gone" => r \in published) =>
          ledger[seq[r]] # Nobody /\ ledger[seq[r]].by = r
    /\ \A n \in Seqs : ledger[n] # Nobody => seq[ledger[n].by] = n

\* A run has an ordinal and is seen in the order of its start.
Seen ==
    \A r \in Runs :
        /\ pc[r] \in {"new", "locked"} \cup Starting => seq[r] = 0
        /\ pc[r] \in {"new", "locked", "reserved", "unwinding"} \cup Starting => r \notin published
        /\ r \notin published => snap[r] = Nobody
        /\ halt[r] # "no" => snap[r] # Nobody
        /\ r \notin published /\ seq[r] # 0 /\ pc[r] # "gone" => Says(r) = "reserved"

\* A pid file is of a run that has created it; without a pid, one that is about to
\* write it, or killed.
Inode ==
    lock # Nobody =>
        /\ pc[lock.by] \notin {"new"} \cup (Starting \ {"write"})
        /\ ~ lock.full => pc[lock.by] \in {"write", "killed"}

Typed == RunsTypeOK /\ Ordinals /\ Seen /\ Inode

\* While a run is up, an end that is recorded or was seen by the interrupt is what
\* its nodes say.
EndHolds ==
    \A r \in Runs \ stale : pc[r] \in Up =>
        /\ seq[r] # 0 /\ Says(r) \in Ended => state[r] = Says(r)
        /\ snap[r] \in Ended => state[r] = snap[r]

\* The run has recorded its end, and its nodes have not resumed unseen since.
Concluded(r) == r \notin stale /\ seq[r] # 0 /\ Says(r) \in Ended

\* The last frame on the way is what the run says now; an end it has recorded is on
\* the way.
Wired ==
    link # Nobody /\ wire # <<>> =>
        /\ pc[link] \in Up => wire[Len(wire)] = state[link]
        /\ Concluded(link) => Says(link) \in Range(wire)

\* Of the run of the last frame, what it says or has recorded is among what it has
\* said since.
Heard ==
    at # "returned" /\ lastLive # Nobody =>
        LET r == lastLive.run IN
        /\ r \in published /\ lastLive.says \notin Ended
        /\ pc[r] \in Up /\ state[r] \in Ended => state[r] \in since
        /\ Concluded(r) => Says(r) \in since

WaitIInv == WaitTypeOK /\ Typed /\ EndHolds /\ Wired /\ Heard /\ VerdictIsTrue

\* What a step of r's process does to the others, and to r once it has been seen: an
\* ordinal is kept, and what it says changes only while its run is up.
Goes(r) ==
    /\ published \subseteq published' /\ stale \subseteq stale'
    /\ \A q \in published : pc'[q] \in Up => pc[q] \in Up
    /\ \A q \in Runs \ {r} : state'[q] = state[q] /\ (pc'[q] \in Up => pc[q] \in Up)
    /\ \A q \in published : seq'[q] = seq[q]
    /\ \A q \in published : seq[q] # 0 /\ ~ (q = r /\ pc'[q] \in Up) =>
          ledger'[seq[q]] = ledger[seq[q]]

-----------------------------------------------------------------------------
LEMMA SeqsAre == Cardinality(Runs) \in Nat /\ Seqs \subseteq Nat /\ 0 \notin Seqs
  BY FS_CardinalityType, RunsAssumption DEF Seqs

\* A set of ordinals has a greatest.
LEMMA MaxIs ==
  ASSUME NEW S, S \subseteq Seqs, S # {}
  PROVE  Max(S) \in S /\ \A n \in S : Max(S) >= n
<1> DEFINE N == Cardinality(Runs)
<1> DEFINE T == {N - n : n \in S}
<1>1. N \in Nat /\ Seqs = 1..N
  BY SeqsAre DEF Seqs
<1> HIDE DEF N
<1>2. T \subseteq Nat /\ T # {}
  <2>1. \A n \in 1..N : N - n \in Nat
    BY <1>1
  <2> QED BY <2>1, <1>1
<1>3. \E x \in T : \A y \in T : ~ (<<y, x>> \in OpToRel(<, Nat))
  <2> HIDE DEF T
  <2> QED BY <1>2, NatLessThanWellFounded, WFMin
<1>4. PICK x \in T : \A y \in T : ~ (<<y, x>> \in OpToRel(<, Nat))
  BY <1>3
<1>5. PICK m \in S : x = N - m
  BY <1>4
<1>6. \A n \in S : m >= n
  <2> SUFFICES ASSUME NEW n \in S PROVE m >= n
    OBVIOUS
  <2>1. N - n \in T /\ N - n \in Nat /\ x \in Nat
    BY <1>2, <1>4
  <2>2. ~ (N - n < x)
    BY <2>1, <1>4 DEF OpToRel
  <2> QED BY <2>2, <1>1, <1>5
<1>7. QED BY <1>6 DEF Max

\* The next ordinal is nobody's.
LEMMA NextSeqFree == NextSeq \in Seqs => ledger[NextSeq] = Nobody
<1>1. CASE Taken = {}
  BY <1>1 DEF Taken, NextSeq
<1>2. CASE Taken # {}
  <2>1. Max(Taken) \in Taken /\ \A n \in Taken : Max(Taken) >= n
    BY <1>2, MaxIs DEF Taken
  <2>2. Max(Taken) \in Nat
    BY <2>1, SeqsAre DEF Taken
  <2>3. NextSeq = Max(Taken) + 1
    BY <1>2 DEF NextSeq
  <2>4. NextSeq \notin Taken
    BY <2>1, <2>2, <2>3
  <2> QED BY <2>4 DEF Taken
<1> QED BY <1>1, <1>2

\* Nobody is none of the values it stands beside.
LEMMA NobodyIs ==
  /\ Nobody \notin Runs /\ Nobody \notin Outcomes /\ Nobody \notin Ended
  /\ Nobody \notin Locks /\ Nobody \notin Files
  BY NobodyAssumption DEF Outcomes

-----------------------------------------------------------------------------
(***************************************************************************)
(* The steps of a process.  First those that only move it, before it has   *)
(* an ordinal or has bound the socket.                                     *)
(***************************************************************************)
LEMMA Moves ==
  ASSUME Typed, EndHolds, NEW r \in Runs, NEW to,
         pc[r] \in {"new"} \cup (Starting \ {"write"}), to \in Starting \cup {"gone"},
         pc' = [pc EXCEPT ![r] = to],
         UNCHANGED <<lock, sock, ends, faults, rest>>
  PROVE  Typed' /\ EndHolds' /\ Goes(r)
<1> USE DEF ends, rest, Typed
<1>1. RunsTypeOK'
  BY DEF RunsTypeOK, Starting, Holding, Up
<1>2. Ordinals'
  BY DEF RunsTypeOK, Ordinals, Seen, Starting
<1>3. Seen'
  BY DEF RunsTypeOK, Seen, Starting, Says
<1>4. Inode'
  BY DEF RunsTypeOK, Inode, Starting, Locks
<1>5. EndHolds'
  BY DEF RunsTypeOK, EndHolds, Starting, Up, Says
<1>6. Goes(r)
  BY DEF RunsTypeOK, Goes, Starting, Up
<1> QED BY <1>1, <1>2, <1>3, <1>4, <1>5, <1>6

\* The interrupt begins on a run that is up.
LEMMA Interrupts ==
  ASSUME Typed, EndHolds, NEW r \in Runs, NEW q \in Runs, NEW b \in BOOLEAN,
         Interrupted(q, b),
         \/ UNCHANGED pc
         \/ /\ pc[r] \in {"new", "confirmed"} /\ r # q
            /\ pc' = [pc EXCEPT ![r] = IF pc[r] = "new" THEN "cancelling" ELSE "terming"],
         UNCHANGED <<lock, sock, ledger, seq, published, state, stale, reruns, faults>>
  PROVE  Typed' /\ EndHolds' /\ Goes(r)
<1> USE DEF Typed, Interrupted
<1>0. r # q => pc[r] \in {"new", "confirmed"} \/ UNCHANGED pc
  OBVIOUS
<1>1. RunsTypeOK'
  BY DEF RunsTypeOK, Starting, Holding, Up
<1>2. Ordinals'
  BY DEF RunsTypeOK, Ordinals, Seen, Starting
<1>3. Seen'
  BY NobodyIs DEF RunsTypeOK, Seen, Starting, Says, Up
<1>4. Inode'
  BY DEF RunsTypeOK, Inode, Starting, Locks
<1>5. EndHolds'
  BY DEF RunsTypeOK, EndHolds, Starting, Up, Says
<1>6. Goes(r)
  BY DEF RunsTypeOK, Goes, Starting, Up
<1> QED BY <1>1, <1>2, <1>3, <1>4, <1>5, <1>6

\* A process that is not up is killed, or leaves with its lock.
LEMMA Deaths ==
  ASSUME Typed, EndHolds, NEW r \in Runs, NEW q \in Runs,
         pc[q] \notin Up,
         pc' = [pc EXCEPT ![r] = "terming", ![q] = "killed"],
         pc[r] = "confirmed", r # q, pc[q] # "gone",
         UNCHANGED <<lock, sock, ends, faults, rest>>
  PROVE  Typed' /\ EndHolds' /\ Goes(r)
<1> USE DEF ends, rest, Typed
<1>1. RunsTypeOK'
  BY DEF RunsTypeOK, Starting, Holding, Up
<1>2. Ordinals'
  BY DEF RunsTypeOK, Ordinals, Seen, Starting
<1>3. Seen'
  BY DEF RunsTypeOK, Seen, Starting, Says
<1>4. Inode'
  BY DEF RunsTypeOK, Inode, Starting, Locks
<1>5. EndHolds'
  BY DEF RunsTypeOK, EndHolds, Starting, Up, Says
<1>6. Goes(r)
  BY DEF RunsTypeOK, Goes, Starting, Up
<1> QED BY <1>1, <1>2, <1>3, <1>4, <1>5, <1>6

\* What stands at the socket, or is named by the lock.
LEMMA ServedIs == ASSUME RunsTypeOK
  PROVE Served = Nobody \/ (Served \in Runs /\ Served = sock /\ pc[Served] \in Up)
  BY DEF Served, RunsTypeOK

LEMMA LockPidIs == ASSUME RunsTypeOK
  PROVE LockPid = Nobody \/ (LockPid \in Runs /\ Alive(LockPid) /\ lock # Nobody /\ lock.full
                               /\ LockPid = lock.by)
  BY DEF LockPid, RunsTypeOK, Locks

LEMMA CheckoutSteps1 ==
  ASSUME Typed, EndHolds, NEW r \in Runs,
         \/ DialExisting(r) \/ Supersede(r) \/ CancelConfirmed(r) \/ NotInTime(r)
         \/ SignalHolder(r) \/ HolderGone(r) \/ Look(r) \/ BeginShutdown(r)
  PROVE  Typed' /\ EndHolds' /\ Goes(r)
<1>1. CASE \/ DialExisting(r) \/ CancelConfirmed(r) \/ NotInTime(r)
           \/ HolderGone(r) \/ Look(r)
  <2>1. PICK to \in Starting \cup {"gone"} :
           /\ pc[r] \in {"new"} \cup (Starting \ {"write"})
           /\ pc' = [pc EXCEPT ![r] = to]
           /\ UNCHANGED <<lock, sock, ends, faults, rest>>
    BY <1>1 DEF DialExisting, CancelConfirmed, NotInTime, HolderGone, Look, At, Starting
  <2> QED BY <2>1, Moves
<1>2. CASE BeginShutdown(r)
  <2>1. PICK b \in BOOLEAN : Interrupted(r, b)
    BY <1>2 DEF BeginShutdown
  <2> QED BY <1>2, <2>1, Interrupts DEF BeginShutdown
<1>3. CASE Supersede(r)
  <2>1. CASE Served = Nobody \/ halt[Served] # "no"
    <3>1. PICK to \in Starting \cup {"gone"} : pc' = [pc EXCEPT ![r] = to]
      BY <1>3 DEF Supersede, At, Starting
    <3>2. pc[r] = "new" /\ UNCHANGED <<lock, sock, ends, faults, rest>>
      BY <1>3, <2>1 DEF Supersede, At, rest
    <3> QED BY <3>1, <3>2, Moves
  <2>2. CASE ~ (Served = Nobody \/ halt[Served] # "no")
    <3>1. Served \in Runs /\ pc[Served] \in Up
      BY <2>2, ServedIs DEF Typed
    <3>2. Interrupted(Served, FALSE) /\ pc[r] = "new" /\ pc' = [pc EXCEPT ![r] = "cancelling"]
          /\ UNCHANGED <<lock, sock, ledger, seq, published, state, stale, reruns, faults>>
      BY <1>3, <2>2 DEF Supersede, At
    <3>3. r # Served
      BY <3>1, <3>2 DEF Up
    <3> HIDE DEF Served
    <3> QED BY <3>1, <3>2, <3>3, Interrupts
  <2> QED BY <2>1, <2>2
<1>4. CASE SignalHolder(r)
  <2> DEFINE q == LockPid
  <2>0. pc[r] = "confirmed"
        /\ UNCHANGED <<lock, sock, ledger, seq, published, state, stale, reruns, faults>>
    BY <1>4 DEF SignalHolder
  <2>1. CASE q = Nobody
    <3>1. pc' = [pc EXCEPT ![r] = "unlink"] /\ UNCHANGED <<ends, open>>
      BY <1>4, <2>1 DEF SignalHolder
    <3> QED BY <2>0, <3>1, Moves DEF rest, Starting
  <2>2. CASE q # Nobody /\ pc[q] \in Up /\ halt[q] = "no"
    <3>1. q \in Runs
      BY <2>2, LockPidIs DEF Typed
    <3>2. pc' = [pc EXCEPT ![r] = "terming"] /\ Interrupted(q, FALSE)
      BY <1>4, <2>2, <3>1 DEF SignalHolder, Typed, RunsTypeOK
    <3>3. r # q
      BY <2>0, <2>2 DEF Up
    <3> HIDE DEF q
    <3> QED BY <2>0, <3>1, <3>2, <3>3, Interrupts
  <2>3. CASE q # Nobody /\ ~ (pc[q] \in Up /\ halt[q] = "no")
    <3>1. q \in Runs /\ Alive(q)
      BY <2>3, LockPidIs DEF Typed
    <3>2. CASE pc' = [pc EXCEPT ![r] = "terming", ![q] = "killed"] /\ q \notin published
               /\ UNCHANGED <<ends, open>>
      <4>1. pc[q] \notin Up /\ pc[q] # "gone"
        BY <3>1, <3>2 DEF Typed, RunsTypeOK, Alive, Starting, Holding
      <4>2. CASE r = q
        <5>1. pc[r] = "confirmed" /\ lock # Nobody /\ lock.by = r
          BY <2>0, <2>3, <4>2, LockPidIs DEF Typed
        <5> QED BY <5>1 DEF Typed, Inode, Starting
      <4>3. CASE r # q
        <5> HIDE DEF q
        <5> QED BY <2>0, <3>1, <3>2, <4>1, <4>3, Deaths DEF rest
      <4> QED BY <4>2, <4>3
    <3>3. CASE pc' = [pc EXCEPT ![r] = "terming"] /\ UNCHANGED <<ends, open>>
      BY <2>0, <3>3, Moves DEF rest, Starting
    <3> QED BY <1>4, <2>3, <3>2, <3>3 DEF SignalHolder
  <2> QED BY <2>1, <2>2, <2>3
<1> QED BY <1>1, <1>2, <1>3, <1>4

\* The lock, call by call.
LEMMA CheckoutSteps2 ==
  ASSUME Typed, EndHolds, NEW r \in Runs,
         Unlink(r) \/ Create(r) \/ WritePid(r)
  PROVE  Typed' /\ EndHolds' /\ Goes(r)
<1> USE NobodyIs DEF ends, rest, Typed, Unlink, Create, WritePid, At
<1>0. [by |-> r, full |-> FALSE] \in Locks
      /\ (lock \in Locks => [lock EXCEPT !.full = TRUE] \in Locks)
  BY DEF Locks
<1>1. RunsTypeOK'
  BY <1>0 DEF RunsTypeOK, Starting, Holding, Up
<1>2. Ordinals'
  BY DEF RunsTypeOK, Ordinals, Seen, Starting
<1>3. Seen'
  BY DEF RunsTypeOK, Seen, Starting, Says
<1>4. Inode'
  BY DEF RunsTypeOK, Inode, Starting, Locks
<1>5. EndHolds'
  BY DEF RunsTypeOK, EndHolds, Starting, Up, Says
<1>6. Goes(r)
  BY DEF RunsTypeOK, Goes, Starting, Up
<1> QED BY <1>1, <1>2, <1>3, <1>4, <1>5, <1>6

LEMMA ReserveSteps ==
  ASSUME Typed, EndHolds, NEW r \in Runs, ReserveSeq(r)
  PROVE  Typed' /\ EndHolds' /\ Goes(r)
<1> USE NobodyIs, SeqsAre, NextSeqFree, CheckoutBounds
    DEF ends, Typed, ReserveSeq, At, Fault, Files, OnDisk, Outcomes
<1> HIDE DEF NextSeq
<1>1. RunsTypeOK'
  BY DEF RunsTypeOK, Starting, Holding, Up
<1>2. Ordinals'
  BY DEF RunsTypeOK, Ordinals, Seen, Starting
<1>3. Seen'
  BY DEF RunsTypeOK, Ordinals, Seen, Starting, Says
<1>4. Inode'
  BY DEF RunsTypeOK, Inode, Starting, Locks
<1>5. EndHolds'
  BY DEF RunsTypeOK, Ordinals, EndHolds, Starting, Up, Says
<1>6. Goes(r)
  BY DEF RunsTypeOK, Ordinals, Seen, Goes, Starting, Up
<1> QED BY <1>1, <1>2, <1>3, <1>4, <1>5, <1>6

LEMMA ServeSteps ==
  ASSUME Typed, EndHolds, NEW r \in Runs, ServeSocket(r)
  PROVE  Typed' /\ EndHolds' /\ Goes(r)
<1> USE NobodyIs DEF ends, Typed, ServeSocket, At
<1>1. RunsTypeOK'
  BY DEF RunsTypeOK, Starting, Holding, Up, Served
<1>2. Ordinals'
  BY DEF RunsTypeOK, Ordinals, Seen, Starting
<1>3. Seen'
  BY DEF RunsTypeOK, Seen, Starting, Says
<1>4. Inode'
  BY DEF RunsTypeOK, Inode, Starting, Locks
<1>5. EndHolds'
  BY DEF RunsTypeOK, Seen, EndHolds, Starting, Up, Says, Ended
<1>6. Goes(r)
  BY DEF RunsTypeOK, Seen, Goes, Starting, Up
<1> QED BY <1>1, <1>2, <1>3, <1>4, <1>5, <1>6

\* The record is written, or it is not.
LEMMA Records ==
  ASSUME Typed, NEW r \in Runs, NEW says, FinalizeRecord(r, says)
  PROVE  /\ faults' \in 0..MaxFaults
         /\ \/ ledger' = ledger
            \/ seq[r] # 0 /\ ledger' = [ledger EXCEPT ![seq[r]] = [by |-> r, says |-> says]]
  BY CheckoutBounds DEF Typed, RunsTypeOK, FinalizeRecord, Fault

\* A run that is up goes on: its nodes end or resume, it records that, or not, and its
\* end makes progress.  What it says afterwards is says, what it has recorded told.
LEMMA Recording ==
  ASSUME Typed, EndHolds, NEW r \in Runs, pc[r] \in Up,
         NEW to \in Up, NEW says \in Outcomes, NEW told \in Outcomes,
         pc' = [pc EXCEPT ![r] = to], state' = [state EXCEPT ![r] = says],
         faults' \in 0..MaxFaults,
         \/ /\ ledger' = ledger
            /\ r \notin stale' => (seq[r] # 0 /\ Says(r) \in Ended => Says(r) = says)
         \/ /\ seq[r] # 0 /\ ledger' = [ledger EXCEPT ![seq[r]] = [by |-> r, says |-> told]]
            /\ r \notin stale' => (told \in Ended => told = says),
         r \notin stale' => (snap[r] \in Ended => snap[r] = says),
         open' \subseteq open, stale \subseteq stale', stale' \subseteq stale \cup {r},
         reruns' \in 0..MaxReruns, halt' \in [Runs -> {"no", "finalizing", "recorded"}],
         \A q \in Runs : halt'[q] # "no" => halt[q] # "no",
         UNCHANGED <<lock, sock, seq, published, snap>>
  PROVE  Typed' /\ EndHolds' /\ Goes(r)
<1> USE DEF Typed
<1>0. /\ ledger' \in [Seqs -> {Nobody} \cup Files]
      /\ \A n \in Seqs : n # seq[r] => ledger'[n] = ledger[n]
      /\ seq[r] # 0 => ledger'[seq[r]] # Nobody /\ ledger'[seq[r]].by = r
      /\ r \notin stale' => (seq[r] # 0 /\ ledger'[seq[r]].says \in Ended
                               => ledger'[seq[r]].says = says)
      /\ r \in published
  <2>1. r \in published /\ pc[r] # "gone"
    BY DEF RunsTypeOK, Up
  <2>2. [by |-> r, says |-> told] \in Files
    BY DEF Files, OnDisk
  <2>3. [by |-> r, says |-> told] # Nobody
    BY <2>2, NobodyIs
  <2>4. seq[r] # 0 => seq[r] \in Seqs
    BY DEF RunsTypeOK
  <2>5. CASE ledger' = ledger
    BY <2>1, <2>4, <2>5, SeqsAre DEF RunsTypeOK, Ordinals, Says
  <2>6. CASE seq[r] # 0 /\ ledger' = [ledger EXCEPT ![seq[r]] = [by |-> r, says |-> told]]
    <3>1. (r \notin stale' => (told \in Ended => told = says)) \/ ledger' = ledger
      OBVIOUS
    <3>2. CASE ledger' = ledger
      BY <2>1, <2>4, <3>2, SeqsAre DEF RunsTypeOK, Ordinals, Says
    <3>3. CASE r \notin stale' => (told \in Ended => told = says)
      BY <2>1, <2>2, <2>3, <2>4, <2>6, <3>3 DEF RunsTypeOK
    <3> QED BY <3>1, <3>2, <3>3
  <2> QED BY <2>5, <2>6
<1>1. RunsTypeOK'
  BY <1>0 DEF RunsTypeOK, Starting, Holding, Up
<1>a. \A q \in Runs : q # r /\ seq[q] # 0 /\ (pc[q] = "gone" => q \in published) => seq[q] # seq[r]
  BY DEF RunsTypeOK, Ordinals, Up
<1>b. pc' \in [Runs -> {"gone"} \cup {pc'[q] : q \in Runs}]
      /\ \A q \in Runs : q # r => pc'[q] = pc[q]
  BY DEF RunsTypeOK
<1>2. Ordinals'
  <2>1. ASSUME NEW q \in Runs, seq[q] # 0, pc'[q] = "gone" => q \in published
        PROVE  ledger'[seq[q]] # Nobody /\ ledger'[seq[q]].by = q
    <3>1. CASE q = r
      BY <1>0, <2>1, <3>1
    <3>2. CASE q # r
      BY <1>0, <1>a, <1>b, <2>1, <3>2 DEF RunsTypeOK, Ordinals
    <3> QED BY <3>1, <3>2
  <2>2. ASSUME NEW n \in Seqs, ledger'[n] # Nobody
        PROVE  seq[ledger'[n].by] = n
    <3>1. CASE n = seq[r]
      BY <1>0, <2>2, <3>1, SeqsAre
    <3>2. CASE n # seq[r]
      BY <1>0, <2>2, <3>2 DEF Ordinals
    <3> QED BY <3>1, <3>2
  <2> QED BY <2>1, <2>2 DEF Ordinals
<1>3. Seen'
  BY <1>0, <1>a DEF RunsTypeOK, Ordinals, Seen, Starting, Says, Up
<1>4. Inode'
  BY DEF RunsTypeOK, Inode, Starting, Locks, Up
<1>5. EndHolds'
  <2> SUFFICES ASSUME NEW q \in Runs \ stale', pc'[q] \in Up
               PROVE  /\ seq'[q] # 0 /\ ledger'[seq'[q]].says \in Ended
                           => state'[q] = ledger'[seq'[q]].says
                      /\ snap'[q] \in Ended => state'[q] = snap'[q]
    BY DEF EndHolds, Says
  <2>1. CASE q = r
    BY <1>0, <2>1 DEF RunsTypeOK
  <2>2. CASE q # r
    <3>1. pc[q] \in Up /\ q \in published /\ pc[q] # "gone" /\ state'[q] = state[q]
      BY <1>b, <2>2 DEF RunsTypeOK, Up
    <3>2. seq[q] # 0 => ledger'[seq[q]] = ledger[seq[q]]
      BY <1>0, <1>a, <2>2, <3>1 DEF RunsTypeOK
    <3> QED BY <3>1, <3>2 DEF EndHolds, Says
  <2> QED BY <2>1, <2>2
<1>6. Goes(r)
  BY <1>0, <1>a DEF RunsTypeOK, Ordinals, Goes, Up
<1> QED BY <1>1, <1>2, <1>3, <1>4, <1>5, <1>6

\* Where a process or a node stays, EXCEPT says nothing.
LEMMA Stays == ASSUME Typed, NEW r \in Runs
  PROVE  /\ pc = [pc EXCEPT ![r] = pc[r]] /\ state = [state EXCEPT ![r] = state[r]]
         /\ pc[r] \in Up => r \in published
  BY DEF Typed, RunsTypeOK

LEMMA NodesSteps ==
  ASSUME Typed, EndHolds, NEW r \in Runs, NodesGoOn(r)
  PROVE  Typed' /\ EndHolds' /\ Goes(r)
<1>1. PICK s \in May(state[r]) :
         LET settles == s \in Ended /\ halt[r] = "no" IN
         /\ r \in open /\ pc[r] = "serving"
         /\ state' = [state EXCEPT ![r] = s]
         /\ IF settles /\ r \in Linger THEN FinalizeRecord(r, s)
            ELSE UNCHANGED <<ledger, faults>>
         /\ IF settles /\ r \notin Linger
            THEN At(r, "serving", "finalizing") /\ open' = open \ {r}
            ELSE UNCHANGED <<pc, open>>
         /\ UNCHANGED <<lock, sock, seq, published, ends, stale, reruns>>
  BY DEF NodesGoOn
<1>2. s \in Outcomes /\ state[r] \notin Ended /\ pc[r] \in Up
  BY <1>1 DEF May, Outcomes, Ended, Up
<1>3. r \notin stale => snap[r] \notin Ended /\ ~ (seq[r] # 0 /\ Says(r) \in Ended)
  BY <1>2 DEF EndHolds
<1>4. /\ faults' \in 0..MaxFaults
      /\ \/ ledger' = ledger
         \/ seq[r] # 0 /\ ledger' = [ledger EXCEPT ![seq[r]] = [by |-> r, says |-> s]]
  <2>1. CASE UNCHANGED <<ledger, faults>>
    BY <2>1 DEF Typed, RunsTypeOK
  <2>2. CASE FinalizeRecord(r, s)
    BY <2>2, Records
  <2> QED BY <1>1, <2>1, <2>2
<1>5. PICK to \in Up : pc' = [pc EXCEPT ![r] = to]
  BY <1>1, Stays DEF Up, At
<1>6. /\ open' \subseteq open /\ halt' \in [Runs -> {"no", "finalizing", "recorded"}]
      /\ \A q \in Runs : halt'[q] # "no" => halt[q] # "no"
      /\ reruns' \in 0..MaxReruns /\ stale' = stale
      /\ UNCHANGED <<lock, sock, seq, published, snap>>
  BY <1>1 DEF Typed, RunsTypeOK, ends
<1>7. \/ /\ ledger' = ledger
         /\ r \notin stale' => (seq[r] # 0 /\ Says(r) \in Ended => Says(r) = s)
      \/ /\ seq[r] # 0 /\ ledger' = [ledger EXCEPT ![seq[r]] = [by |-> r, says |-> s]]
         /\ r \notin stale' => (s \in Ended => s = s)
  BY <1>3, <1>4, <1>6
<1>8. r \notin stale' => (snap[r] \in Ended => snap[r] = s)
  BY <1>3, <1>6
<1> QED BY <1>1, <1>2, <1>4, <1>5, <1>6, <1>7, <1>8, Recording

LEMMA RerunSteps ==
  ASSUME Typed, EndHolds, NEW r \in Runs, Rerun(r)
  PROVE  Typed' /\ EndHolds' /\ Goes(r)
<1> DEFINE resumes == state[r] \in Ended
<1> DEFINE rewrites == resumes /\ Written(r)
<1>1. /\ r \in open /\ pc[r] = "serving" /\ state[r] # "going"
      /\ reruns < MaxReruns /\ reruns' = reruns + 1
      /\ state' = [state EXCEPT ![r] = "going"]
      /\ IF rewrites THEN FinalizeRecord(r, "going") ELSE UNCHANGED <<ledger, faults>>
      /\ stale' = IF \/ resumes /\ snap[r] \in Ended
                     \/ rewrites /\ ledger[seq[r]].says \in Ended /\ ledger' = ledger
                  THEN stale \cup {r} ELSE stale
      /\ UNCHANGED <<pc, lock, sock, seq, published, open, ends>>
  BY DEF Rerun
<1>2. pc[r] \in Up /\ "going" \in Outcomes /\ "going" \notin Ended /\ "reserved" \notin Ended
  BY <1>1 DEF Up, Outcomes, Ended
<1>3. r \notin stale' => /\ snap[r] \notin Ended
                         /\ ledger' = ledger => ~ (seq[r] # 0 /\ Says(r) \in Ended)
  <2> SUFFICES ASSUME r \notin stale'
               PROVE  /\ snap[r] \notin Ended
                      /\ ledger' = ledger => ~ (seq[r] # 0 /\ Says(r) \in Ended)
    OBVIOUS
  <2>1. r \notin stale /\ ~ (resumes /\ snap[r] \in Ended)
        /\ ~ (rewrites /\ ledger[seq[r]].says \in Ended /\ ledger' = ledger)
    BY <1>1
  <2>2. snap[r] \notin Ended
    BY <1>2, <2>1 DEF EndHolds
  <2>3. seq[r] # 0 /\ Says(r) \in Ended => rewrites
    BY <1>2, <2>1 DEF EndHolds, Written, Says
  <2> QED BY <2>1, <2>2, <2>3 DEF Says
<1>4. /\ faults' \in 0..MaxFaults
      /\ \/ ledger' = ledger
         \/ seq[r] # 0 /\ ledger' = [ledger EXCEPT ![seq[r]] = [by |-> r, says |-> "going"]]
  <2>1. CASE UNCHANGED <<ledger, faults>>
    BY <2>1 DEF Typed, RunsTypeOK
  <2>2. CASE FinalizeRecord(r, "going")
    BY <2>2, Records
  <2> QED BY <1>1, <2>1, <2>2
<1>5. pc' = [pc EXCEPT ![r] = pc[r]]
  BY <1>1, Stays
<1>6. /\ open' \subseteq open /\ halt' \in [Runs -> {"no", "finalizing", "recorded"}]
      /\ \A q \in Runs : halt'[q] # "no" => halt[q] # "no"
      /\ stale \subseteq stale' /\ stale' \subseteq stale \cup {r}
      /\ UNCHANGED <<lock, sock, seq, published, snap>>
  BY <1>1 DEF Typed, RunsTypeOK, ends
<1>7. reruns' \in 0..MaxReruns
  BY <1>1, CheckoutBounds DEF Typed, RunsTypeOK
<1>8. \/ /\ ledger' = ledger
         /\ r \notin stale' => (seq[r] # 0 /\ Says(r) \in Ended => Says(r) = "going")
      \/ /\ seq[r] # 0 /\ ledger' = [ledger EXCEPT ![seq[r]] = [by |-> r, says |-> "going"]]
         /\ r \notin stale' => ("going" \in Ended => "going" = "going")
  BY <1>3, <1>4
<1>9. r \notin stale' => (snap[r] \in Ended => snap[r] = "going")
  BY <1>3
<1> HIDE DEF rewrites, resumes
<1> QED BY <1>1, <1>2, <1>4, <1>5, <1>6, <1>7, <1>8, <1>9, Recording

LEMMA EndSteps ==
  ASSUME Typed, EndHolds, NEW r \in Runs, ShutdownRecords(r) \/ EndRecords(r)
  PROVE  Typed' /\ EndHolds' /\ Goes(r)
<1> DEFINE says == state[r]
<1>0. says \in Outcomes /\ state = [state EXCEPT ![r] = says]
  BY Stays DEF Typed, RunsTypeOK
<1>1. PICK told \in Outcomes :
         /\ FinalizeRecord(r, told) /\ pc[r] \in Up
         /\ r \notin stale => (told \in Ended => told = says)
  <2>1. CASE ShutdownRecords(r)
    <3>1. pc[r] \in Up /\ halt[r] = "finalizing" /\ FinalizeRecord(r, snap[r])
      BY <2>1 DEF ShutdownRecords
    <3>2. snap[r] \in Outcomes
      BY <3>1 DEF Typed, RunsTypeOK, Seen
    <3>3. r \notin stale => (snap[r] \in Ended => snap[r] = says)
      BY <3>1 DEF EndHolds
    <3> QED BY <3>1, <3>2, <3>3
  <2>2. CASE EndRecords(r)
    BY <1>0, <2>2 DEF EndRecords, At, Up
  <2> QED BY <2>1, <2>2
<1>2. PICK to \in Up : pc' = [pc EXCEPT ![r] = to]
  BY <1>1, Stays DEF ShutdownRecords, EndRecords, At, Up
<1>3. /\ open' \subseteq open /\ halt' \in [Runs -> {"no", "finalizing", "recorded"}]
      /\ \A q \in Runs : halt'[q] # "no" => halt[q] # "no"
      /\ stale' = stale /\ reruns' \in 0..MaxReruns /\ state' = state
      /\ UNCHANGED <<lock, sock, seq, published, snap>>
  BY DEF ShutdownRecords, EndRecords, Typed, RunsTypeOK, ends
<1>4. /\ faults' \in 0..MaxFaults
      /\ \/ ledger' = ledger
         \/ seq[r] # 0 /\ ledger' = [ledger EXCEPT ![seq[r]] = [by |-> r, says |-> told]]
  BY <1>1, Records
<1>5. \/ /\ ledger' = ledger
         /\ r \notin stale' => (seq[r] # 0 /\ Says(r) \in Ended => Says(r) = says)
      \/ /\ seq[r] # 0 /\ ledger' = [ledger EXCEPT ![seq[r]] = [by |-> r, says |-> told]]
         /\ r \notin stale' => (told \in Ended => told = says)
  BY <1>1, <1>3, <1>4 DEF EndHolds
<1>6. r \notin stale' => (snap[r] \in Ended => snap[r] = says)
  BY <1>1, <1>3 DEF EndHolds
<1>7. state' = [state EXCEPT ![r] = says]
  BY <1>0, <1>3
<1> HIDE DEF says
<1> QED BY <1>0, <1>1, <1>2, <1>3, <1>4, <1>5, <1>6, <1>7, Recording

\* The ways out.
LEMMA CloseSteps ==
  ASSUME Typed, EndHolds, NEW r \in Runs, CloseSocket(r)
  PROVE  Typed' /\ EndHolds' /\ Goes(r)
<1> USE NobodyIs DEF ends, rest, Typed, CloseSocket
<1>1. RunsTypeOK'
  BY DEF RunsTypeOK, Starting, Holding, Up
<1>2. Ordinals'
  BY DEF RunsTypeOK, Ordinals, Seen, Starting, Up
<1>3. Seen'
  BY DEF RunsTypeOK, Seen, Starting, Says, Up
<1>4. Inode'
  BY DEF RunsTypeOK, Inode, Starting, Locks, Up
<1>5. EndHolds'
  BY DEF RunsTypeOK, EndHolds, Starting, Up, Says
<1>6. Goes(r)
  BY DEF RunsTypeOK, Goes, Starting, Up
<1> QED BY <1>1, <1>2, <1>3, <1>4, <1>5, <1>6

LEMMA ExitSteps ==
  ASSUME Typed, EndHolds, NEW r \in Runs, Exit(r)
  PROVE  Typed' /\ EndHolds' /\ Goes(r)
<1> USE NobodyIs DEF Typed
<1>0. /\ pc[r] \in {"closed", "unwinding"} /\ pc' = [pc EXCEPT ![r] = "gone"]
      /\ lock' \in {lock, Nobody}
      /\ state' = [state EXCEPT ![r] = "going"] /\ open' = open \ {r}
      /\ snap' = [snap EXCEPT ![r] = Nobody] /\ halt' = [halt EXCEPT ![r] = "no"]
      /\ UNCHANGED <<sock, seq, published, stale, reruns, faults>>
  BY DEF Exit, Forgotten
<1>a. \/ ledger' = ledger /\ (r \in published \/ seq[r] = 0)
      \/ r \notin published /\ seq[r] # 0 /\ ledger' = [ledger EXCEPT ![seq[r]] = Nobody]
  BY <1>0 DEF Exit, ShouldReclaim, Written, Seen, Says
<1>b. \A q \in Runs : q # r /\ seq[q] # 0 /\ (pc[q] = "gone" => q \in published) => seq[q] # seq[r]
  BY <1>0 DEF RunsTypeOK, Ordinals
<1>c. "going" \in Outcomes
  BY DEF Outcomes
<1>1. RunsTypeOK'
  BY <1>0, <1>a, <1>c DEF RunsTypeOK, Starting, Holding, Up
<1>2. Ordinals'
  BY <1>0, <1>a, <1>b DEF RunsTypeOK, Ordinals
<1>3. Seen'
  <2>1. ASSUME NEW q \in Runs, q \notin published, seq[q] # 0, pc'[q] # "gone"
        PROVE  ledger'[seq[q]].says = "reserved"
    <3>1. q # r /\ pc[q] # "gone" /\ ledger[seq[q]].says = "reserved"
      BY <1>0, <2>1 DEF RunsTypeOK, Seen, Says
    <3>2. ledger'[seq[q]] = ledger[seq[q]]
      BY <1>a, <1>b, <2>1, <3>1 DEF RunsTypeOK
    <3> QED BY <3>1, <3>2
  <2> QED BY <1>0, <2>1 DEF RunsTypeOK, Seen, Starting, Says
<1>4. Inode'
  BY <1>0 DEF RunsTypeOK, Inode, Starting, Locks
<1>5. EndHolds'
  <2>1. ASSUME NEW q \in Runs, pc'[q] \in Up
        PROVE  q # r /\ pc[q] \in Up /\ (seq[q] # 0 => ledger'[seq[q]] = ledger[seq[q]])
    BY <1>0, <1>a, <1>b, <2>1 DEF RunsTypeOK, Up
  <2> QED BY <1>0, <2>1 DEF RunsTypeOK, EndHolds, Says
<1>6. Goes(r)
  BY <1>0, <1>a, <1>b DEF RunsTypeOK, Goes, Up
<1> QED BY <1>1, <1>2, <1>3, <1>4, <1>5, <1>6

LEMMA KillSteps ==
  ASSUME Typed, EndHolds, NEW r \in Runs, Kill(r)
  PROVE  Typed' /\ EndHolds' /\ Goes(r)
<1> USE NobodyIs, CheckoutBounds DEF Typed, Kill, Forgotten, Fault
<1>0. pc[r] \notin {"gone", "new"} /\ "going" \in Outcomes
  BY DEF Alive, Starting, Holding, Outcomes
<1>1. RunsTypeOK'
  BY <1>0 DEF RunsTypeOK, Starting, Holding, Up
<1>2. Ordinals'
  BY <1>0 DEF RunsTypeOK, Ordinals, Seen, Starting
<1>3. Seen'
  BY <1>0 DEF RunsTypeOK, Seen, Starting, Says
<1>4. Inode'
  BY DEF RunsTypeOK, Inode, Starting, Locks
<1>5. EndHolds'
  BY DEF RunsTypeOK, EndHolds, Starting, Up, Says
<1>6. Goes(r)
  BY DEF RunsTypeOK, Goes, Starting, Up
<1> QED BY <1>1, <1>2, <1>3, <1>4, <1>5, <1>6

LEMMA CoordinatorSteps ==
  ASSUME Typed, EndHolds, NEW r \in Runs, Coordinator(r)
  PROVE  Typed' /\ EndHolds' /\ Goes(r)
  BY CheckoutSteps1, CheckoutSteps2, ReserveSteps, ServeSteps, NodesSteps, RerunSteps,
     EndSteps, CloseSteps, ExitSteps, KillSteps DEF Coordinator

-----------------------------------------------------------------------------
(***************************************************************************)
(* The beginning.                                                          *)
(***************************************************************************)
LEMMA OneBegun == \A r \in Begun : r = TheBegun /\ 1 \in Seqs
<1> SUFFICES ASSUME NEW r \in Begun PROVE r = TheBegun /\ 1 \in Seqs
  OBVIOUS
<1>1. TheBegun \in Begun
  BY DEF TheBegun
<1>2. IsFiniteSet(Begun) /\ Cardinality(Begun) \in Nat /\ Cardinality(Begun) <= 1
  BY RunsAssumption, FS_Subset, FS_CardinalityType
<1>3. Cardinality(Begun) = 1
  BY <1>2, FS_EmptySet
<1>4. \E x : Begun = {x}
  BY <1>3, FS_Singleton, <1>2
<1>5. Cardinality(Begun) <= Cardinality(Runs)
  BY RunsAssumption, FS_Subset
<1>6. 1 \in Seqs
  BY <1>3, <1>5, SeqsAre DEF Seqs
<1> QED BY <1>1, <1>4, <1>6

LEMMA CheckoutInitHolds == ASSUME CheckoutInit PROVE Typed /\ EndHolds
<1> USE NobodyIs, OneBegun, SeqsAre, RunsAssumption, CheckoutBounds DEF CheckoutInit, Typed
<1>0. /\ "going" \in Outcomes /\ "reserved" \notin Ended
      /\ \A r \in Runs : [by |-> r, says |-> "reserved"] \in Files /\ [by |-> r, full |-> TRUE] \in Locks
      /\ Begun # {} => TheBegun \in Begun
  BY DEF Outcomes, Files, OnDisk, Locks, Ended, TheBegun
<1>1. RunsTypeOK
  BY <1>0 DEF RunsTypeOK, Starting, Holding, Up
<1>2. Ordinals
  BY <1>0 DEF Ordinals
<1>3. Seen
  BY <1>0 DEF Seen, Starting
<1>4. Inode
  BY <1>0 DEF Inode, Starting
<1>5. EndHolds
  BY <1>0 DEF EndHolds, Up, Says, Ended
<1> QED BY <1>1, <1>2, <1>3, <1>4, <1>5

-----------------------------------------------------------------------------
(***************************************************************************)
(* The wait beside the runs.                                               *)
(***************************************************************************)
LEMMA Frame == ASSUME NEW w \in Seq(Outcomes), NEW x \in Outcomes
  PROVE  /\ Append(w, x) \in Seq(Outcomes) /\ Append(w, x) # <<>>
         /\ Append(w, x)[Len(Append(w, x))] = x
         /\ x \in Range(Append(w, x))
<1>1. DOMAIN Append(w, x) = 1..(Len(w) + 1) /\ Len(Append(w, x)) = Len(w) + 1 /\ Len(w) \in Nat
  OBVIOUS
<1>2. Append(w, x)[Len(w) + 1] = x
  OBVIOUS
<1>3. x \in Range(Append(w, x))
  BY <1>1, <1>2 DEF Range
<1> QED BY <1>1, <1>2, <1>3

LEMMA LastOf == ASSUME NEW w \in Seq(Outcomes), w # <<>>
  PROVE  w[Len(w)] \in Range(w) /\ Head(w) \in Range(w) /\ Head(w) \in Outcomes
<1>1. DOMAIN w = 1..Len(w) /\ Len(w) \in Nat /\ Len(w) # 0 /\ Head(w) = w[1]
  OBVIOUS
<1> QED BY <1>1 DEF Range

LEMMA TailOf == ASSUME NEW w \in Seq(Outcomes), w # <<>>
  PROVE  /\ Tail(w) \in Seq(Outcomes) /\ Len(Tail(w)) <= Len(w)
         /\ Tail(w) # <<>> => Tail(w)[Len(Tail(w))] = w[Len(w)]
         /\ \A x \in Range(w) : x # Head(w) => x \in Range(Tail(w))
<1>1. /\ Tail(w) \in Seq(Outcomes) /\ Len(w) \in Nat /\ Len(w) > 0 /\ Len(Tail(w)) = Len(w) - 1
      /\ DOMAIN w = 1..Len(w) /\ DOMAIN Tail(w) = 1..Len(Tail(w)) /\ Head(w) = w[1]
      /\ \A i \in 1..Len(Tail(w)) : Tail(w)[i] = w[i + 1]
  OBVIOUS
<1>2. Tail(w) # <<>> => Tail(w)[Len(Tail(w))] = w[Len(w)]
  BY <1>1
<1>3. ASSUME NEW x \in Range(w), x # Head(w) PROVE x \in Range(Tail(w))
  <2>1. PICK i \in 1..Len(w) : x = w[i]
    BY <1>1 DEF Range
  <2>2. i # 1 /\ i - 1 \in 1..Len(Tail(w)) /\ Tail(w)[i - 1] = w[i]
    BY <1>1, <1>3, <2>1
  <2> QED BY <1>1, <2>1, <2>2 DEF Range
<1> QED BY <1>1, <1>2, <1>3

LEMMA RuntimeSteps ==
  ASSUME WaitIInv, NEW r \in Runs, Runtime(r)
  PROVE  WaitIInv'
<1> DEFINE told(q) == ledger'[seq'[q]].says
<1> DEFINE concluded(q) == q \notin stale' /\ seq'[q] # 0 /\ told(q) \in Ended
<1>1. Typed' /\ EndHolds' /\ Goes(r)
  BY CoordinatorSteps DEF WaitIInv, Runtime
<1>2. /\ at # "returned" /\ verdict = Nobody
      /\ wire' = IF link = r /\ pc'[r] \in Up /\ state'[r] # state[r]
                 THEN Append(wire, state'[r]) ELSE wire
      /\ Len(wire') <= MaxWire
      /\ since' = IF lastLive # Nobody /\ lastLive.run = r
                  THEN since \cup ({state'[r]} \cap Ended) ELSE since
      /\ UNCHANGED <<at, link, spoke, lastLive, verdict>>
  BY DEF Runtime, Published, WaitIInv, WaitTypeOK
<1>3. state'[r] \in Outcomes /\ published' \subseteq Runs /\ published \subseteq published'
  BY <1>1 DEF Typed, RunsTypeOK, Goes
<1>4. WaitTypeOK'
  <2>1. wire' \in Seq(Outcomes)
    BY <1>2, <1>3, Frame DEF WaitIInv, WaitTypeOK
  <2>2. lastLive' \in {Nobody} \cup Frames /\ verdict' \in {Nobody} \cup Verdicts
    BY <1>2 DEF WaitIInv, WaitTypeOK
  <2>3. since' \subseteq Ended
    BY <1>2 DEF WaitIInv, WaitTypeOK
  <2> QED BY <1>1, <1>2, <1>3, <2>1, <2>2, <2>3 DEF WaitIInv, WaitTypeOK, Typed
\* Of a run that has been seen: while it is up, what it has concluded is what it says.
<1>5. \A q \in published :
        /\ pc'[q] \in Up /\ concluded(q) => state'[q] = told(q) /\ told(q) \in Ended
        /\ pc'[q] \notin Up \/ q # r => (concluded(q) => Concluded(q) /\ told(q) = Says(q))
        /\ pc'[q] \in Up => pc[q] \in Up
        /\ q # r => state'[q] = state[q]
  <2> SUFFICES ASSUME NEW q \in published
               PROVE /\ pc'[q] \in Up /\ concluded(q) => state'[q] = told(q) /\ told(q) \in Ended
                     /\ pc'[q] \notin Up \/ q # r => (concluded(q) => Concluded(q) /\ told(q) = Says(q))
                     /\ pc'[q] \in Up => pc[q] \in Up
                     /\ q # r => state'[q] = state[q]
    OBVIOUS
  <2>0. q \in Runs
    BY DEF WaitIInv, WaitTypeOK, RunsTypeOK
  <2>1. pc'[q] \in Up /\ concluded(q) => state'[q] = told(q) /\ told(q) \in Ended
    BY <1>1, <2>0 DEF EndHolds, Concluded, Says
  <2>2. pc'[q] \notin Up \/ q # r => (concluded(q) => Concluded(q) /\ told(q) = Says(q))
    BY <1>1, <2>0 DEF Goes, Concluded, Says
  <2> QED BY <1>1, <2>0, <2>1, <2>2 DEF Goes
<1> HIDE DEF told, concluded
<1>6. Wired'
  <2> SUFFICES ASSUME link # Nobody, wire' # <<>>
               PROVE  /\ pc'[link] \in Up => wire'[Len(wire')] = state'[link]
                      /\ concluded(link) => told(link) \in Range(wire')
    BY <1>2 DEF Wired, Concluded, Says, concluded, told
  <2>0. link \in published /\ wire \in Seq(Outcomes)
    BY DEF WaitIInv, WaitTypeOK
  <2>1. CASE link = r /\ pc'[r] \in Up /\ state'[r] # state[r]
    <3>1. wire'[Len(wire')] = state'[r] /\ state'[r] \in Range(wire')
      BY <1>2, <1>3, <2>0, <2>1, Frame
    <3> QED BY <1>5, <2>0, <2>1, <3>1
  <2>2. CASE ~ (link = r /\ pc'[r] \in Up /\ state'[r] # state[r])
    <3>1. wire' = wire
      BY <1>2, <2>2
    <3>2. /\ pc[link] \in Up => wire[Len(wire)] = state[link]
          /\ Concluded(link) => Says(link) \in Range(wire)
      BY <3>1 DEF WaitIInv, Wired
    <3>3. wire[Len(wire)] \in Range(wire)
      BY <2>0, <3>1, LastOf
    <3>4. CASE pc'[link] \in Up
      <4>1. state'[link] = state[link] /\ pc[link] \in Up
        BY <1>5, <2>0, <2>2, <3>4
      <4> QED BY <1>5, <2>0, <3>1, <3>2, <3>3, <3>4, <4>1
    <3>5. CASE pc'[link] \notin Up
      BY <1>5, <2>0, <3>1, <3>2, <3>5
    <3> QED BY <3>4, <3>5
  <2> QED BY <2>1, <2>2
<1>7. Heard'
  <2> DEFINE q == lastLive.run
  <2> SUFFICES ASSUME lastLive # Nobody
               PROVE  /\ q \in published' /\ lastLive.says \notin Ended
                      /\ pc'[q] \in Up /\ state'[q] \in Ended => state'[q] \in since'
                      /\ concluded(q) => told(q) \in since'
    BY <1>2 DEF Heard, Concluded, Says, concluded, told
  <2>1. /\ q \in published /\ lastLive.says \notin Ended
        /\ pc[q] \in Up /\ state[q] \in Ended => state[q] \in since
        /\ Concluded(q) => Says(q) \in since
    BY <1>2 DEF WaitIInv, Heard
  <2>2. since \subseteq since' /\ (q = r /\ state'[q] \in Ended => state'[q] \in since')
    BY <1>2
  <2> HIDE DEF q
  <2>3. pc'[q] \in Up /\ state'[q] \in Ended => state'[q] \in since'
    BY <1>5, <2>1, <2>2
  <2>4. concluded(q) => told(q) \in since'
    BY <1>5, <2>1, <2>2
  <2> QED BY <1>3, <2>1, <2>3, <2>4
<1>8. VerdictIsTrue'
  BY <1>2 DEF VerdictIsTrue
<1> QED BY <1>1, <1>4, <1>6, <1>7, <1>8 DEF WaitIInv

\* The runs stand still while the wait goes on.
LEMMA Still ==
  ASSUME Typed, EndHolds, faults' \in 0..MaxFaults,
         UNCHANGED <<pc, lock, sock, ledger, seq, published, state, open, snap, halt,
                     reruns, stale>>
  PROVE  Typed' /\ EndHolds'
<1>1. RunsTypeOK'
  BY DEF Typed, RunsTypeOK
<1>2. Ordinals' /\ Seen' /\ Inode'
  BY DEF Typed, Ordinals, Seen, Inode, Says
<1>3. EndHolds'
  BY DEF EndHolds, Says
<1> QED BY <1>1, <1>2, <1>3 DEF Typed

LEMMA CheckoutStill == ASSUME Typed, EndHolds, UNCHANGED checkout PROVE Typed' /\ EndHolds'
  BY Still DEF checkout, Typed, RunsTypeOK

\* Who answers at the socket has been seen, and its nodes say something.
LEMMA DialSteps == ASSUME WaitIInv, Dial PROVE WaitIInv'
<1>1. Typed' /\ EndHolds'
  BY CheckoutStill DEF WaitIInv, Dial
<1>2. /\ at = "dial" /\ link = Nobody /\ verdict = Nobody
      /\ UNCHANGED <<pc, ledger, seq, published, state, stale, lastLive, verdict, since>>
      /\ spoke' \in BOOLEAN
  BY DEF Dial, WaitIInv, WaitTypeOK, checkout
<1>3. CASE Served # Nobody
  <2>1. at' = "stream" /\ link' = Served /\ wire' = <<state[Served]>>
    BY <1>3 DEF Dial
  <2>2. Served \in Runs /\ Served \in published /\ pc[Served] \in Up /\ state[Served] \in Outcomes
    BY <1>3, ServedIs DEF WaitIInv, Typed, RunsTypeOK
  <2>3. wire' \in Seq(Outcomes) /\ Len(wire') = 1 /\ wire'[1] = state[Served]
        /\ state[Served] \in Range(wire')
    BY <2>1, <2>2 DEF Range
  <2> HIDE DEF Served
  <2>4. WaitTypeOK'
    BY <1>1, <1>2, <1>3, <2>1, <2>2, <2>3, WaitAssumption, NobodyIs DEF WaitIInv, Typed, WaitTypeOK
  <2>5. Wired'
    BY <1>2, <2>1, <2>2, <2>3 DEF Wired, Concluded, Says, WaitIInv, EndHolds
  <2> QED BY <1>1, <1>2, <2>1, <2>4, <2>5
         DEF WaitIInv, Heard, VerdictIsTrue, Concluded, Says
<1>4. CASE Served = Nobody
  <2>1. at' = "judge" /\ UNCHANGED <<link, wire>>
    BY <1>4 DEF Dial
  <2>2. WaitTypeOK'
    BY <1>1, <1>2, <2>1 DEF WaitIInv, Typed, WaitTypeOK
  <2> QED BY <1>1, <1>2, <2>1, <2>2
         DEF WaitIInv, Wired, Heard, VerdictIsTrue, Concluded, Says
<1> QED BY <1>3, <1>4

\* A verdict that is not a settlement, or one that is true, ends the wait.
LEMMA Returns ==
  ASSUME WaitIInv, UNCHANGED checkout, NEW v \in Verdicts, Return(v),
         spoke' \in BOOLEAN, lastLive' \in {Nobody} \cup Frames, since' \subseteq Ended,
         v.kind = "settled" /\ v.run \notin stale => v.run = lastLive'.run /\ v.says \in since'
  PROVE  WaitIInv'
<1>1. Typed' /\ EndHolds'
  BY CheckoutStill DEF WaitIInv
<1>2. v # Nobody
  BY WaitAssumption
<1>3. wire' \in Seq(Outcomes) /\ Len(wire') <= MaxWire
  BY WaitAssumption DEF Return
<1>4. WaitTypeOK'
  BY <1>1, <1>2, <1>3 DEF Return, WaitTypeOK, Typed
<1>5. Wired' /\ Heard'
  BY DEF Return, Wired, Heard
<1>6. VerdictIsTrue'
  BY <1>2 DEF Return, VerdictIsTrue, checkout
<1> QED BY <1>1, <1>4, <1>5, <1>6 DEF WaitIInv

LEMMA TakeSteps == ASSUME WaitIInv, TakeFrame PROVE WaitIInv'
<1> DEFINE frame == [run |-> link, says |-> Head(wire)]
<1>1. /\ at = "stream" /\ wire # <<>> /\ wire \in Seq(Outcomes) /\ Len(wire) <= MaxWire
      /\ link # Nobody /\ link \in Runs /\ link \in published /\ verdict = Nobody
  BY DEF WaitIInv, WaitTypeOK, TakeFrame
<1>2. /\ lastLive' = frame /\ spoke' = TRUE /\ since' = Range(wire) \cap Ended
      /\ UNCHANGED checkout
  BY DEF TakeFrame
<1>3. frame \in Frames /\ frame.run = link /\ frame.says = Head(wire) /\ frame.says \in Range(wire)
  BY <1>1, LastOf DEF Frames
<1>4. CASE frame.says \in Ended /\ Return(About(frame, "settled"))
  <2>1. About(frame, "settled") \in Verdicts
    BY <1>1, <1>3 DEF About, Verdicts, Frames
  <2>2. About(frame, "settled").run = frame.run /\ About(frame, "settled").says = frame.says
    BY DEF About
  <2> HIDE DEF frame
  <2> QED BY <1>2, <1>3, <1>4, <2>1, <2>2, Returns
<1>5. CASE frame.says = "red" /\ Return(About(frame, "unsettled"))
  <2>1. About(frame, "unsettled") \in Verdicts /\ About(frame, "unsettled").kind = "unsettled"
    BY <1>1, <1>3 DEF About, Verdicts, Frames
  <2> HIDE DEF frame
  <2> QED BY <1>2, <1>3, <1>5, <2>1, Returns
<1>6. CASE /\ frame.says \notin Ended
           /\ wire' = Tail(wire) /\ UNCHANGED <<at, link, verdict>>
  <2>1. Typed' /\ EndHolds'
    BY <1>2, CheckoutStill DEF WaitIInv
  <2>2. /\ Tail(wire) \in Seq(Outcomes) /\ Len(Tail(wire)) <= Len(wire)
        /\ Tail(wire) # <<>> => Tail(wire)[Len(Tail(wire))] = wire[Len(wire)]
        /\ \A x \in Range(wire) : x # Head(wire) => x \in Range(Tail(wire))
        /\ wire[Len(wire)] \in Range(wire)
    BY <1>1, TailOf, LastOf
  <2>3. Len(Tail(wire)) <= MaxWire
    <3>1. Len(Tail(wire)) \in Nat /\ Len(wire) \in Nat
      BY <1>1, <2>2
    <3> QED BY <1>1, <2>2, <3>1, WaitAssumption
  <2>4. WaitTypeOK'
    BY <1>1, <1>2, <1>3, <1>6, <2>1, <2>2, <2>3 DEF WaitTypeOK, WaitIInv, Typed, checkout
  <2>5. /\ pc[link] \in Up => wire[Len(wire)] = state[link]
        /\ Concluded(link) => Says(link) \in Range(wire) /\ Says(link) \in Ended
    BY <1>1 DEF WaitIInv, Wired, Concluded
  <2>6. Wired'
    <3> SUFFICES ASSUME Tail(wire) # <<>>
                 PROVE  /\ pc[link] \in Up => Tail(wire)[Len(Tail(wire))] = state[link]
                        /\ Concluded(link) => Says(link) \in Range(Tail(wire))
      BY <1>2, <1>6 DEF Wired, Concluded, Says, checkout
    <3> QED BY <1>3, <1>6, <2>2, <2>5
  <2>7. Heard'
    <3> SUFFICES /\ pc[link] \in Up /\ state[link] \in Ended => state[link] \in since'
                 /\ Concluded(link) => Says(link) \in since'
      BY <1>1, <1>2, <1>3, <1>6 DEF Heard, Concluded, Says, checkout
    <3> QED BY <1>2, <2>2, <2>5
  <2>8. VerdictIsTrue'
    BY <1>1, <1>6 DEF VerdictIsTrue
  <2> QED BY <2>1, <2>4, <2>6, <2>7, <2>8 DEF WaitIInv
<1> QED BY <1>4, <1>5, <1>6 DEF TakeFrame

\* The subscription is gone, and the wait has not returned.
LEMMA Unsubscribes ==
  ASSUME WaitIInv, at \notin {"returned"}, at' \in {"dial", "judge"},
         link' = Nobody, wire' = <<>>, spoke' \in BOOLEAN, faults' \in 0..MaxFaults,
         UNCHANGED <<pc, lock, sock, ledger, seq, published, state, open, snap, halt,
                     reruns, stale>>,
         UNCHANGED <<lastLive, verdict, since>>
  PROVE  WaitIInv'
<1>1. Typed' /\ EndHolds'
  BY Still DEF WaitIInv
<1>2. wire' \in Seq(Outcomes) /\ Len(wire') <= MaxWire
  BY WaitAssumption
<1>3. WaitTypeOK'
  BY <1>1, <1>2 DEF WaitIInv, WaitTypeOK, Typed
<1>4. Wired' /\ Heard' /\ VerdictIsTrue'
  BY DEF WaitIInv, Wired, Heard, VerdictIsTrue, Concluded, Says
<1> QED BY <1>1, <1>3, <1>4 DEF WaitIInv

LEMMA LossSteps == ASSUME WaitIInv, LinkDies \/ StreamEnds PROVE WaitIInv'
<1>0. faults \in 0..MaxFaults /\ spoke \in BOOLEAN
  BY DEF WaitIInv, Typed, RunsTypeOK, WaitTypeOK
<1>1. CASE LinkDies
  <2>1. at = "stream" /\ Redial /\ UNCHANGED since
    BY <1>1 DEF LinkDies
  <2>2. /\ faults' \in 0..MaxFaults
        /\ UNCHANGED <<pc, lock, sock, ledger, seq, published, state, open, snap, halt,
                       reruns, stale>>
    BY <1>0, <1>1, CheckoutBounds DEF LinkDies, Fault, checkout
  <2> QED BY <2>1, <2>2, Unsubscribes DEF Redial
<1>2. CASE StreamEnds
  <2>1. at = "stream" /\ UNCHANGED <<checkout, since>>
    BY <1>2 DEF StreamEnds
  <2>2. at' \in {"dial", "judge"} /\ link' = Nobody /\ wire' = <<>> /\ spoke' \in BOOLEAN
        /\ UNCHANGED <<lastLive, verdict>>
    BY <1>0, <1>2 DEF StreamEnds, Redial
  <2> QED BY <1>0, <2>1, <2>2, Unsubscribes DEF checkout
<1> QED BY <1>1, <1>2

LEMMA AbortSteps == ASSUME WaitIInv, Abort PROVE WaitIInv'
<1> DEFINE v == [kind |-> "aborted",
                 run |-> IF lastLive = Nobody THEN Nobody ELSE lastLive.run,
                 says |-> IF lastLive = Nobody THEN "going" ELSE lastLive.says]
<1>1. Return(v) /\ UNCHANGED <<checkout, spoke, lastLive, since>>
  BY DEF Abort
<1>2. v \in Verdicts /\ v.kind = "aborted"
  BY DEF WaitIInv, WaitTypeOK, Verdicts, Frames, Outcomes
<1>3. spoke' \in BOOLEAN /\ lastLive' \in {Nobody} \cup Frames /\ since' \subseteq Ended
  BY <1>1 DEF WaitIInv, WaitTypeOK
<1> HIDE DEF v
<1> QED BY <1>1, <1>2, <1>3, Returns

\* The wait falls back on its last frame only when that was not an end.
LEMMA FallsBack ==
  ASSUME WaitIInv, at # "returned", FallBack, UNCHANGED <<checkout, spoke, lastLive, since>>
  PROVE  WaitIInv' /\ verdict'.kind # "dead"
<1>1. spoke' \in BOOLEAN /\ lastLive' \in {Nobody} \cup Frames /\ since' \subseteq Ended
  BY DEF WaitIInv, WaitTypeOK
<1>2. CASE lastLive = Nobody
  <2> DEFINE v == [kind |-> "no run"]
  <2>1. Return(v) /\ v \in Verdicts /\ v.kind = "no run"
    BY <1>2 DEF FallBack, Verdicts
  <2> HIDE DEF v
  <2>2. WaitIInv'
    BY <1>1, <2>1, Returns
  <2> QED BY <2>1, <2>2 DEF Return
<1>3. CASE lastLive # Nobody
  <2> DEFINE v == About(lastLive, "unsettled")
  <2>1. lastLive.says \notin Ended /\ lastLive \in Frames
    BY <1>3 DEF WaitIInv, Heard, WaitTypeOK
  <2>2. Return(v) /\ v \in Verdicts /\ v.kind = "unsettled"
    BY <1>3, <2>1 DEF FallBack, Verdicts, About, Frames
  <2> HIDE DEF v
  <2>3. WaitIInv'
    BY <1>1, <2>2, Returns
  <2> QED BY <2>2, <2>3 DEF Return
<1> QED BY <1>2, <1>3

\* The record is the run's own, and says what it said.
LEMMA JudgeSteps == ASSUME WaitIInv, Judge PROVE WaitIInv' /\ (verdict' # verdict => verdict'.kind # "dead")
<1>1. /\ at = "judge" /\ UNCHANGED <<checkout, spoke, lastLive, since>>
      /\ link = Nobody
  BY DEF Judge, WaitIInv, WaitTypeOK
<1>2. spoke' \in BOOLEAN /\ lastLive' \in {Nobody} \cup Frames /\ since' \subseteq Ended
  BY <1>1 DEF WaitIInv, WaitTypeOK
<1>3. CASE lastLive # Nobody /\ RecordAnswers(Record(lastLive.run))
  <2> DEFINE v == [kind |-> "settled", run |-> lastLive.run, says |-> Record(lastLive.run).says]
  <2>1. Return(v)
    BY <1>3 DEF Judge
  <2>2. v.kind = "settled" /\ v.run = lastLive.run /\ v.says = Says(lastLive.run)
        /\ seq[lastLive.run] # 0 /\ Says(lastLive.run) \in Ended
    BY <1>3, NobodyIs DEF Record, RecordAnswers, Says, Ended
  <2>3. v \in Verdicts
    BY <1>3, <2>2 DEF Verdicts, WaitIInv, WaitTypeOK, Frames, Outcomes
  <2>4. lastLive.run \notin stale => v.says \in since
    BY <1>1, <1>3, <2>2 DEF WaitIInv, Heard, Concluded
  <2> HIDE DEF v
  <2>5. WaitIInv'
    BY <1>1, <1>2, <2>1, <2>2, <2>3, <2>4, Returns
  <2> QED BY <2>1, <2>2, <2>5 DEF Return
<1>4. CASE ~ (lastLive # Nobody /\ RecordAnswers(Record(lastLive.run)))
  <2>1. at' = "probe" /\ UNCHANGED <<link, wire, verdict>>
    BY <1>4 DEF Judge
  <2>2. Typed' /\ EndHolds'
    BY <1>1, CheckoutStill DEF WaitIInv
  <2>3. WaitTypeOK'
    BY <1>1, <2>1, <2>2 DEF WaitIInv, WaitTypeOK, Typed, checkout
  <2>4. Wired' /\ Heard' /\ VerdictIsTrue'
    BY <1>1, <2>1 DEF WaitIInv, Wired, Heard, VerdictIsTrue, Concluded, Says, checkout
  <2> QED BY <2>1, <2>2, <2>3, <2>4 DEF WaitIInv
<1> QED BY <1>3, <1>4

LEMMA ProbeSteps == ASSUME WaitIInv, Probe PROVE WaitIInv' /\ (verdict' # verdict => verdict'.kind # "dead")
<1>1. /\ at = "probe" /\ UNCHANGED <<checkout, spoke, lastLive, since>>
      /\ link = Nobody
  BY DEF Probe, WaitIInv, WaitTypeOK
<1>2. CASE Served # Nobody
  BY <1>1, <1>2, FallsBack DEF Probe
<1>3. CASE Served = Nobody
  <2>1. at' = "residue" /\ UNCHANGED <<link, wire, verdict>>
    BY <1>3 DEF Probe
  <2>2. Typed' /\ EndHolds'
    BY <1>1, CheckoutStill DEF WaitIInv
  <2>3. WaitTypeOK'
    BY <1>1, <2>1, <2>2 DEF WaitIInv, WaitTypeOK, Typed, checkout
  <2>4. Wired' /\ Heard' /\ VerdictIsTrue'
    BY <1>1, <2>1 DEF WaitIInv, Wired, Heard, VerdictIsTrue, Concluded, Says, checkout
  <2> QED BY <2>1, <2>2, <2>3, <2>4 DEF WaitIInv
<1> QED BY <1>2, <1>3

\* The newest reservation is of a run that has reserved it, and says so still.
LEMMA NewestIs == ASSUME Typed
  PROVE  \/ NewestReservation = Nobody
         \/ NewestReservation \in Runs /\ seq[NewestReservation] # 0
<1>1. CASE Reservations = {}
  BY <1>1 DEF NewestReservation
<1>2. CASE Reservations # {}
  <2>1. Max(Reservations) \in Reservations
    BY <1>2, MaxIs DEF Reservations
  <2> DEFINE n == Max(Reservations)
  <2>2. n \in Seqs /\ ledger[n] # Nobody /\ NewestReservation = ledger[n].by
    BY <1>2, <2>1 DEF Reservations, NewestReservation
  <2> HIDE DEF n
  <2>3. ledger[n] \in Files /\ seq[ledger[n].by] = n
    BY <2>2 DEF Typed, RunsTypeOK, Ordinals
  <2> QED BY <2>2, <2>3, SeqsAre DEF Files
<1> QED BY <1>1, <1>2

\* Of a death that is reported, the lock is not the run's, if the run lives.
LEMMA ResidueSteps == ASSUME WaitIInv, Residue
  PROVE  /\ WaitIInv'
         /\ verdict'.kind = "dead" =>
              \A r \in Runs : verdict'.run = r /\ Alive(r) => lock = Nobody \/ lock.by # r
<1>1. at = "residue" /\ UNCHANGED <<checkout, spoke, lastLive, since>>
  BY DEF Residue
<1>2. spoke' \in BOOLEAN /\ lastLive' \in {Nobody} \cup Frames /\ since' \subseteq Ended
  BY <1>1 DEF WaitIInv, WaitTypeOK
<1>3. NewestReservation = Nobody \/ (NewestReservation \in Runs /\ seq[NewestReservation] # 0)
  BY NewestIs DEF WaitIInv
<1>4. CASE LockPid = Nobody /\ (lock # Nobody \/ sock # Nobody)
  <2> DEFINE v == [kind |-> "dead", run |-> NewestReservation]
  <2>1. Return(v) /\ v.kind = "dead" /\ v.run = NewestReservation
    BY <1>4 DEF Residue
  <2>2. v \in Verdicts
    BY <1>3 DEF Verdicts
  <2> HIDE DEF v
  <2>3. WaitIInv'
    BY <1>1, <1>2, <2>1, <2>2, Returns
  <2>4. ASSUME NEW r \in Runs, verdict'.run = r, Alive(r), lock # Nobody, lock.by = r
        PROVE  FALSE
    <3>1. r = NewestReservation /\ seq[r] # 0
      BY <1>3, <2>1, <2>4, NobodyIs DEF Return
    <3>2. ~ lock.full
      BY <1>4, <2>4, NobodyIs DEF LockPid
    <3>3. pc[r] = "write"
      BY <2>4, <3>2 DEF WaitIInv, Typed, Inode, Alive, Starting, Holding
    <3> QED BY <3>1, <3>3 DEF WaitIInv, Typed, Seen, Starting
  <2> QED BY <2>3, <2>4
<1>5. CASE ~ (LockPid = Nobody /\ (lock # Nobody \/ sock # Nobody))
  <2>1. FallBack
    BY <1>5 DEF Residue
  <2> QED BY <1>1, <2>1, FallsBack
<1> QED BY <1>4, <1>5

-----------------------------------------------------------------------------
(***************************************************************************)
(* Theorems                                                                *)
(***************************************************************************)
LEMMA CheckoutHolds == CheckoutSpec => [](Typed /\ EndHolds)
<1>1. CheckoutInit => Typed /\ EndHolds
  BY CheckoutInitHolds
<1>2. Typed /\ EndHolds /\ [\E r \in Runs : Coordinator(r)]_checkout => (Typed /\ EndHolds)'
  BY CoordinatorSteps, CheckoutStill
<1> QED BY <1>1, <1>2, PTL DEF CheckoutSpec

LEMMA OrdinalsKeep == Typed => OneRunPerOrdinal
  BY DEF Typed, RunsTypeOK, Ordinals, OneRunPerOrdinal

\* The lock may fail to exclude, the socket does not: of the coordinators of a checkout
\* at most one is up, it is the one that the socket names, and an ordinal that a socket
\* has shown stays its run's.  The pid file is no part of the argument (socket.ts
\* serveSocket, run.ts shouldReclaimReservation, ledger.ts reserveNextSeq).
THEOREM OneServes ==
  CheckoutSpec => []( /\ \A p, q \in Runs : pc[p] \in Up /\ pc[q] \in Up => p = q
                      /\ OneRunPerOrdinal )
<1>1. Typed => \A p, q \in Runs : pc[p] \in Up /\ pc[q] \in Up => p = q
  BY DEF Typed, RunsTypeOK
<1> QED BY <1>1, OrdinalsKeep, CheckoutHolds, PTL

\* The ledger carries a green verdict for a run in flight only when a rerun resumed
\* nodes and the record of their end was not rewritten: because the write failed, or
\* because the interrupt had already taken down what it would record (run.ts, at the
\* rewrite of a record when a node resumes, and shutdown).
THEOREM GreenUnlessResumed ==
  CheckoutSpec => [](\A r \in Runs \ stale :
                        pc[r] \in Up /\ seq[r] # 0 /\ ledger[seq[r]].says = "passed"
                            => state[r] = "passed")
<1>1. EndHolds => \A r \in Runs \ stale :
                     pc[r] \in Up /\ seq[r] # 0 /\ ledger[seq[r]].says = "passed"
                         => state[r] = "passed"
  BY DEF EndHolds, Says, Ended
<1> QED BY <1>1, CheckoutHolds, PTL

LEMMA WaitInitHolds == WaitInit => WaitIInv
<1> SUFFICES ASSUME WaitInit PROVE WaitIInv
  OBVIOUS
<1>1. Typed /\ EndHolds
  BY CheckoutInitHolds DEF WaitInit
<1>2. wire \in Seq(Outcomes) /\ Len(wire) <= MaxWire
  BY WaitAssumption DEF WaitInit
<1>3. WaitTypeOK
  BY <1>1, <1>2 DEF WaitInit, WaitTypeOK, Typed
<1> QED BY <1>1, <1>3 DEF WaitInit, WaitIInv, Wired, Heard, VerdictIsTrue

LEMMA WaitStepHolds == WaitIInv /\ [WaitNext]_waitVars => WaitIInv'
<1> SUFFICES ASSUME WaitIInv, [WaitNext]_waitVars PROVE WaitIInv'
  OBVIOUS
<1>1. CASE UNCHANGED waitVars
  <2>1. Typed' /\ EndHolds'
    BY <1>1, CheckoutStill DEF WaitIInv, waitVars
  <2>2. WaitTypeOK'
    BY <1>1, <2>1 DEF WaitIInv, WaitTypeOK, Typed, waitVars, wait, checkout
  <2> QED BY <1>1, <2>1, <2>2
         DEF WaitIInv, Wired, Heard, VerdictIsTrue, Concluded, Says, waitVars, wait, checkout
<1>2. CASE \E r \in Runs : Runtime(r)
  BY <1>2, RuntimeSteps
<1>3. CASE Waiter \/ Abort
  BY <1>3, DialSteps, TakeSteps, LossSteps, JudgeSteps, ProbeSteps, ResidueSteps, AbortSteps
     DEF Waiter
<1> QED BY <1>1, <1>2, <1>3 DEF WaitNext, Done

LEMMA WaitHolds == WaitSpec => []WaitIInv
  BY WaitInitHolds, WaitStepHolds, PTL DEF WaitSpec

\* Whatever starts, dies and is waited for in a checkout, every variable has its type, at
\* most one coordinator is at the socket, a wait is subscribed to a run that was seen,
\* and an ordinal that was shown is never another run's (run.ts
\* shouldReclaimReservation, waitForSettle.ts).
THEOREM WaitInvHolds == WaitSpec => []WaitInv
<1>1. WaitIInv => WaitInv
  BY OrdinalsKeep DEF WaitIInv, WaitInv
<1> QED BY <1>1, WaitHolds, PTL

\* A settled verdict names the run of the last frame, and says what that run said in
\* that frame or later, whether a frame said it, the record did, or the run died before
\* the wait could ask; but for runs that resumed after the end on record, unseen by it
\* (waitForSettle.ts streamEndedVerdict, recordVerdict).
THEOREM VerdictIsTrueHolds == WaitSpec => []VerdictIsTrue
<1>1. WaitIInv => VerdictIsTrue
  BY DEF WaitIInv
<1> QED BY <1>1, WaitHolds, PTL

\* The run that a wait reports dead does not live, unless its lock is no longer its own:
\* an inode without a pid is one its creator is about to write, before it has an ordinal
\* to be taken for the corpse's (deadRun.ts deadRun, newestReservation).
THEOREM NeverBuriedHolds == WaitSpec => NeverBuried
<1> DEFINE Buries ==
      verdict' # Nobody /\ verdict = Nobody /\ verdict'.kind = "dead" =>
          \A r \in Runs : verdict'.run = r /\ Alive(r) => lock = Nobody \/ lock.by # r
<1>1. WaitIInv /\ [WaitNext]_waitVars => [Buries]_waitVars
  <2> SUFFICES ASSUME WaitIInv, WaitNext, verdict' # Nobody, verdict = Nobody, verdict'.kind = "dead"
               PROVE  \A r \in Runs : verdict'.run = r /\ Alive(r) => lock = Nobody \/ lock.by # r
    OBVIOUS
  <2>1. ~ \E r \in Runs : Runtime(r)
    BY DEF Runtime, Published
  <2>2. ~ (Dial \/ LinkDies \/ StreamEnds \/ Done)
    BY DEF Dial, LinkDies, StreamEnds, Redial, Done, waitVars, wait
  <2>3. ~ TakeFrame
    BY DEF TakeFrame, Return, About
  <2>4. ~ Abort
    BY DEF Abort, Return
  <2>5. ~ (Judge \/ Probe)
    BY JudgeSteps, ProbeSteps
  <2>6. Residue
    BY <2>1, <2>2, <2>3, <2>4, <2>5 DEF WaitNext, Waiter
  <2> QED BY <2>6, ResidueSteps
<1> QED BY <1>1, WaitHolds, PTL DEF WaitSpec, NeverBuried
=============================================================================
