------------------------ MODULE OwnershipFence_proofs ------------------------
(* Proofs about OwnershipFence.  The types and the epochs hold for every      *)
(* value of the constants; that one process writes at a time, and that its    *)
(* journal repeats no ordinal, holds where claims are serial and owners       *)
(* punctual: OwnershipFence's run fence_winners loses both without.           *)
EXTENDS OwnershipFence, SequenceTheorems, TLAPS

(* A process past CreateClaim owns the claim file its token names.  This is   *)
(* what makes TypeOK and UniqueEpoch inductive: a file has one maker.         *)
OwnClaim ==
    \A p \in Procs :
        /\ pc[p] \in Holding \cup {"create"} => target[p] \in Epochs
        /\ pc[p] \in Holding => /\ target[p] \in Named
                                /\ claims[target[p]].proc = p

IInv == TypeOK /\ OwnClaim

LEMMA InitInv == Init => IInv
<1> SUFFICES ASSUME Init PROVE IInv
  OBVIOUS
<1>1. journal \in Seq(Line)
  BY DEF Init
<1>2. published \in Owner \cup {NoOwner} /\ claims \in [Epochs -> ClaimFile \cup {Absent}]
  BY DEF Init
<1>3. pc \in [Procs -> PCs]
  BY DEF Init, PCs
<1>4. TypeOK
  <2>1. floor \in [Procs -> 0 .. MaxEpoch] /\ target \in [Procs -> 0 .. MaxEpoch]
    BY EpochAssumption DEF Init
  <2>2. /\ calledAt \in [Procs -> Nat]
        /\ tries \in [Procs -> Nat]
        /\ next \in [Procs -> Nat]
    BY DEF Init
  <2>3. /\ tornTail \in BOOLEAN /\ verdict \in BOOLEAN
        /\ erased \in BOOLEAN /\ expired \in BOOLEAN
    BY DEF Init
  <2>4. now \in Nat /\ faults \in Nat /\ janitor \in {"away", "erase", "tombstone"}
    BY DEF Init
  <2> QED
    BY <1>1, <1>2, <1>3, <2>1, <2>2, <2>3, <2>4 DEF TypeOK
<1>5. OwnClaim
  BY DEF Init, OwnClaim, Holding, Writing
<1> QED
  BY <1>4, <1>5 DEF IInv

(* Steps of one process: nothing but its own entry of pc and of its local     *)
(* variables moves, so the claims of the others stay theirs.                  *)
LEMMA ClaimStepTyped ==
  ASSUME IInv, NEW p \in Procs, ClaimStep(p)
  PROVE  TypeOK'
<1> USE DEF record, evidence, local
<1>0. /\ TypeOK
      /\ pc[p] \in Holding \cup {"create"} => target[p] \in Epochs
      /\ pc[p] \in Holding => claims[target[p]] \in ClaimFile
  <2>1. TypeOK /\ OwnClaim
    BY DEF IInv
  <2>2. pc[p] \in Holding \cup {"create"} => target[p] \in Epochs
    BY <2>1 DEF OwnClaim
  <2>3. ASSUME pc[p] \in Holding PROVE claims[target[p]] \in ClaimFile
    <3>1. target[p] \in Epochs /\ claims[target[p]].made
      BY <2>1, <2>3 DEF OwnClaim, Named
    <3>2. claims[target[p]] # Absent
      BY <3>1 DEF Absent
    <3> QED
      BY <2>1, <3>1, <3>2 DEF TypeOK
  <2> QED
    BY <2>1, <2>2, <2>3
<1>1. ASSUME NEW a, NEW b \in PCs, Goto(p, a, b)
      PROVE  pc' \in [Procs -> PCs]
  BY <1>0, <1>1 DEF Goto, TypeOK
<1>a. {"look", "choose", "create", "fill", "publish", "register", "refused", "raced"} \subseteq PCs
  BY DEF PCs, Claiming, Writing, Settled
<1>2. CASE StartClaim(p)
  BY <1>0, <1>1, <1>2, <1>a DEF StartClaim, TypeOK
<1>3. CASE LookRefused(p)
  BY <1>0, <1>1, <1>3, <1>a DEF LookRefused, TypeOK
<1>4. CASE LookFree(p)
  BY <1>0, <1>1, <1>4, <1>a DEF LookFree, TypeOK
<1>5. CASE GiveUp(p)
  BY <1>0, <1>1, <1>5, <1>a DEF GiveUp, TypeOK
<1>6. CASE ChooseEpoch(p)
  BY <1>0, <1>1, <1>6, <1>a, EpochAssumption DEF ChooseEpoch, TypeOK, Epochs
<1>7. CASE CreateClaim(p)
  <2>1. claims' \in [Epochs -> ClaimFile \cup {Absent}]
    BY <1>0, <1>7 DEF CreateClaim, TypeOK, ClaimFile
  <2> QED
    BY <1>0, <1>1, <1>7, <1>a, <2>1 DEF CreateClaim, TypeOK
<1>8. CASE LoseClaim(p)
  BY <1>0, <1>1, <1>8, <1>a DEF LoseClaim, TypeOK
<1>9. CASE FillClaim(p)
  <2>1. claims[target[p]] \in ClaimFile
    BY <1>0, <1>9 DEF FillClaim, Goto, Holding
  <2>2. claims' \in [Epochs -> ClaimFile \cup {Absent}]
    BY <1>0, <1>9, <2>1 DEF FillClaim, TypeOK, ClaimFile
  <2> QED
    BY <1>0, <1>1, <1>9, <1>a, <2>2 DEF FillClaim, TypeOK
<1>10. CASE Publish(p)
  <2>1. target[p] \in Epochs
    BY <1>0, <1>10 DEF Publish, Goto, Holding
  <2>2. published' \in Owner
    BY <1>0, <1>10, <2>1 DEF Publish, Owner, TypeOK
  <2> QED
    BY <1>0, <1>1, <1>10, <1>a, <2>2 DEF Publish, TypeOK
<1> QED
  BY <1>2, <1>3, <1>4, <1>5, <1>6, <1>7, <1>8, <1>9, <1>10 DEF ClaimStep

LEMMA WriterStepTyped ==
  ASSUME IInv, NEW p \in Procs, WriterStep(p)
  PROVE  TypeOK'
<1> USE DEF record, evidence, local
<1>0. TypeOK /\ OwnClaim
  BY DEF IInv
<1>1. ASSUME NEW a, NEW b \in PCs, Goto(p, a, b)
      PROVE  pc' \in [Procs -> PCs]
  BY <1>0, <1>1 DEF Goto, TypeOK
<1>a. {"first", "open", "owner", "append", "conclude", "clock", "stamp",
       "release", "fenced", "closed"} \subseteq PCs
  BY DEF PCs, Writing, Settled
<1>b. ASSUME ReadSeq(p) PROVE next' \in [Procs -> Nat]
  BY <1>0, <1>b, BoundAssumption DEF ReadSeq, TypeOK
<1>c. ASSUME PutLine(p) PROVE journal' \in Seq(Line) /\ tornTail' \in BOOLEAN
  <2>1. [seq |-> next[p], by |-> p, readable |-> TRUE] \in Line
    BY <1>0 DEF TypeOK, Line
  <2>2. Append(journal, [seq |-> next[p], by |-> p, readable |-> TRUE]) \in Seq(Line)
    BY <1>0, <2>1 DEF TypeOK
  <2>3. journal' \in Seq(Line)
    BY <1>0, <1>c, <2>2 DEF PutLine, TypeOK
  <2> QED
    BY <1>c, <2>3 DEF PutLine
<1>2. CASE Register(p)
  BY <1>0, <1>1, <1>2, <1>a, <1>b DEF Register, TypeOK
<1>3. CASE FirstLine(p)
  BY <1>0, <1>1, <1>3, <1>a, <1>c DEF FirstLine, TypeOK
<1>4. CASE OpenJournal(p)
  BY <1>0, <1>1, <1>4, <1>a, <1>b DEF OpenJournal, TypeOK
<1>5. CASE CheckFence(p)
  BY <1>0, <1>1, <1>5, <1>a DEF CheckFence, TypeOK
<1>6. CASE AppendEvent(p)
  BY <1>0, <1>1, <1>6, <1>a, <1>c DEF AppendEvent, TypeOK
<1>7. CASE AppendFails(p)
  BY SMTT(60), <1>0, <1>1, <1>7, <1>a DEF AppendFails, TypeOK
<1>8. CASE WriteVerdict(p)
  BY <1>0, <1>1, <1>8, <1>a DEF WriteVerdict, TypeOK
<1>9. CASE CheckBeat(p)
  BY <1>0, <1>1, <1>9, <1>a DEF CheckBeat, TypeOK
<1>12. CASE ReadClock(p)
  BY <1>0, <1>1, <1>12, <1>a DEF ReadClock, TypeOK
<1>10. CASE CheckRelease(p)
  BY <1>0, <1>1, <1>10, <1>a DEF CheckRelease, TypeOK
<1>11. CASE Stamp(p)
  <2>1. target[p] \in Epochs
    BY <1>0, <1>11 DEF Stamp, Goto, OwnClaim, Holding, Writing
  <2>2. published' \in Owner
    BY <1>0, <1>11, <2>1 DEF Stamp, Owner, TypeOK
  <2> QED
    BY <1>0, <1>1, <1>11, <1>a, <2>2 DEF Stamp, TypeOK
<1> QED
  BY <1>2, <1>3, <1>4, <1>5, <1>6, <1>7, <1>8, <1>9, <1>10, <1>11,
     <1>12 DEF WriterStep

LEMMA OtherStepTyped ==
  ASSUME IInv, \/ \E p \in Procs : CrashMidAppend(p) \/ Crash(p)
               \/ JanitorStep
               \/ Tick
  PROVE  TypeOK'
<1> USE DEF record, evidence, local
<1>0. TypeOK
  BY DEF IInv
<1>a. "dead" \in PCs
  BY DEF PCs
<1>1. ASSUME NEW p \in Procs, CrashMidAppend(p) PROVE TypeOK'
  <2>1. [seq |-> 0, by |-> p, readable |-> FALSE] \in Line
    BY DEF Line
  <2>2. pc' \in [Procs -> PCs]
    BY <1>0, <1>1, <1>a DEF CrashMidAppend, Goto, TypeOK
  <2>3. journal' \in Seq(Line)
    BY <1>0, <1>1, <2>1 DEF CrashMidAppend, TypeOK
  <2> QED
    BY <1>0, <1>1, <2>2, <2>3 DEF CrashMidAppend, TypeOK
<1>2. ASSUME NEW p \in Procs, Crash(p) PROVE TypeOK'
  BY <1>0, <1>2, <1>a DEF Crash, TypeOK
<1>3. CASE JanitorLooks
  BY <1>0, <1>3 DEF JanitorLooks, TypeOK
<1>4. CASE JanitorErases
  <2>1. journal' \in Seq(Line)
    BY <1>4 DEF JanitorErases
  <2> QED
    BY <1>0, <1>4, <2>1 DEF JanitorErases, TypeOK
<1>5. CASE JanitorMarks
  BY <1>0, <1>5 DEF JanitorMarks, TypeOK
<1>6. CASE Tick
  BY <1>0, <1>6 DEF Tick, TypeOK
<1> QED
  BY <1>1, <1>2, <1>3, <1>4, <1>5, <1>6 DEF JanitorStep

(* The step relation as the lemmas below see it.                             *)
LEMMA NextCases ==
  ASSUME [Next]_vars
  PROVE  \/ \E p \in Procs : ClaimStep(p) \/ WriterStep(p)
         \/ \E p \in Procs : CrashMidAppend(p) \/ Crash(p)
         \/ JanitorStep
         \/ Tick
         \/ UNCHANGED vars
  BY DEF Next

(* Who holds what after a step: a process either keeps its token and its      *)
(* claim, enters Holding by creating a file nobody had, or chooses an epoch.  *)
LEMMA ClaimsKept ==
  ASSUME IInv, [Next]_vars, NEW e \in Named
  PROVE  e \in Named' /\ claims'[e].proc = claims[e].proc
<1> USE DEF record, evidence, local, Named
<1>0. TypeOK /\ OwnClaim
  BY DEF IInv
<1>1. ASSUME NEW p \in Procs, CreateClaim(p)
      PROVE  e \in Named' /\ claims'[e].proc = claims[e].proc
  BY <1>0, <1>1 DEF CreateClaim, TypeOK
<1>2. ASSUME NEW p \in Procs, FillClaim(p)
      PROVE  e \in Named' /\ claims'[e].proc = claims[e].proc
  <2>1. claims[e] \in ClaimFile
    BY <1>0 DEF TypeOK, Absent
  <2> QED
    BY <1>0, <1>2, <2>1 DEF FillClaim, TypeOK, ClaimFile
<1>3. ASSUME UNCHANGED claims
      PROVE  e \in Named' /\ claims'[e].proc = claims[e].proc
  BY <1>3
<1>4. ASSUME NEW p \in Procs, ClaimStep(p) PROVE CreateClaim(p) \/ FillClaim(p) \/ UNCHANGED claims
  BY <1>4 DEF ClaimStep, StartClaim, LookRefused, LookFree, GiveUp, ChooseEpoch, LoseClaim, Publish
<1>5. ASSUME NEW p \in Procs, WriterStep(p) PROVE UNCHANGED claims
  BY <1>5 DEF WriterStep, Register, FirstLine, OpenJournal, CheckFence, AppendEvent,
     AppendFails, WriteVerdict, ReadClock, CheckBeat, CheckRelease, Stamp
<1>6. ASSUME NEW p \in Procs, CrashMidAppend(p) \/ Crash(p) PROVE UNCHANGED claims
  BY <1>6 DEF CrashMidAppend, Crash
<1>7. ASSUME JanitorStep \/ Tick \/ UNCHANGED vars PROVE UNCHANGED claims
  BY <1>7 DEF JanitorStep, JanitorLooks, JanitorErases, JanitorMarks, Tick, vars
<1> QED
  BY <1>1, <1>2, <1>3, <1>4, <1>5, <1>6, <1>7, NextCases

(* The only steps that put a process into Holding \cup {"create"}, or change  *)
(* a token of one that is there already.                                     *)
LEMMA TokenKept ==
  ASSUME IInv, [Next]_vars, NEW p \in Procs,
         pc'[p] \in Holding, ~CreateClaim(p)
  PROVE  pc[p] \in Holding /\ target'[p] = target[p]
<1> USE DEF record, evidence, local, Goto, Holding, Writing
<1>0. TypeOK
  BY DEF IInv
<1>1. ASSUME NEW q \in Procs, ClaimStep(q)
      PROVE  pc[p] \in Holding /\ target'[p] = target[p]
  BY <1>0, <1>1 DEF TypeOK, ClaimStep, StartClaim, LookRefused, LookFree, GiveUp,
     ChooseEpoch, CreateClaim, LoseClaim, FillClaim, Publish
<1>2. ASSUME NEW q \in Procs, WriterStep(q)
      PROVE  pc[p] \in Holding /\ target'[p] = target[p]
  BY <1>0, <1>2 DEF TypeOK, WriterStep, Register, FirstLine, OpenJournal, CheckFence,
     AppendEvent, AppendFails, WriteVerdict, ReadClock, CheckBeat, CheckRelease, Stamp
<1>3. ASSUME NEW q \in Procs, CrashMidAppend(q) \/ Crash(q)
      PROVE  pc[p] \in Holding /\ target'[p] = target[p]
  BY <1>0, <1>3 DEF TypeOK, CrashMidAppend, Crash
<1>4. ASSUME JanitorStep \/ Tick \/ UNCHANGED vars
      PROVE  pc[p] \in Holding /\ target'[p] = target[p]
  BY <1>4 DEF JanitorStep, JanitorLooks, JanitorErases, JanitorMarks, Tick, vars
<1> QED
  BY <1>1, <1>2, <1>3, <1>4, NextCases

LEMMA ChoosingKept ==
  ASSUME IInv, [Next]_vars, NEW p \in Procs, pc'[p] = "create"
  PROVE  target'[p] \in Epochs
<1> USE DEF record, evidence, local, Goto
<1>0. TypeOK /\ (pc[p] = "create" => target[p] \in Epochs)
  BY DEF IInv, OwnClaim
<1>1. ASSUME NEW q \in Procs, ClaimStep(q)
      PROVE  target'[p] \in Epochs
  BY <1>0, <1>1 DEF TypeOK, ClaimStep, StartClaim, LookRefused, LookFree, GiveUp,
     ChooseEpoch, CreateClaim, LoseClaim, FillClaim, Publish
<1>2. ASSUME NEW q \in Procs, WriterStep(q)
      PROVE  target'[p] \in Epochs
  BY <1>0, <1>2 DEF TypeOK, WriterStep, Register, FirstLine, OpenJournal, CheckFence,
     AppendEvent, AppendFails, WriteVerdict, ReadClock, CheckBeat, CheckRelease, Stamp
<1>3. ASSUME NEW q \in Procs, CrashMidAppend(q) \/ Crash(q)
      PROVE  target'[p] \in Epochs
  BY <1>0, <1>3 DEF TypeOK, CrashMidAppend, Crash
<1>4. ASSUME JanitorStep \/ Tick \/ UNCHANGED vars
      PROVE  target'[p] \in Epochs
  BY <1>0, <1>4 DEF JanitorStep, JanitorLooks, JanitorErases, JanitorMarks, Tick, vars
<1> QED
  BY <1>1, <1>2, <1>3, <1>4, NextCases

LEMMA OwnClaimKept == IInv /\ [Next]_vars => OwnClaim'
<1> SUFFICES ASSUME IInv, [Next]_vars, NEW p \in Procs
             PROVE  /\ (pc[p] \in Holding \cup {"create"} => target[p] \in Epochs)'
                    /\ (pc[p] \in Holding => /\ target[p] \in Named
                                             /\ claims[target[p]].proc = p)'
  BY DEF OwnClaim
<1>0. TypeOK /\ OwnClaim
  BY DEF IInv
<1>1. CASE CreateClaim(p)
  <2>1. target[p] \in Epochs /\ target'[p] = target[p]
    BY <1>0, <1>1 DEF CreateClaim, Goto, OwnClaim, local
  <2>2. target[p] \in Named' /\ claims'[target[p]].proc = p
    BY <1>0, <1>1, <2>1 DEF CreateClaim, TypeOK, Named
  <2> QED
    BY <2>1, <2>2
<1>2. CASE pc'[p] \in Holding /\ ~CreateClaim(p)
  <2>1. pc[p] \in Holding /\ target'[p] = target[p]
    BY <1>2, TokenKept
  <2>2. target[p] \in Epochs /\ target[p] \in Named /\ claims[target[p]].proc = p
    BY <1>0, <2>1 DEF OwnClaim
  <2>3. target[p] \in Named' /\ claims'[target[p]].proc = p
    BY <2>2, ClaimsKept
  <2> QED
    BY <2>1, <2>2, <2>3
<1>3. CASE pc'[p] \notin Holding
  BY <1>3, ChoosingKept
<1> QED
  BY <1>1, <1>2, <1>3

(* The invariant is inductive.                                               *)
LEMMA Inductive == IInv /\ [Next]_vars => IInv'
<1> SUFFICES ASSUME IInv, [Next]_vars PROVE IInv'
  OBVIOUS
<1>1. CASE UNCHANGED vars
  BY <1>1 DEF IInv, TypeOK, OwnClaim, vars, record, evidence, local, Named
<1>2. TypeOK'
  BY <1>1, NextCases, ClaimStepTyped, WriterStepTyped, OtherStepTyped DEF IInv
<1> QED
  BY <1>2, OwnClaimKept DEF IInv

(* Every reachable state is typed, whatever the bounds are.                  *)
THEOREM TypeCorrect == Spec => []TypeOK
<1>1. IInv => TypeOK
  BY DEF IInv
<1> QED
  BY <1>1, InitInv, Inductive, PTL DEF Spec

(* No epoch is ever held by two processes, however many claim at once and     *)
(* wherever in the claim they die.                                           *)
THEOREM EpochsUnique == Spec => []UniqueEpoch
<1>1. IInv => UniqueEpoch
  BY DEF IInv, OwnClaim, UniqueEpoch
<1> QED
  BY <1>1, InitInv, Inductive, PTL DEF Spec

-----------------------------------------------------------------------------
(* One writer, while claims do not overlap and live owners keep their stamp   *)
(* fresh.  A live owner's record is current and fresh, so whoever looks is    *)
(* refused; a claimant is alone and above every claim file.                   *)

OneClaimant == \A p, q \in Procs : pc[p] \in Claiming /\ pc[q] \in Claiming => p = q

\* No live process's own record is a grace old, and what it is about to stamp
\* is no older.
Fresh ==
    \A p \in Procs :
        /\ pc[p] \in Claiming \cup Writing =>
              calledAt[p] <= now /\ LastStamp(p) <= now /\ now < LastStamp(p) + Grace
        /\ pc[p] \in {"clock", "stamp", "release"} => LastStamp(p) <= calledAt[p]

\* The epoch a claimant has chosen is the highest that was ever named.
Topmost ==
    \A p \in Procs :
        pc[p] \in {"create", "fill", "publish"} => \A c \in Named : c <= target[p]

OwnsAlone ==
    \A p \in Procs : pc[p] \in Writing =>
        /\ published.epoch = target[p]
        /\ \A c \in Named : c <= target[p]
        /\ \A q \in Procs \ {p} : pc[q] \notin Writing \cup {"choose", "create", "fill", "publish"}

\* A writer that has read the ordinal is ahead of every line.
Ahead ==
    \A p \in Procs :
        pc[p] \in {"first", "owner", "append", "conclude", "clock", "stamp", "release"} =>
            \A i \in DOMAIN journal : journal[i].seq < next[p]

Alone == OneClaimant /\ Fresh /\ Topmost /\ OwnsAlone /\ Ahead /\ SeqMeansOneLine


\* How a process comes to where it stands after a step.
LEMMA Arrivals ==
  ASSUME TypeOK, [Next]_vars, NEW p \in Procs
  PROVE  /\ pc'[p] \in Claiming =>
              StartClaim(p) \/ (pc[p] \in Claiming /\ calledAt'[p] = calledAt[p])
         /\ pc'[p] \in Writing =>
              /\ calledAt'[p] = calledAt[p] \/ ReadClock(p)
              /\ target'[p] = target[p]
              /\ pc[p] \in Writing \/ Publish(p)
         /\ pc'[p] \in {"create", "fill", "publish"} =>
              ChooseEpoch(p) \/ (pc[p] \in {"create", "fill", "publish"} /\ target'[p] = target[p])
         /\ pc'[p] \in {"choose", "create", "fill", "publish"} =>
              LookFree(p) \/ pc[p] \in {"choose", "create", "fill", "publish"}
<1> USE DEF record, evidence, local, Goto, Claiming, Writing
<1> DEFINE Arrived ==
         /\ pc'[p] \in Claiming =>
              StartClaim(p) \/ (pc[p] \in Claiming /\ calledAt'[p] = calledAt[p])
         /\ pc'[p] \in Writing =>
              /\ calledAt'[p] = calledAt[p] \/ ReadClock(p)
              /\ target'[p] = target[p]
              /\ pc[p] \in Writing \/ Publish(p)
         /\ pc'[p] \in {"create", "fill", "publish"} =>
              ChooseEpoch(p) \/ (pc[p] \in {"create", "fill", "publish"} /\ target'[p] = target[p])
         /\ pc'[p] \in {"choose", "create", "fill", "publish"} =>
              LookFree(p) \/ pc[p] \in {"choose", "create", "fill", "publish"}
<1>1. ASSUME pc'[p] = pc[p], calledAt'[p] = calledAt[p], target'[p] = target[p]
      PROVE  Arrived
  BY <1>1
<1>2. ASSUME NEW q \in Procs, q # p, ClaimStep(q) \/ WriterStep(q) \/ CrashMidAppend(q) \/ Crash(q)
      PROVE  Arrived
  <2>1. pc'[p] = pc[p]
    BY <1>2 DEF TypeOK, ClaimStep, StartClaim, LookRefused, LookFree, GiveUp, ChooseEpoch,
       CreateClaim, LoseClaim, FillClaim, Publish, WriterStep, Register, FirstLine, OpenJournal,
       CheckFence, AppendEvent, AppendFails, WriteVerdict, ReadClock, CheckBeat, CheckRelease, Stamp,
       CrashMidAppend, Crash
  <2>2. calledAt'[p] = calledAt[p] /\ target'[p] = target[p]
    BY <1>2 DEF TypeOK, ClaimStep, StartClaim, LookRefused, LookFree, GiveUp, ChooseEpoch,
       CreateClaim, LoseClaim, FillClaim, Publish, WriterStep, Register, FirstLine, OpenJournal,
       CheckFence, AppendEvent, AppendFails, WriteVerdict, ReadClock, CheckBeat, CheckRelease, Stamp,
       CrashMidAppend, Crash
  <2> QED
    BY <1>1, <2>1, <2>2
<1>3. ASSUME StartClaim(p) \/ LookFree(p) \/ ChooseEpoch(p) \/ Publish(p) PROVE Arrived
  BY <1>3 DEF TypeOK, StartClaim, LookFree, ChooseEpoch, Publish
<1>4. ASSUME LookRefused(p) \/ GiveUp(p) \/ CreateClaim(p) \/ LoseClaim(p) \/ FillClaim(p)
      PROVE  Arrived
  BY <1>4 DEF TypeOK, LookRefused, GiveUp, CreateClaim, LoseClaim, FillClaim
<1>5. ASSUME WriterStep(p) PROVE Arrived
  <2>1. pc[p] \in Writing /\ (calledAt'[p] = calledAt[p] \/ ReadClock(p)) /\ target'[p] = target[p]
        /\ pc'[p] \in Writing \cup {"fenced", "closed"}
    BY <1>5 DEF TypeOK, WriterStep, Register, FirstLine, OpenJournal, CheckFence, AppendEvent,
       AppendFails, WriteVerdict, ReadClock, CheckBeat, CheckRelease, Stamp
  <2> QED
    BY <2>1
<1>6. ASSUME CrashMidAppend(p) \/ Crash(p) PROVE Arrived
  BY <1>6 DEF TypeOK, CrashMidAppend, Crash
<1>7. ASSUME JanitorStep \/ Tick \/ UNCHANGED vars PROVE Arrived
  BY <1>1, <1>7 DEF JanitorStep, JanitorLooks, JanitorErases, JanitorMarks, Tick, vars
<1> QED
  BY <1>2, <1>3, <1>4, <1>5, <1>6, <1>7, NextCases DEF ClaimStep

\* What a step does to what the processes share.
LEMMA Shared ==
  ASSUME TypeOK, [Next]_vars
  PROVE  /\ \/ UNCHANGED published
            \/ \E q \in Procs : Publish(q) \/ Stamp(q)
         /\ \/ Named' = Named
            \/ \E q \in Procs : CreateClaim(q) /\ Named' \subseteq Named \cup {target[q]}
         /\ UNCHANGED now \/ Tick
<1> USE DEF record, evidence, local
<1>1. ASSUME NEW q \in Procs, CreateClaim(q)
      PROVE  UNCHANGED <<published, now>> /\ Named' \subseteq Named \cup {target[q]}
  <2>1. \A e \in Epochs \ {target[q]} : claims'[e] = claims[e]
    BY <1>1 DEF CreateClaim, TypeOK
  <2>2. UNCHANGED <<published, now>>
    BY <1>1 DEF CreateClaim
  <2> QED
    BY <2>1, <2>2 DEF Named
<1>2. ASSUME NEW q \in Procs, FillClaim(q) PROVE UNCHANGED <<published, now>> /\ Named' = Named
  BY <1>2 DEF FillClaim, TypeOK, Named, ClaimFile, Absent
<1>3. ASSUME UNCHANGED <<published, claims, now>> PROVE UNCHANGED <<published, now>> /\ Named' = Named
  BY <1>3 DEF Named
<1>4. ASSUME NEW q \in Procs, ClaimStep(q)
      PROVE  CreateClaim(q) \/ FillClaim(q) \/ UNCHANGED <<published, claims, now>>
             \/ (Publish(q) /\ UNCHANGED <<claims, now>>)
  BY <1>4 DEF ClaimStep, StartClaim, LookRefused, LookFree, GiveUp, ChooseEpoch, LoseClaim, Publish
<1>5. ASSUME NEW q \in Procs, WriterStep(q) 
      PROVE  UNCHANGED <<published, claims, now>> \/ (Stamp(q) /\ UNCHANGED <<claims, now>>)
  BY <1>5 DEF WriterStep, Register, FirstLine, OpenJournal, CheckFence, AppendEvent,
     AppendFails, WriteVerdict, ReadClock, CheckBeat, CheckRelease, Stamp
<1>6. ASSUME NEW q \in Procs, CrashMidAppend(q) \/ Crash(q) PROVE UNCHANGED <<published, claims, now>>
  BY <1>6 DEF CrashMidAppend, Crash
<1>7. ASSUME JanitorStep \/ Tick \/ UNCHANGED vars
      PROVE  UNCHANGED <<published, claims>> /\ (UNCHANGED now \/ Tick)
  BY <1>7 DEF JanitorStep, JanitorLooks, JanitorErases, JanitorMarks, Tick, vars
<1> QED
  BY <1>1, <1>2, <1>3, <1>4, <1>5, <1>6, <1>7, NextCases DEF Named

LEMMA OneClaimantKept ==
  ASSUME TypeOK, Serial, OneClaimant, [Next]_vars
  PROVE  OneClaimant'
<1> SUFFICES ASSUME NEW p \in Procs, NEW q \in Procs, pc'[p] \in Claiming, pc'[q] \in Claiming, p # q
             PROVE  FALSE
  BY DEF OneClaimant
<1>1. ASSUME NEW r \in Procs, NEW s \in Procs, r # s, StartClaim(r), pc'[s] \in Claiming
      PROVE  FALSE
  BY <1>1 DEF StartClaim, Goto, TypeOK
<1>2. pc[p] \in Claiming /\ pc[q] \in Claiming
  BY <1>1, Arrivals
<1> QED
  BY <1>2 DEF OneClaimant

\* Only ReadClock begins a stamp.
LEMMA Clocked ==
  ASSUME TypeOK, [Next]_vars, NEW p \in Procs, ~ReadClock(p),
         pc'[p] \in {"clock", "stamp", "release"}
  PROVE  pc[p] \in {"clock", "stamp", "release"}
<1> USE DEF record, evidence, local, Goto
<1>1. ASSUME NEW q \in Procs, ClaimStep(q)
      PROVE  pc[p] \in {"clock", "stamp", "release"}
  BY <1>1 DEF TypeOK, ClaimStep, StartClaim, LookRefused, LookFree, GiveUp, ChooseEpoch,
     CreateClaim, LoseClaim, FillClaim, Publish
<1>2. ASSUME NEW q \in Procs, WriterStep(q)
      PROVE  pc[p] \in {"clock", "stamp", "release"}
  BY <1>2 DEF TypeOK, WriterStep, Register, FirstLine, OpenJournal, CheckFence, AppendEvent,
     AppendFails, WriteVerdict, ReadClock, CheckBeat, CheckRelease, Stamp
<1>3. ASSUME NEW q \in Procs, CrashMidAppend(q) \/ Crash(q)
      PROVE  pc[p] \in {"clock", "stamp", "release"}
  BY <1>3 DEF TypeOK, CrashMidAppend, Crash
<1>4. ASSUME JanitorStep \/ Tick \/ UNCHANGED vars
      PROVE  pc[p] \in {"clock", "stamp", "release"}
  BY <1>4 DEF JanitorStep, JanitorLooks, JanitorErases, JanitorMarks, Tick, vars
<1> QED
  BY <1>1, <1>2, <1>3, <1>4, NextCases

LEMMA FreshKept ==
  ASSUME IInv, Punctual, Grace > 0, OneClaimant, Fresh, OwnsAlone, [Next]_vars
  PROVE  Fresh'
<1>0. TypeOK
  BY DEF IInv
<1> DEFINE Stamping == {"clock", "stamp", "release"}
           Sound(p) ==
             /\ calledAt[p] <= now /\ LastStamp(p) <= now /\ now < LastStamp(p) + Grace
             /\ pc[p] \in Stamping => LastStamp(p) <= calledAt[p]
<1>a. Stamping \subseteq Writing /\ Claiming \cap Writing = {}
  BY DEF Claiming, Writing
<1> SUFFICES ASSUME NEW p \in Procs, pc'[p] \in Claiming \cup Writing
             PROVE  Sound(p)'
  BY <1>a DEF Fresh
<1>1. /\ now \in Nat /\ Grace \in Nat /\ calledAt[p] \in Nat /\ now' \in Nat /\ now <= now'
      /\ now' = now \/ Tick
  <2>1. now \in Nat /\ Grace \in Nat /\ calledAt[p] \in Nat
    BY <1>0, TimeAssumption DEF TypeOK
  <2>2. now' = now \/ Tick
    BY <1>0, Shared
  <2> QED
    BY <2>1, <2>2 DEF Tick
<1>3. CASE StartClaim(p)
  <2>1. calledAt'[p] = now /\ now' = now /\ pc'[p] \notin Writing
    BY <1>0, <1>3 DEF StartClaim, TypeOK, Goto, Writing
  <2>2. LastStamp(p)' = now
    BY <2>1 DEF LastStamp
  <2> QED
    BY <1>1, <1>a, <2>1, <2>2
<1>4. ASSUME ~StartClaim(p) PROVE Sound(p)'
  <2>1. /\ pc[p] \in Claiming \cup Writing
        /\ calledAt'[p] = calledAt[p] \/ ReadClock(p)
        /\ pc'[p] \in Claiming => pc[p] \in Claiming /\ calledAt'[p] = calledAt[p]
        /\ pc'[p] \in Writing => pc[p] \in Writing \/ Publish(p)
        /\ pc'[p] \in Writing => target'[p] = target[p]
    BY <1>0, <1>4, Arrivals DEF Publish, Goto, Claiming
  <2>2. /\ calledAt[p] <= now /\ LastStamp(p) <= now /\ now < LastStamp(p) + Grace
        /\ pc[p] \in Stamping => LastStamp(p) <= calledAt[p]
    BY <2>1 DEF Fresh
  <2>3. CASE pc'[p] \in Claiming
    <3>1. /\ LastStamp(p) = calledAt[p] /\ LastStamp(p)' = calledAt[p]
          /\ calledAt'[p] = calledAt[p] /\ pc'[p] \notin Stamping
      BY <1>a, <2>1, <2>3 DEF LastStamp
    <3>2. Tick => now' < calledAt[p] + Grace
      BY <2>1, <3>1 DEF Tick
    <3> QED
      BY <1>1, <2>2, <3>1, <3>2
  <2>4. CASE Publish(p)
    <3>1. /\ published' = [epoch |-> target[p], proc |-> p, beat |-> calledAt[p]]
          /\ now' = now /\ calledAt' = calledAt /\ pc[p] \notin Writing /\ pc'[p] = "register"
      BY <1>0, <2>4 DEF Publish, Goto, Writing, TypeOK, local
    <3>2. LastStamp(p) = calledAt[p]
      BY <3>1 DEF LastStamp
    <3>3. published'.beat = calledAt[p] /\ LastStamp(p)' = calledAt[p]
      BY <2>1, <3>1 DEF LastStamp
    <3> QED
      BY <1>1, <2>2, <3>1, <3>2, <3>3
  <2>5. CASE pc'[p] \in Writing /\ pc[p] \in Writing
    <3>1. published.epoch = target[p] /\ \A q \in Procs \ {p} : pc[q] \notin Writing \cup {"publish"}
      BY <2>5 DEF OwnsAlone
    <3>2. LastStamp(p) = published.beat /\ published.beat \in Nat
      <4>1. target[p] \in Epochs
        BY <2>5 DEF IInv, OwnClaim, Holding
      <4>2. published \in Owner
        BY <1>0, <3>1, <4>1 DEF TypeOK, NoOwner, Epochs
      <4> QED
        BY <2>5, <3>1, <4>2 DEF LastStamp, Owner
    <3>3. CASE UNCHANGED published
      <4>1. LastStamp(p)' = published.beat
        BY <2>1, <2>5, <3>1, <3>3 DEF LastStamp
      <4>2. Tick => now' < published.beat + Grace
        BY <2>1, <3>2 DEF Tick
      <4>3. CASE ReadClock(p)
        <5>1. calledAt'[p] = now /\ now' = now
          BY <1>0, <4>3 DEF ReadClock, TypeOK
        <5> QED
          BY <1>1, <2>2, <3>2, <4>1, <5>1
      <4>4. CASE ~ReadClock(p)
        <5>1. calledAt'[p] = calledAt[p]
          BY <2>1, <4>4
        <5>2. pc'[p] \in Stamping => pc[p] \in Stamping
          BY <1>0, <4>4, Clocked
        <5> QED
          BY <1>1, <2>2, <3>2, <4>1, <4>2, <5>1, <5>2
      <4> QED
        BY <4>3, <4>4
    <3>4. ASSUME NEW q \in Procs, Publish(q) \/ Stamp(q)
          PROVE  Sound(p)'
      <4>1. q = p /\ Stamp(p)
        BY <2>5, <3>1, <3>4 DEF Publish, Stamp, Goto, Writing
      <4>2. /\ published' = [epoch |-> target[p], proc |-> p, beat |-> calledAt[p]]
            /\ now' = now /\ calledAt' = calledAt /\ pc[p] \in Stamping
        BY <4>1 DEF Stamp, Goto, local
      <4>3. LastStamp(p)' = calledAt[p]
        BY <2>1, <2>5, <4>2 DEF LastStamp
      <4> QED
        BY <1>1, <2>2, <3>2, <4>2, <4>3
    <3> QED
      BY <1>0, <3>3, <3>4, Shared
  <2> QED
    BY <2>1, <2>3, <2>4, <2>5
<1> QED
  BY <1>3, <1>4

LEMMA TopmostKept ==
  ASSUME IInv, OneClaimant, Topmost, [Next]_vars
  PROVE  Topmost'
<1>0. TypeOK /\ OwnClaim
  BY DEF IInv
<1> SUFFICES ASSUME NEW p \in Procs, pc'[p] \in {"create", "fill", "publish"}, NEW c \in Named'
             PROVE  c <= target'[p]
  BY DEF Topmost
<1>1. CASE ChooseEpoch(p)
  <2>1. Named' = Named /\ target'[p] \in Nat /\ \A d \in Named : d < target'[p]
    BY <1>0, <1>1 DEF ChooseEpoch, IsNextEpoch, Named, record, TypeOK, Epochs
  <2>2. c \in Nat
    BY <2>1 DEF Named, Epochs
  <2> QED
    BY <2>1, <2>2
<1>2. CASE pc[p] \in {"create", "fill", "publish"} /\ target'[p] = target[p]
  <2>1. \A d \in Named : d <= target[p]
    BY <1>2 DEF Topmost
  <2>2. ASSUME NEW q \in Procs, CreateClaim(q), c = target[q] PROVE c <= target'[p]
    <3>1. p = q
      BY <1>2, <2>2 DEF OneClaimant, CreateClaim, Goto, Claiming
    <3>2. target[p] \in Nat
      BY <1>0, EpochAssumption DEF TypeOK
    <3> QED
      BY <1>2, <2>2, <3>1, <3>2
  <2> QED
    BY <1>0, <1>2, <2>1, <2>2, Shared
<1> QED
  BY <1>0, <1>1, <1>2, Arrivals

\* While a live owner's record is current and fresh, no claimant finds the run free.
LEMMA OwnerIsSeen ==
  ASSUME IInv, Fresh, OwnsAlone, NEW p \in Procs, pc[p] \in Writing, NEW q \in Procs
  PROVE  ~LookFree(q)
<1> SUFFICES ASSUME LookFree(q) PROVE FALSE
  OBVIOUS
<1>0. TypeOK /\ target[p] \in Epochs /\ Grace \in Nat
  BY TimeAssumption DEF IInv, OwnClaim, Holding
<1>1. published.epoch = target[p] /\ \A c \in Named : c <= target[p]
  BY DEF OwnsAlone
<1>2. published \in Owner
  BY <1>0, <1>1 DEF TypeOK, NoOwner, Epochs
<1>3. PICK e \in 0 .. MaxEpoch : IsCurrent(e) /\ (e # 0 => ProvablyLost(OwnerAt(e), q))
  BY DEF LookFree
<1>4. \A c \in Known : c <= target[p]
  BY <1>0, <1>1 DEF Known, Decodable, Epochs
<1>5. e = target[p]
  <2>1. target[p] <= e /\ e <= target[p]
    BY <1>1, <1>3, <1>4 DEF IsCurrent, Known
  <2> QED
    BY <1>0, <1>3, <2>1 DEF Epochs
<1>6. calledAt[q] >= published.beat + Grace
  BY <1>0, <1>1, <1>3, <1>5 DEF ProvablyLost, OwnerAt, Epochs
<1>7. calledAt[q] <= now
  BY DEF Fresh, LookFree, Goto, Claiming
<1>8. now < published.beat + Grace
  BY <1>1 DEF Fresh, LastStamp
<1>9. published.beat \in Nat /\ now \in Nat /\ calledAt[q] \in Nat
  BY <1>0, <1>2 DEF Owner, TypeOK
<1> QED
  BY <1>0, <1>6, <1>7, <1>8, <1>9

LEMMA OwnsAloneKept ==
  ASSUME IInv, OneClaimant, Fresh, Topmost, OwnsAlone, [Next]_vars
  PROVE  OwnsAlone'
<1>0. TypeOK
  BY DEF IInv
<1> DEFINE Past == {"choose", "create", "fill", "publish"}
<1> SUFFICES ASSUME NEW p \in Procs, pc'[p] \in Writing
             PROVE  /\ published'.epoch = target'[p]
                    /\ \A c \in Named' : c <= target'[p]
                    /\ \A q \in Procs \ {p} : pc'[q] \notin Writing \cup Past
  BY DEF OwnsAlone
<1>1. CASE Publish(p)
  <2>1. /\ published'.epoch = target[p] /\ target'[p] = target[p] /\ Named' = Named
        /\ \A q \in Procs \ {p} : pc'[q] = pc[q]
    BY <1>0, <1>1 DEF Publish, Goto, TypeOK, local, Named
  <2>2. \A c \in Named : c <= target[p]
    BY <1>1 DEF Topmost, Publish, Goto
  <2>3. \A q \in Procs \ {p} : pc[q] \notin Writing \cup Past
    <3>1. pc[p] = "publish"
      BY <1>1 DEF Publish, Goto
    <3> QED
      BY <3>1 DEF OwnsAlone, OneClaimant, Claiming
  <2> QED
    BY <2>1, <2>2, <2>3
<1>2. CASE pc[p] \in Writing /\ target'[p] = target[p]
  <2>1. /\ published.epoch = target[p] /\ \A c \in Named : c <= target[p]
        /\ \A q \in Procs \ {p} : pc[q] \notin Writing \cup Past
    BY <1>2 DEF OwnsAlone
  <2>2. published'.epoch = target[p]
    <3>1. ASSUME NEW q \in Procs, Publish(q) \/ Stamp(q) PROVE published'.epoch = target[p]
      <4>1. q = p
        BY <2>1, <3>1 DEF Publish, Stamp, Goto, Writing
      <4> QED
        BY <3>1, <4>1 DEF Publish, Stamp
    <3> QED
      BY <1>0, <2>1, <3>1, Shared
  <2>3. Named' = Named
    <3>1. ASSUME NEW q \in Procs, CreateClaim(q) PROVE FALSE
      BY <1>2, <2>1, <3>1 DEF CreateClaim, Goto, Writing
    <3> QED
      BY <1>0, <3>1, Shared
  <2>4. ASSUME NEW q \in Procs \ {p} PROVE pc'[q] \notin Writing \cup Past
    <3>1. ~LookFree(q)
      BY <1>2, OwnerIsSeen
    <3>2. ~Publish(q)
      BY <2>1 DEF Publish, Goto
    <3> QED
      BY <1>0, <2>1, <3>1, <3>2, Arrivals
  <2> QED
    BY <1>2, <2>1, <2>2, <2>3, <2>4
<1> QED
  BY <1>0, <1>1, <1>2, Arrivals

-----------------------------------------------------------------------------
(* The journal of a run with one writer.                                      *)

LEMMA PutLineEffect ==
  ASSUME TypeOK, NEW p \in Procs, PutLine(p)
  PROVE  /\ journal' \in Seq(Line)
         /\ \/ journal' = journal
            \/ /\ Len(journal') = Len(journal) + 1
               /\ \A i \in 1 .. Len(journal) : journal'[i] = journal[i]
               /\ journal'[Len(journal) + 1].seq = next[p]
<1>1. [seq |-> next[p], by |-> p, readable |-> TRUE] \in Line
  BY DEF TypeOK, Line
<1> QED
  BY <1>1 DEF PutLine, TypeOK

LEMMA JournalKept ==
  ASSUME IInv, OwnsAlone, Ahead, SeqMeansOneLine, [Next]_vars
  PROVE  Ahead' /\ SeqMeansOneLine'
<1>0. TypeOK /\ journal \in Seq(Line) /\ Len(journal) \in Nat /\ DOMAIN journal = 1 .. Len(journal)
  BY DEF IInv, TypeOK
<1>00. \A p \in Procs : next[p] \in Nat
  BY <1>0 DEF TypeOK
<1>000. \A i \in 1 .. Len(journal) : journal[i] \in Line /\ journal[i].seq \in Nat
  <2>1. \A i \in 1 .. Len(journal) : journal[i] \in Line
    BY <1>0, ElementOfSeq
  <2> QED
    BY <2>1 DEF Line
<1> DEFINE Reading == {"first", "owner", "append", "conclude", "clock", "stamp", "release"}
<1>1. ASSUME NEW p \in Procs, pc[p] \in {"first", "append"}, PutLine(p),
             \A q \in Procs \ {p} : pc'[q] = pc[q],
             pc'[p] \in Reading => next'[p] = next[p] + 1
      PROVE  Ahead' /\ SeqMeansOneLine'
  <2>1. \A i \in 1 .. Len(journal) : journal[i].seq < next[p]
    BY <1>0, <1>1 DEF Ahead
  <2>2. \A q \in Procs \ {p} : pc'[q] \notin Reading
    BY <1>1 DEF OwnsAlone, Writing
  <2>3. journal' \in Seq(Line) /\ DOMAIN journal' = 1 .. Len(journal') /\ Len(journal') \in Nat
    BY <1>0, <1>1, PutLineEffect
  <2>4. CASE journal' = journal
    BY <1>0, <1>00, <1>000, <1>1, <2>1, <2>2, <2>4 DEF Ahead, SeqMeansOneLine
  <2>5. CASE /\ Len(journal') = Len(journal) + 1
             /\ \A i \in 1 .. Len(journal) : journal'[i] = journal[i]
             /\ journal'[Len(journal) + 1].seq = next[p]
    <3>1. \A i \in 1 .. Len(journal) + 1 : journal'[i].seq < next[p] + 1
      BY <1>0, <1>00, <1>000, <1>1, <2>1, <2>5
    <3>2. Ahead'
      BY <1>1, <2>2, <2>3, <2>5, <3>1 DEF Ahead
    <3>3. ASSUME NEW i \in 1 .. Len(journal) + 1, NEW j \in 1 .. Len(journal) + 1,
                 journal'[i].readable, journal'[j].readable, journal'[i].seq = journal'[j].seq
          PROVE  i = j
      <4>1. ASSUME NEW k \in 1 .. Len(journal) PROVE journal'[k].seq # next[p]
        BY <1>00, <1>000, <1>1, <2>1, <2>5, <4>1
      <4>2. CASE i = Len(journal) + 1 \/ j = Len(journal) + 1
        BY <1>0, <2>5, <3>3, <4>1, <4>2
      <4>3. CASE i # Len(journal) + 1 /\ j # Len(journal) + 1
        <5>1. i \in 1 .. Len(journal) /\ j \in 1 .. Len(journal)
          BY <1>0, <4>3
        <5> QED
          BY <1>0, <2>5, <3>3, <5>1 DEF SeqMeansOneLine
      <4> QED
        BY <4>2, <4>3
    <3> QED
      BY <2>3, <2>5, <3>2, <3>3 DEF SeqMeansOneLine
  <2> QED
    BY <1>0, <1>1, <2>4, <2>5, PutLineEffect
<1>2. ASSUME NEW p \in Procs, journal' = journal, \A q \in Procs \ {p} : pc'[q] = pc[q] /\ next'[q] = next[q],
             pc'[p] \in Reading => (pc[p] \in Reading /\ next'[p] = next[p]) \/ ReadSeq(p)
      PROVE  Ahead' /\ SeqMeansOneLine'
  <2>1. ReadSeq(p) => \A i \in 1 .. Len(journal) : journal[i].seq < next'[p]
    BY <1>0 DEF ReadSeq, IsNextSeq, TypeOK
  <2> QED
    BY <1>0, <1>2, <2>1 DEF Ahead, SeqMeansOneLine
<1>3. ASSUME UNCHANGED <<journal, pc, next>> PROVE Ahead' /\ SeqMeansOneLine'
  BY <1>3 DEF Ahead, SeqMeansOneLine
<1> USE DEF record, evidence, local, Goto
<1>4. ASSUME NEW p \in Procs, ClaimStep(p) PROVE Ahead' /\ SeqMeansOneLine'
  <2>1. journal' = journal /\ next' = next /\ pc'[p] \notin Reading
        /\ \A q \in Procs \ {p} : pc'[q] = pc[q]
    BY <1>0, <1>4 DEF TypeOK, ClaimStep, StartClaim, LookRefused, LookFree, GiveUp, ChooseEpoch,
       CreateClaim, LoseClaim, FillClaim, Publish
  <2> QED
    BY <1>2, <2>1
<1>5. ASSUME NEW p \in Procs, WriterStep(p) PROVE Ahead' /\ SeqMeansOneLine'
  <2>1. CASE FirstLine(p)
    BY <1>0, <1>1, <1>5, <2>1 DEF FirstLine, TypeOK
  <2>2. CASE AppendEvent(p)
    BY <1>0, <1>1, <1>5, <2>2 DEF AppendEvent, TypeOK
  <2>3. CASE Register(p) \/ OpenJournal(p)
    BY <1>0, <1>2, <2>3 DEF Register, OpenJournal, ReadSeq, TypeOK
  <2>4. CASE CheckFence(p) \/ AppendFails(p) \/ WriteVerdict(p)
    BY <1>0, <1>2, <2>4 DEF CheckFence, AppendFails, WriteVerdict, TypeOK
  <2>5. CASE ReadClock(p) \/ CheckBeat(p) \/ CheckRelease(p) \/ Stamp(p)
    BY <1>0, <1>2, <2>5 DEF ReadClock, CheckBeat, CheckRelease, Stamp, TypeOK
  <2> QED
    BY <1>5, <2>1, <2>2, <2>3, <2>4, <2>5 DEF WriterStep
<1>6. ASSUME NEW p \in Procs, Crash(p) PROVE Ahead' /\ SeqMeansOneLine'
  BY <1>0, <1>2, <1>6 DEF Crash, TypeOK
<1>7. ASSUME NEW p \in Procs, CrashMidAppend(p) PROVE Ahead' /\ SeqMeansOneLine'
  <2>. DEFINE torn == [seq |-> 0, by |-> p, readable |-> FALSE]
  <2>1. torn \in Line /\ journal' = Append(journal, torn) /\ pc[p] \in {"first", "append"}
    BY <1>7 DEF CrashMidAppend, Goto, Line
  <2>2. /\ DOMAIN journal' = 1 .. Len(journal) + 1 /\ journal'[Len(journal) + 1] = torn
        /\ \A i \in 1 .. Len(journal) : journal'[i] = journal[i]
    BY <1>0, <2>1
  <2>3. \A q \in Procs : pc'[q] \notin Reading
    BY <1>0, <1>7, <2>1 DEF CrashMidAppend, TypeOK, OwnsAlone, Writing
  <2>4. Ahead'
    BY <2>3 DEF Ahead
  <2>5. SeqMeansOneLine'
    <3>1. \A i \in 1 .. Len(journal) + 1 : journal'[i].readable => i \in 1 .. Len(journal)
      BY <1>0, <2>2
    <3> QED
      BY <1>0, <2>2, <3>1 DEF SeqMeansOneLine
  <2> QED
    BY <2>4, <2>5
<1>8. CASE JanitorErases
  BY <1>8 DEF JanitorErases, Ahead, SeqMeansOneLine
<1>9. CASE JanitorLooks \/ JanitorMarks \/ Tick \/ UNCHANGED vars
  BY <1>3, <1>9 DEF JanitorLooks, JanitorMarks, Tick, vars
<1> QED
  BY <1>4, <1>5, <1>6, <1>7, <1>8, <1>9, NextCases DEF JanitorStep

LEMMA InitAlone == Init => Alone
  BY DEF Init, Alone, OneClaimant, Fresh, Topmost, OwnsAlone, Ahead, SeqMeansOneLine, Claiming,
     Writing

LEMMA AloneKept ==
  ASSUME Serial, Punctual, Grace > 0
  PROVE  IInv /\ Alone /\ [Next]_vars => Alone'
  BY OneClaimantKept, FreshKept, TopmostKept, OwnsAloneKept, JournalKept DEF Alone, IInv

\* While claims do not overlap and live owners keep their stamp fresh, two
\* processes are never both past the fence check and about to write
\* (owner.ts, claimOwnership and ownershipProvablyLost; history.ts, emit).
THEOREM OneWriter ==
  ASSUME Serial, Punctual, Grace > 0
  PROVE  Spec => []SoleWriter
<1>1. Alone => SoleWriter
  BY DEF Alone, OwnsAlone, SoleWriter, Writing
<1>2. IInv /\ Alone /\ [Next]_vars => (IInv /\ Alone)'
  BY Inductive, AloneKept
<1> QED
  BY <1>1, <1>2, InitInv, InitAlone, PTL DEF Spec

\* The same of the journal's ordinals: a successor continues the numbering of
\* the writer it replaced (store.ts, nextSeq and appendAt).
THEOREM OneLinePerSeq ==
  ASSUME Serial, Punctual, Grace > 0
  PROVE  Spec => []SeqMeansOneLine
<1>1. Alone => SeqMeansOneLine
  BY DEF Alone
<1>2. IInv /\ Alone /\ [Next]_vars => (IInv /\ Alone)'
  BY Inductive, AloneKept
<1> QED
  BY <1>1, <1>2, InitInv, InitAlone, PTL DEF Spec
=============================================================================
