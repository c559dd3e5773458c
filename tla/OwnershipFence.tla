--------------------------- MODULE OwnershipFence ---------------------------
(***************************************************************************)
(* The ownership fence of one run directory: how one process at a time     *)
(* writes a run's durable record (packages/run-history/src/owner.ts), with *)
(* the journal and the verdict it guards (store.ts), the writer that uses  *)
(* it (packages/execution/src/coordinator/history.ts) and the janitor that *)
(* erases what nobody writes any more (retention.ts).                      *)
(*                                                                         *)
(* A step is one system call of one process: reading the owner records,    *)
(* listing the claim names, open(O_EXCL), filling the claim, rename,       *)
(* append.  Between any two of them every other process may run, and the   *)
(* process itself may die.                                                 *)
(***************************************************************************)
EXTENDS Naturals, Sequences

CONSTANTS
    Procs,        \* processes that ever try to own the run
    HostOf,       \* the machine each of them runs on
    Grace,        \* OWNERSHIP_GRACE_MS, in ticks
    MaxTries,     \* attempts of one claimOwnership call (8 in the code)
    MaxEpoch,     \* bound: epochs ever named
    MaxTime,      \* bound: ticks of the clock
    MaxLines,     \* bound: journal lines
    MaxFaults,    \* bound: failed or torn appends
    Serial,       \* TRUE: claims of this run do not overlap
    Punctual      \* TRUE: a live owner's stamp never gets Grace old

ASSUME EpochAssumption == MaxEpoch \in Nat
ASSUME TimeAssumption == Grace \in Nat /\ MaxTime \in Nat
ASSUME BoundAssumption == MaxTries \in Nat /\ MaxLines \in Nat /\ MaxFaults \in Nat
ASSUME SwitchAssumption == Serial \in BOOLEAN /\ Punctual \in BOOLEAN

VARIABLES
    now,        \* the clock every process reads
    published,  \* owner.json; epoch 0 when there is none
    claims,     \* owner.<n>.claim, for every n
    journal,    \* the lines of the event journal
    tornTail,   \* the journal ends in an unterminated fragment
    verdict,    \* the verdict file exists
    erased,     \* the janitor has removed the journal
    expired,    \* the tombstone exists
    janitor,    \* where the janitor stands
    pc,         \* where each process stands
    calledAt,   \* the clock value its claim, heartbeat or release was called with
    tries,      \* epochs it lost in this claim
    floor,      \* the epoch of the incumbent it last looked at
    target,     \* the epoch it is claiming, then its token
    next,       \* the ordinal its journal writer holds in memory
    faults      \* failed or torn appends so far

record == <<published, claims>>
evidence == <<journal, tornTail, verdict, erased, expired, janitor>>
local == <<calledAt, tries, floor, target, next>>
vars == <<now, record, evidence, pc, local, faults>>

Epochs == 1 .. MaxEpoch
Absent == [made |-> FALSE]
NoOwner == [epoch |-> 0]

ClaimFile == [made : {TRUE}, proc : Procs, at : Nat, whole : BOOLEAN]
Owner == [epoch : Epochs, proc : Procs, beat : Nat]
Line == [seq : Nat, by : Procs, readable : BOOLEAN]

Claiming == {"look", "choose", "create", "fill", "publish"}
Writing == {"register", "first", "open", "owner", "append", "conclude",
            "clock", "stamp", "release"}
Holding == {"fill", "publish"} \cup Writing
Settled == {"refused", "raced", "fenced", "closed"}
PCs == {"idle", "dead"} \cup Claiming \cup Writing \cup Settled

-----------------------------------------------------------------------------
(* What a reader of the directory sees.                                    *)

Named == {e \in Epochs : claims[e].made}
Decodable == {e \in Named : claims[e].whole}
Known == Decodable \cup {published.epoch}

\* e is the epoch of currentOwner(): the highest among the published record
\* and the claim files that decode.
IsCurrent(e) == e \in Known /\ \A c \in Known : c <= e

\* The record currentOwner() returns for that epoch: the published one wins a tie.
OwnerAt(e) == IF e = published.epoch THEN published
              ELSE [epoch |-> e, proc |-> claims[e].proc, beat |-> claims[e].at]

\* Signal 0 to the pid of an owner on this host.
PidAlive(q) == pc[q] \notin {"idle", "dead"}

\* Mutant: the pid alone taken as proof.
ProvablyLost_NoGrace(o, p) == HostOf[o.proc] = HostOf[p] => ~PidAlive(o.proc)

\* ownershipProvablyLost, as p sees it with the clock its call began with.
ProvablyLost(o, p) ==
    /\ calledAt[p] >= o.beat + Grace
    /\ HostOf[o.proc] = HostOf[p] => ~PidAlive(o.proc)

StillOwner(p) == published.epoch = target[p]

BeingWritten == \E e \in Known \ {0} : IsCurrent(e) /\ now < OwnerAt(e).beat + Grace

\* The first epoch above the incumbent and above every claim file's name.
IsNextEpoch(f, e) ==
    /\ \A c \in Named \cup {f} : c < e
    /\ e - 1 \in Named \cup {f}

\* The ordinal after the highest one any journal line carries.
IsNextSeq(n) ==
    LET seqs == {0} \cup {journal[i].seq : i \in DOMAIN journal}
    IN n - 1 \in seqs /\ \A s \in seqs : s < n

-----------------------------------------------------------------------------
Init ==
    /\ now = 0
    /\ published = NoOwner
    /\ claims = [e \in Epochs |-> Absent]
    /\ journal = <<>>
    /\ tornTail = FALSE
    /\ verdict = FALSE
    /\ erased = FALSE
    /\ expired = FALSE
    /\ janitor = "away"
    /\ pc = [p \in Procs |-> "idle"]
    /\ calledAt = [p \in Procs |-> 0]
    /\ tries = [p \in Procs |-> 0]
    /\ floor = [p \in Procs |-> 0]
    /\ target = [p \in Procs |-> 0]
    /\ next = [p \in Procs |-> 1]
    /\ faults = 0

Goto(p, from, to) == pc[p] = from /\ pc' = [pc EXCEPT ![p] = to]

-----------------------------------------------------------------------------
(* claimOwnership                                                          *)

StartClaim(p) ==
    /\ Goto(p, "idle", "look")
    /\ Serial => \A q \in Procs : pc[q] \notin Claiming
    /\ calledAt' = [calledAt EXCEPT ![p] = now]
    /\ UNCHANGED <<now, record, evidence, tries, floor, target, next, faults>>

LookRefused(p) ==
    /\ Goto(p, "look", "refused")
    /\ tries[p] < MaxTries
    /\ \E e \in Epochs : IsCurrent(e) /\ ~ProvablyLost(OwnerAt(e), p)
    /\ UNCHANGED <<now, record, evidence, local, faults>>

LookFree(p) ==
    /\ Goto(p, "look", "choose")
    /\ tries[p] < MaxTries
    /\ \E e \in 0 .. MaxEpoch :
          /\ IsCurrent(e)
          /\ e # 0 => ProvablyLost(OwnerAt(e), p)
          /\ floor' = [floor EXCEPT ![p] = e]
    /\ UNCHANGED <<now, record, evidence, calledAt, tries, target, next, faults>>

GiveUp(p) ==
    /\ Goto(p, "look", "raced")
    /\ tries[p] = MaxTries
    /\ UNCHANGED <<now, record, evidence, local, faults>>

ChooseEpoch(p) ==
    /\ Goto(p, "choose", "create")
    /\ \E e \in Epochs :
          /\ IsNextEpoch(floor[p], e)
          /\ target' = [target EXCEPT ![p] = e]
    /\ UNCHANGED <<now, record, evidence, calledAt, tries, floor, next, faults>>

\* Mutant: the claim is opened without O_EXCL.
CreateClaim_Shared(p) ==
    /\ Goto(p, "create", "fill")
    /\ claims' = [claims EXCEPT ![target[p]] =
                     [made |-> TRUE, proc |-> p, at |-> calledAt[p], whole |-> FALSE]]
    /\ UNCHANGED <<now, published, evidence, local, faults>>

\* createExclusive, first half: the name exists, its contents do not yet.
CreateClaim(p) ==
    /\ Goto(p, "create", "fill")
    /\ target[p] \notin Named
    /\ claims' = [claims EXCEPT ![target[p]] =
                     [made |-> TRUE, proc |-> p, at |-> calledAt[p], whole |-> FALSE]]
    /\ UNCHANGED <<now, published, evidence, local, faults>>

LoseClaim(p) ==
    /\ Goto(p, "create", "look")
    /\ target[p] \in Named
    /\ tries' = [tries EXCEPT ![p] = @ + 1]
    /\ UNCHANGED <<now, record, evidence, calledAt, floor, target, next, faults>>

FillClaim(p) ==
    /\ Goto(p, "fill", "publish")
    /\ claims' = [claims EXCEPT ![target[p]].whole = TRUE]
    /\ UNCHANGED <<now, published, evidence, local, faults>>

\* Mutant: the incumbent's epoch is published instead of the claimed one.
Publish_Incumbent(p) ==
    /\ Goto(p, "publish", "register")
    /\ published' = [epoch |-> floor[p], proc |-> p, beat |-> calledAt[p]]
    /\ UNCHANGED <<now, claims, evidence, local, faults>>

Publish(p) ==
    /\ Goto(p, "publish", "register")
    /\ published' = [epoch |-> target[p], proc |-> p, beat |-> calledAt[p]]
    /\ UNCHANGED <<now, claims, evidence, local, faults>>

-----------------------------------------------------------------------------
(* registerRun and the journal writer                                      *)

\* Mutant: every journal writer starts its numbering again.
ReadSeq_Restart(p) == next' = [next EXCEPT ![p] = 1]

ReadSeq(p) == \E n \in 1 .. MaxLines + 1 :
                 IsNextSeq(n) /\ next' = [next EXCEPT ![p] = n]

\* The line joins an unterminated fragment, and then neither can be read.
PutLine(p) ==
    /\ Len(journal) < MaxLines
    /\ tornTail' = FALSE
    /\ journal' = IF tornTail THEN journal
                  ELSE Append(journal, [seq |-> next[p], by |-> p, readable |-> TRUE])

\* appendEvent reads the ordinal, then asks the fence; its answer is ignored.
Register(p) ==
    /\ \/ StillOwner(p) /\ Goto(p, "register", "first")
       \/ ~StillOwner(p) /\ Goto(p, "register", "open")
    /\ ReadSeq(p)
    /\ UNCHANGED <<now, record, evidence, calledAt, tries, floor, target, faults>>

FirstLine(p) ==
    /\ Goto(p, "first", "open")
    /\ PutLine(p)
    /\ UNCHANGED <<now, record, verdict, erased, expired, janitor, local, faults>>

OpenJournal(p) ==
    /\ Goto(p, "open", "owner")
    /\ ReadSeq(p)
    /\ UNCHANGED <<now, record, evidence, calledAt, tries, floor, target, faults>>

CheckFence(p) ==
    /\ \/ StillOwner(p) /\ Goto(p, "owner", "append")
       \/ StillOwner(p) /\ Goto(p, "owner", "conclude")
       \/ ~StillOwner(p) /\ Goto(p, "owner", "fenced")
    /\ UNCHANGED <<now, record, evidence, local, faults>>

AppendEvent(p) ==
    /\ Goto(p, "append", "owner")
    /\ PutLine(p)
    /\ next' = [next EXCEPT ![p] = @ + 1]
    /\ UNCHANGED <<now, record, verdict, erased, expired, janitor,
                   calledAt, tries, floor, target, faults>>

\* The disk refuses the line: appendAt returns null, which emit calls a fence
\* and registerRun ignores.
AppendFails(p) ==
    /\ Goto(p, "append", "fenced") \/ Goto(p, "first", "open")
    /\ faults < MaxFaults
    /\ faults' = faults + 1
    /\ UNCHANGED <<now, record, evidence, local>>

\* The process dies inside write(2), leaving the front of a line, be it the
\* registration's.
CrashMidAppend(p) ==
    /\ Goto(p, "append", "dead") \/ Goto(p, "first", "dead")
    /\ faults < MaxFaults
    /\ Len(journal) < MaxLines
    /\ ~tornTail
    /\ faults' = faults + 1
    /\ tornTail' = TRUE
    /\ journal' = Append(journal, [seq |-> 0, by |-> p, readable |-> FALSE])
    /\ UNCHANGED <<now, record, verdict, erased, expired, janitor, local>>

WriteVerdict(p) ==
    /\ Goto(p, "conclude", "owner")
    /\ verdict' = TRUE
    /\ UNCHANGED <<now, record, journal, tornTail, erased, expired, janitor, local, faults>>

-----------------------------------------------------------------------------
(* Heartbeat and release: the clock is read, then the owner, then the      *)
(* record is replaced.                                                     *)

ReadClock(p) ==
    /\ Goto(p, "owner", "clock")
    /\ calledAt' = [calledAt EXCEPT ![p] = now]
    /\ UNCHANGED <<now, record, evidence, tries, floor, target, next, faults>>

CheckBeat(p) ==
    /\ \/ IsCurrent(target[p]) /\ Goto(p, "clock", "stamp")
       \/ ~IsCurrent(target[p]) /\ Goto(p, "clock", "fenced")
    /\ UNCHANGED <<now, record, evidence, local, faults>>

CheckRelease(p) ==
    /\ \/ IsCurrent(target[p]) /\ Goto(p, "clock", "release")
       \/ ~IsCurrent(target[p]) /\ Goto(p, "clock", "closed")
    /\ UNCHANGED <<now, record, evidence, local, faults>>

Stamp(p) ==
    /\ Goto(p, "stamp", "owner") \/ Goto(p, "release", "closed")
    /\ published' = [epoch |-> target[p], proc |-> p, beat |-> calledAt[p]]
    /\ UNCHANGED <<now, claims, evidence, local, faults>>

Crash(p) ==
    /\ pc[p] \notin {"idle", "dead"}
    /\ pc' = [pc EXCEPT ![p] = "dead"]
    /\ UNCHANGED <<now, record, evidence, local, faults>>

-----------------------------------------------------------------------------
(* pruneCatalog and expireRun                                              *)

JanitorLooks ==
    /\ janitor = "away" /\ ~expired /\ verdict
    /\ ~BeingWritten
    /\ janitor' = "erase"
    /\ UNCHANGED <<now, record, journal, tornTail, verdict, erased, expired, pc, local, faults>>

JanitorErases ==
    /\ janitor = "erase"
    /\ janitor' = "tombstone"
    /\ journal' = <<>>
    /\ tornTail' = FALSE
    /\ erased' = TRUE
    /\ UNCHANGED <<now, record, verdict, expired, pc, local, faults>>

JanitorMarks ==
    /\ janitor = "tombstone"
    /\ janitor' = "away"
    /\ expired' = TRUE
    /\ UNCHANGED <<now, record, journal, tornTail, verdict, erased, pc, local, faults>>

-----------------------------------------------------------------------------
\* The instant a live process's own record carries.
LastStamp(p) == IF published.epoch = target[p] /\ pc[p] \in Writing
                THEN published.beat ELSE calledAt[p]

Tick ==
    /\ now < MaxTime
    /\ Punctual => \A p \in Procs :
          pc[p] \in Claiming \cup Writing => now + 1 < LastStamp(p) + Grace
    /\ now' = now + 1
    /\ UNCHANGED <<record, evidence, pc, local, faults>>

ClaimStep(p) ==
    \/ StartClaim(p) \/ LookRefused(p) \/ LookFree(p) \/ GiveUp(p)
    \/ ChooseEpoch(p) \/ CreateClaim(p) \/ LoseClaim(p) \/ FillClaim(p) \/ Publish(p)

WriterStep(p) ==
    \/ Register(p) \/ FirstLine(p) \/ OpenJournal(p)
    \/ CheckFence(p) \/ AppendEvent(p) \/ AppendFails(p) \/ WriteVerdict(p)
    \/ ReadClock(p) \/ CheckBeat(p) \/ CheckRelease(p) \/ Stamp(p)

JanitorStep == JanitorLooks \/ JanitorErases \/ JanitorMarks

Next ==
    \/ \E p \in Procs : ClaimStep(p) \/ WriterStep(p) \/ CrashMidAppend(p) \/ Crash(p)
    \/ JanitorStep
    \/ Tick

Spec == Init /\ [][Next]_vars

-----------------------------------------------------------------------------
\* The types: of the files a reader of the directory finds, of where each
\* process stands in its claim or its writing, and of what it holds in memory.
TypeOK ==
    /\ now \in Nat
    /\ published \in Owner \cup {NoOwner}
    /\ claims \in [Epochs -> ClaimFile \cup {Absent}]
    /\ journal \in Seq(Line)
    /\ tornTail \in BOOLEAN
    /\ verdict \in BOOLEAN
    /\ erased \in BOOLEAN
    /\ expired \in BOOLEAN
    /\ janitor \in {"away", "erase", "tombstone"}
    /\ pc \in [Procs -> PCs]
    /\ calledAt \in [Procs -> Nat]
    /\ tries \in [Procs -> Nat]
    /\ floor \in [Procs -> 0 .. MaxEpoch]
    /\ target \in [Procs -> 0 .. MaxEpoch]
    /\ next \in [Procs -> Nat]
    /\ faults \in Nat

\* No two processes ever hold the same epoch, dead ones' claim files included:
\* O_EXCL on a file named for the epoch is the whole concurrency control.
UniqueEpoch ==
    \A p, q \in Procs :
        pc[p] \in Holding /\ pc[q] \in Holding /\ target[p] = target[q] => p = q

\* Two processes are never both past the fence check and about to write: while
\* claims do not overlap and live owners keep their stamp fresh.
SoleWriter ==
    \A p, q \in Procs :
        /\ pc[p] \in {"first", "append", "conclude"}
        /\ pc[q] \in {"first", "append", "conclude"}
        => p = q

\* A sequence number means one line: a successor continues the numbering of
\* the writer it replaced, whatever that one left behind.
SeqMeansOneLine ==
    \A i, j \in DOMAIN journal :
        journal[i].readable /\ journal[j].readable /\ journal[i].seq = journal[j].seq
            => i = j

\* README: "exactly one claimant wins even if a hundred try - and only after
\* the incumbent" is gone: a later winner began a grace after the earlier one.
ExactlyOneWins ==
    \A p, q \in Procs :
        pc[p] \in Holding /\ pc[q] \in Holding /\ target[p] < target[q]
            => claims[target[q]].at >= claims[target[p]].at + Grace
=============================================================================
