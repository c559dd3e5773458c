---------------------------- MODULE CheckoutRun ----------------------------
(***************************************************************************)
(* One run per checkout.  Coordinators start in one checkout and pass, in  *)
(* this order: the look for a live run (or the cancel of it, --supersede), *)
(* the pid file .ci/odu.run.lock, the reservation of an ordinal in the     *)
(* ledger, the socket.  A run ends naturally once all its nodes have, or   *)
(* by an interrupt; both write its record and then close its socket, and   *)
(* an interrupt may find the natural end under way.  A kill leaves the     *)
(* lock, the socket and the reservation behind.                            *)
(*                                                                         *)
(* The acquisition of the lock is taken call by call, as other processes   *)
(* see it; a pid file is an inode, so that the pid a holder writes goes    *)
(* nowhere when another has unlinked the file.  A run's nodes are their    *)
(* outcome so far.  All runs are of one commit.  Pids are not reused, and  *)
(* the one call that binds the socket (the surface library's, which probes *)
(* the path and reclaims a file nobody serves) is atomic.                  *)
(***************************************************************************)
EXTENDS Naturals, FiniteSets, FiniteSetsExt

CONSTANTS
    Runs,         \* coordinator processes, each of them one run
    Linger,       \* those started with --linger
    Begun,        \* the run that is up when the model begins, if there is one
    Nobody,
    MaxFaults,    \* bound: kills, failed writes and, in SettleWait, lost links
    MaxReruns     \* bound: reruns that reset a node which had ended

ASSUME RunsAssumption ==
    /\ IsFiniteSet(Runs) /\ Linger \subseteq Runs
    /\ Begun \subseteq Runs /\ Cardinality(Begun) <= 1
ASSUME CheckoutBounds == MaxFaults \in Nat /\ MaxReruns \in Nat

Seqs == 1..Cardinality(Runs)

\* What a run's nodes say: some are pending or running and none is red; some
\* are, and another is red; all have ended.
Ended == {"passed", "failed", "cancelled"}
Outcomes == Ended \cup {"going", "red"}
OnDisk == Outcomes \cup {"reserved"}
Locks == [by : Runs, full : BOOLEAN]
Files == [by : Runs, says : OnDisk]

\* Nobody is no run, and nothing else that a variable holds.
ASSUME NobodyAssumption == Nobody \notin Runs \cup Outcomes \cup Locks \cup Files

VARIABLES
    pc,         \* run -> where its process stands
    lock,       \* the pid file: Nobody, or the inode's creator and if it has a pid
    sock,       \* whose socket file there is
    ledger,     \* ordinal -> Nobody, or the file there: whose, and what it says
    seq,        \* run -> the ordinal it reserved, 0 when it has none
    published,  \* the runs whose identity the socket has shown
    state,      \* run -> what its nodes say
    open,       \* the runs whose lanes are open
    snap,       \* run -> what the interrupt saw, Nobody when there was none
    halt,       \* run -> how far the interrupt's teardown has come
    faults, reruns,
    stale       \* history: runs whose nodes resumed past the record of their end

checkout == <<pc, lock, sock, ledger, seq, published, state, open, snap, halt,
              faults, reruns, stale>>

Starting == {"cancelling", "confirmed", "terming", "look", "unlink", "create", "write"}
Holding == {"locked", "reserved", "serving", "finalizing", "recorded", "closed",
            "unwinding"}
Up == {"serving", "finalizing", "recorded"}
Alive(r) == pc[r] \in Starting \cup Holding

RunsTypeOK ==
    /\ pc \in [Runs -> Starting \cup Holding \cup {"new", "gone", "killed"}]
    /\ lock \in {Nobody} \cup Locks
    /\ sock \in Runs \cup {Nobody}
    /\ ledger \in [Seqs -> {Nobody} \cup Files]
    /\ seq \in [Runs -> Seqs \cup {0}]
    /\ published \subseteq Runs
    /\ state \in [Runs -> Outcomes]
    /\ open \subseteq Runs /\ stale \subseteq Runs
    /\ snap \in [Runs -> Outcomes \cup {Nobody}]
    /\ halt \in [Runs -> {"no", "finalizing", "recorded"}]
    /\ faults \in 0..MaxFaults /\ reruns \in 0..MaxReruns
    \* one run serves at most, and what serves has been seen
    /\ \A r \in Runs : pc[r] \in Up => sock = r /\ r \in published

TheBegun == CHOOSE r \in Begun : TRUE

CheckoutInit ==
    /\ pc = [r \in Runs |-> IF r \in Begun THEN "serving" ELSE "new"]
    /\ lock = IF Begun = {} THEN Nobody ELSE [by |-> TheBegun, full |-> TRUE]
    /\ sock = IF Begun = {} THEN Nobody ELSE TheBegun
    /\ ledger = [n \in Seqs |-> IF n = 1 /\ Begun # {}
                               THEN [by |-> TheBegun, says |-> "reserved"] ELSE Nobody]
    /\ seq = [r \in Runs |-> IF r \in Begun THEN 1 ELSE 0]
    /\ published = Begun /\ open = Begun /\ stale = {}
    /\ state = [r \in Runs |-> "going"]
    /\ snap = [r \in Runs |-> Nobody]
    /\ halt = [r \in Runs |-> "no"]
    /\ faults = 0 /\ reruns = 0

At(r, from, to) == pc[r] = from /\ pc' = [pc EXCEPT ![r] = to]
\* dialRun: who answers at the socket, if anybody does
Served == IF sock # Nobody /\ pc[sock] \in Up THEN sock ELSE Nobody
\* liveRunLockPid: the pid in the file, when its process is there
LockPid == IF lock # Nobody /\ lock.full /\ Alive(lock.by) THEN lock.by ELSE Nobody

Fault == faults < MaxFaults /\ faults' = faults + 1

rest == <<ledger, seq, published, state, open, stale, reruns>>
ends == <<snap, halt>>

(***************************************************************************)
(* ensureCheckoutFree                                                      *)
(***************************************************************************)
\* Without --supersede a live socket is a refusal; the lock is looked at next
DialExisting(r) ==
    /\ At(r, "new", IF Served = Nobody THEN "look" ELSE "gone")
    /\ UNCHANGED <<lock, sock, ends, faults, rest>>

\* The teardown begins: what the nodes say now is what will be recorded.  On a
\* lost lease the lanes close at once, otherwise when the statuses are settled.
Interrupted(r, leaseLost) ==
    /\ pc[r] \in Up /\ halt[r] = "no"
    /\ halt' = [halt EXCEPT ![r] = "finalizing"]
    /\ snap' = [snap EXCEPT ![r] = state[r]]
    /\ open' = IF leaseLost THEN open \ {r} ELSE open

\* cancelRun: ask the live run to stop; nobody there is as good as stopped
Supersede(r) ==
    /\ At(r, "new", IF Served = Nobody THEN "confirmed" ELSE "cancelling")
    /\ IF Served = Nobody \/ halt[Served] # "no" THEN UNCHANGED <<ends, open>>
       ELSE Interrupted(Served, FALSE)
    /\ UNCHANGED <<lock, sock, ledger, seq, published, state, stale, reruns, faults>>

CancelConfirmed(r) ==
    /\ Served = Nobody /\ At(r, "cancelling", "confirmed")
    /\ UNCHANGED <<lock, sock, ends, faults, rest>>

\* Ten seconds of polling have not seen the socket, or the lock, go
NotInTime(r) ==
    /\ \/ At(r, "cancelling", "gone") /\ Served # Nobody
       \/ At(r, "terming", "gone") /\ LockPid # Nobody
    /\ UNCHANGED <<lock, sock, ends, faults, rest>>

\* SIGTERM to whoever holds the lock: a run that serves shuts down, one that
\* does not yet has no handler and dies
SignalHolder(r) ==
    LET q == LockPid IN
    /\ pc[r] = "confirmed"
    /\ CASE q = Nobody ->
              pc' = [pc EXCEPT ![r] = "unlink"] /\ UNCHANGED <<ends, open>>
         [] q # Nobody /\ pc[q] \in Up /\ halt[q] = "no" ->
              pc' = [pc EXCEPT ![r] = "terming"] /\ Interrupted(q, FALSE)
         [] q # Nobody /\ q \notin published ->
              /\ pc' = [pc EXCEPT ![r] = "terming", ![q] = "killed"]
              /\ UNCHANGED <<ends, open>>
         [] OTHER ->
              pc' = [pc EXCEPT ![r] = "terming"] /\ UNCHANGED <<ends, open>>
    /\ UNCHANGED <<lock, sock, ledger, seq, published, state, stale, reruns, faults>>

HolderGone(r) ==
    /\ LockPid = Nobody /\ At(r, "terming", "unlink")
    /\ UNCHANGED <<lock, sock, ends, faults, rest>>

(***************************************************************************)
(* tryAcquireRunLock, one system call at a time.  Its look at the lock     *)
(* follows ensureCheckoutFree's in the same turn: one step for the two.    *)
(***************************************************************************)
Look(r) ==
    /\ At(r, "look", IF LockPid = Nobody THEN "unlink" ELSE "gone")
    /\ UNCHANGED <<lock, sock, ends, faults, rest>>

Unlink(r) ==
    /\ At(r, "unlink", "create") /\ lock' = Nobody
    /\ UNCHANGED <<sock, ends, faults, rest>>

Create(r) ==
    /\ At(r, "create", IF lock = Nobody THEN "write" ELSE "gone")
    /\ lock' = IF lock = Nobody THEN [by |-> r, full |-> FALSE] ELSE lock
    /\ UNCHANGED <<sock, ends, faults, rest>>

WritePid(r) ==
    /\ At(r, "write", "locked")
    /\ lock' = IF lock # Nobody /\ lock.by = r THEN [lock EXCEPT !.full = TRUE] ELSE lock
    /\ UNCHANGED <<sock, ends, faults, rest>>

(***************************************************************************)
(* The ordinal and the socket                                              *)
(***************************************************************************)
Taken == {n \in Seqs : ledger[n] # Nobody}
NextSeq == IF Taken = {} THEN 1 ELSE Max(Taken) + 1

\* A failed write leaves the run without an ordinal
ReserveSeq(r) ==
    /\ At(r, "locked", "reserved")
    /\ \/ /\ NextSeq \in Seqs
          /\ ledger' = [ledger EXCEPT ![NextSeq] = [by |-> r, says |-> "reserved"]]
          /\ seq' = [seq EXCEPT ![r] = NextSeq]
          /\ UNCHANGED faults
       \/ Fault /\ UNCHANGED <<ledger, seq>>
    /\ UNCHANGED <<lock, sock, ends, published, state, open, stale, reruns>>

\* The second gate: a run that finds the socket served throws
ServeSocket(r) ==
    /\ IF Served = Nobody
       THEN /\ At(r, "reserved", "serving")
            /\ sock' = r
            /\ published' = published \cup {r} /\ open' = open \cup {r}
       ELSE At(r, "reserved", "unwinding") /\ UNCHANGED <<sock, published, open>>
    /\ UNCHANGED <<lock, ledger, seq, ends, state, stale, reruns, faults>>

(***************************************************************************)
(* Nodes, records                                                          *)
(***************************************************************************)
Written(r) == seq[r] # 0 /\ ledger[seq[r]].says # "reserved"

\* finalizeRunRecord: a run without an ordinal has no record, and a write that
\* fails is not noticed
FinalizeRecord(r, says) ==
    \/ /\ seq[r] # 0
       /\ ledger' = [ledger EXCEPT ![seq[r]] = [by |-> r, says |-> says]]
       /\ UNCHANGED faults
    \/ seq[r] # 0 /\ Fault /\ UNCHANGED ledger
    \/ seq[r] = 0 /\ UNCHANGED <<ledger, faults>>

May(s) == CASE s = "going" -> Ended \cup {"red"}
            [] s = "red" -> {"failed", "cancelled"}
            [] OTHER -> {}

\* Some node ends.  When it was the last, and no teardown has begun, a
\* lingering run writes its record and goes on serving, any other ends.
NodesGoOn(r) ==
    \E s \in May(state[r]) :
      LET settles == s \in Ended /\ halt[r] = "no" IN
      /\ r \in open /\ pc[r] = "serving"
      /\ state' = [state EXCEPT ![r] = s]
      /\ IF settles /\ r \in Linger THEN FinalizeRecord(r, s)
         ELSE UNCHANGED <<ledger, faults>>
      /\ IF settles /\ r \notin Linger
         THEN At(r, "serving", "finalizing") /\ open' = open \ {r}
         ELSE UNCHANGED <<pc, open>>
      /\ UNCHANGED <<lock, sock, seq, published, ends, stale, reruns>>

\* A rerun resets an ended node.  Nodes that resume past a record rewrite it.
Rerun(r) ==
    LET resumes == state[r] \in Ended
        rewrites == resumes /\ Written(r)
    IN
    /\ r \in open /\ pc[r] = "serving" /\ state[r] # "going"
    /\ reruns < MaxReruns /\ reruns' = reruns + 1
    /\ state' = [state EXCEPT ![r] = "going"]
    /\ IF rewrites THEN FinalizeRecord(r, "going") ELSE UNCHANGED <<ledger, faults>>
    /\ stale' = IF \/ resumes /\ snap[r] \in Ended
                   \/ rewrites /\ ledger[seq[r]].says \in Ended /\ ledger' = ledger
                THEN stale \cup {r} ELSE stale
    /\ UNCHANGED <<pc, lock, sock, seq, published, open, ends>>

(***************************************************************************)
(* The two ends of a run, and the third                                    *)
(***************************************************************************)
\* SIGINT, SIGTERM, the idle timer, a lost lease
BeginShutdown(r) ==
    /\ \E leaseLost \in BOOLEAN : Interrupted(r, leaseLost)
    /\ UNCHANGED <<pc, lock, sock, ledger, seq, published, state, stale, reruns, faults>>

\* The interrupt has its statuses settled: lanes close, the record is written
ShutdownRecords(r) ==
    /\ pc[r] \in Up /\ halt[r] = "finalizing"
    /\ halt' = [halt EXCEPT ![r] = "recorded"]
    /\ open' = open \ {r}
    /\ FinalizeRecord(r, snap[r])
    /\ UNCHANGED <<pc, lock, sock, seq, published, state, snap, stale, reruns>>

\* The natural end, its statuses settled
EndRecords(r) ==
    /\ At(r, "finalizing", "recorded")
    /\ FinalizeRecord(r, state[r])
    /\ UNCHANGED <<lock, sock, seq, published, state, open, ends, stale, reruns>>

\* Either end closes the socket in a later turn than its record
CloseSocket(r) ==
    /\ pc[r] = "recorded" \/ (pc[r] \in Up /\ halt[r] = "recorded")
    /\ pc' = [pc EXCEPT ![r] = "closed"]
    /\ sock' = Nobody
    /\ UNCHANGED <<lock, ends, faults, rest>>

\* What only the process knew goes with it
Forgotten(r) ==
    /\ state' = [state EXCEPT ![r] = "going"]
    /\ open' = open \ {r}
    /\ snap' = [snap EXCEPT ![r] = Nobody]
    /\ halt' = [halt EXCEPT ![r] = "no"]

\* A bug: the reservation of a run whose record could not be written is handed
\* back though its identity has been seen
ShouldReclaim_Always(r) == seq[r] # 0
ShouldReclaim(r) == seq[r] # 0 /\ r \notin published

\* The way out: the lock, if the pid in it is our own, and a reservation that
\* nobody can have seen
Exit(r) ==
    /\ pc[r] \in {"closed", "unwinding"}
    /\ pc' = [pc EXCEPT ![r] = "gone"]
    /\ lock' = IF lock = [by |-> r, full |-> TRUE] THEN Nobody ELSE lock
    /\ ledger' = IF ShouldReclaim(r) /\ ~Written(r)
                 THEN [ledger EXCEPT ![seq[r]] = Nobody] ELSE ledger
    /\ Forgotten(r)
    /\ UNCHANGED <<sock, seq, published, stale, reruns, faults>>

Kill(r) ==
    /\ Fault /\ Alive(r) /\ pc' = [pc EXCEPT ![r] = "killed"]
    /\ Forgotten(r)
    /\ UNCHANGED <<lock, sock, ledger, seq, published, stale, reruns>>

Coordinator(r) ==
    \/ DialExisting(r) \/ Supersede(r) \/ CancelConfirmed(r) \/ NotInTime(r)
    \/ SignalHolder(r) \/ HolderGone(r) \/ Look(r) \/ Unlink(r) \/ Create(r)
    \/ WritePid(r) \/ ReserveSeq(r) \/ ServeSocket(r) \/ NodesGoOn(r) \/ Rerun(r)
    \/ BeginShutdown(r) \/ ShutdownRecords(r) \/ EndRecords(r) \/ CloseSocket(r)
    \/ Exit(r) \/ Kill(r)

\* What a process does of itself: a run is not obliged to start, its nodes are
\* obliged to end, and an idle lingering run to shut down
Proceeds(r) ==
    \/ CancelConfirmed(r) \/ SignalHolder(r) \/ NotInTime(r) \/ HolderGone(r) \/ Look(r) \/ Unlink(r) \/ Create(r)
    \/ WritePid(r) \/ ReserveSeq(r) \/ ServeSocket(r) \/ NodesGoOn(r)
    \/ ShutdownRecords(r) \/ EndRecords(r) \/ CloseSocket(r) \/ Exit(r)
    \/ (state[r] \in Ended /\ BeginShutdown(r))

CheckoutSpec == CheckoutInit /\ [][\E r \in Runs : Coordinator(r)]_checkout

\* An ordinal the socket has shown is never another run's: whoever asks for the
\* record of <sha7>#<seq> gets the run it saw, though the write of that record
\* may have failed (run.ts shouldReclaimReservation, ledger.ts reserveNextSeq).
OneRunPerOrdinal ==
    \A r \in published : seq[r] # 0 => ledger[seq[r]] # Nobody /\ ledger[seq[r]].by = r

\* The lock is exclusive: of two starters one refuses (checkoutLock.ts, run.ts
\* "A second starter that lost the race refuses here").
OneHolder == Cardinality({r \in Runs : pc[r] \in Holding}) <= 1

\* The ledger never carries a green verdict for a run in flight (run.ts, at the
\* rewrite of a record when a node resumes).
NeverGreenInFlight ==
    \A r \in Runs : pc[r] \in Up /\ seq[r] # 0 /\ ledger[seq[r]].says = "passed"
                    => state[r] = "passed"
=============================================================================
