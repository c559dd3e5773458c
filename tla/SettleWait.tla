----------------------------- MODULE SettleWait -----------------------------
(***************************************************************************)
(* `odu ci wait --settle' and the agents' wait_for_settle, over the runs   *)
(* of a checkout.  Three witnesses can say how a run ended: the frames of  *)
(* its socket, the record it leaves, and what a killed coordinator could   *)
(* not take away.  One wait subscribes, subscribes again when a link dies  *)
(* under it, and at the end of a subscription that spoke asks the record,  *)
(* then the residue, then its own last frame.                              *)
(*                                                                         *)
(* A verdict carries the run it is about (for an ordinal that was never    *)
(* reserved the code can only name the commit).  Left out: expected_sha,   *)
(* as every run here is of one commit, the pause before a new dial, and    *)
(* the posting debt.                                                       *)
(***************************************************************************)
EXTENDS CheckoutRun, Sequences, Functions

CONSTANT MaxWire   \* bound: frames on their way

VARIABLES
    at,        \* where the wait stands
    link,      \* the run whose frames are subscribed to
    wire,      \* its frames, published and not yet taken
    spoke,     \* this subscription has delivered something
    lastLive,  \* the last live frame: of whom, and what it said
    verdict,
    since      \* history: what the last frame's run has said, it and after it

wait == <<at, link, wire, spoke, lastLive, verdict>>
waitVars == <<checkout, wait, since>>

Verdicts ==
    [kind : {"settled", "unsettled", "aborted"}, run : Runs \cup {Nobody}, says : Outcomes]
    \cup [kind : {"dead"}, run : Runs \cup {Nobody}] \cup [kind : {"no run"}]
Frames == [run : Runs, says : Outcomes]

ASSUME WaitAssumption ==
    /\ MaxWire \in Nat /\ MaxWire > 0
    /\ Nobody \notin Verdicts \cup Frames

\* The types; a wait is subscribed to one run that has served, or to none.
WaitTypeOK ==
    /\ RunsTypeOK
    /\ at \in {"dial", "stream", "judge", "probe", "residue", "returned"}
    /\ spoke \in BOOLEAN
    /\ link \in Runs \cup {Nobody}
    /\ wire \in Seq(Outcomes) /\ Len(wire) <= MaxWire
    /\ lastLive \in {Nobody} \cup Frames
    /\ verdict \in {Nobody} \cup Verdicts
    /\ (verdict # Nobody) = (at = "returned")
    /\ since \subseteq Ended
    \* only a subscription has a link, and it is to a run that has served
    /\ (at = "stream") = (link # Nobody)
    /\ link # Nobody => link \in published

WaitInit ==
    /\ CheckoutInit
    /\ at = "dial" /\ link = Nobody /\ wire = <<>>
    /\ spoke = FALSE /\ lastLive = Nobody /\ verdict = Nobody
    /\ since = {}

\* A run publishes every change of its nodes to whoever subscribes.  What runs do
\* after the wait has returned is no longer looked at.
Published(r) ==
    /\ wire' = IF link = r /\ pc'[r] \in Up /\ state'[r] # state[r]
               THEN Append(wire, state'[r]) ELSE wire
    /\ Len(wire') <= MaxWire
    /\ since' = IF lastLive # Nobody /\ lastLive.run = r
                THEN since \cup ({state'[r]} \cap Ended) ELSE since
    /\ UNCHANGED <<at, link, spoke, lastLive, verdict>>

Runtime(r) == at # "returned" /\ Coordinator(r) /\ Published(r)
Progress(r) == at # "returned" /\ Proceeds(r) /\ Published(r)

(***************************************************************************)
(* The read loop                                                           *)
(***************************************************************************)
\* A bug: no frame says that nobody is there, so that a wait only ever dials again
Dial_Silent ==
    /\ at = "dial"
    /\ IF Served # Nobody
       THEN at' = "stream" /\ link' = Served /\ wire' = <<state[Served]>>
       ELSE UNCHANGED <<at, link, wire>>
    /\ spoke' = FALSE
    /\ UNCHANGED <<checkout, lastLive, verdict, since>>

\* The re-dialling reader: the socket's snapshot leads, and with nobody at the
\* socket there is one frame saying so and a clean end
Dial ==
    /\ at = "dial"
    /\ IF Served # Nobody
       THEN at' = "stream" /\ link' = Served /\ wire' = <<state[Served]>>
       ELSE at' = "judge" /\ UNCHANGED <<link, wire>>
    /\ spoke' = (Served = Nobody)
    /\ UNCHANGED <<checkout, lastLive, verdict, since>>

Return(v) ==
    /\ at' = "returned" /\ verdict' = v
    /\ link' = Nobody /\ wire' = <<>>

About(frame, kind) == [kind |-> kind, run |-> frame.run, says |-> frame.says]

\* fail_fast is the caller's: with it a red node ends the wait
TakeFrame ==
    /\ at = "stream" /\ wire # <<>>
    /\ LET frame == [run |-> link, says |-> Head(wire)] IN
       /\ lastLive' = frame
       /\ \/ frame.says \in Ended /\ Return(About(frame, "settled"))
          \/ frame.says = "red" /\ Return(About(frame, "unsettled"))
          \/ /\ frame.says \notin Ended
             /\ wire' = Tail(wire) /\ UNCHANGED <<at, link, verdict>>
    /\ spoke' = TRUE
    /\ since' = Range(wire) \cap Ended
    /\ UNCHANGED checkout

\* The transport has died, under a live run or with it: what was on the way is
\* lost, and the next subscription is the probe
Redial ==
    /\ at' = "dial" /\ link' = Nobody /\ wire' = <<>> /\ spoke' = FALSE
    /\ UNCHANGED <<lastLive, verdict>>

LinkDies ==
    /\ at = "stream" /\ Redial
    /\ IF link = Served THEN Fault /\ UNCHANGED <<pc, lock, sock, ledger, seq,
              published, state, open, snap, halt, reruns, stale>>
       ELSE UNCHANGED checkout
    /\ UNCHANGED since

\* The stream ends cleanly, which it does only with its run's socket: an answer
\* if the subscription spoke, and otherwise nothing at all
StreamEnds ==
    /\ at = "stream" /\ link # Served
    /\ IF spoke
       THEN /\ at' = "judge" /\ link' = Nobody /\ wire' = <<>>
            /\ UNCHANGED <<spoke, lastLive, verdict>>
       ELSE Redial
    /\ UNCHANGED <<checkout, since>>

\* The caller's timeout or cancel, wherever the loop or the end of a stream
\* looks at it
Abort ==
    /\ at \in {"dial", "stream", "judge"}
    /\ Return([kind |-> "aborted",
               run |-> IF lastLive = Nobody THEN Nobody ELSE lastLive.run,
               says |-> IF lastLive = Nobody THEN "going" ELSE lastLive.says])
    /\ UNCHANGED <<checkout, spoke, lastLive, since>>

(***************************************************************************)
(* streamEndedVerdict                                                      *)
(***************************************************************************)
\* A bug: the checkout's latest record is taken for the run's
Record_Latest(r) == IF Taken = {} THEN Nobody ELSE ledger[Max(Taken)]

\* The file a frame's identity leads to, and whether it can answer
Record(r) == IF seq[r] = 0 THEN Nobody ELSE ledger[seq[r]]
RecordAnswers(rec) == rec # Nobody /\ rec.says \in {"passed", "failed"}

Judge ==
    /\ at = "judge"
    /\ IF lastLive # Nobody /\ RecordAnswers(Record(lastLive.run))
       THEN Return([kind |-> "settled", run |-> lastLive.run, says |-> Record(lastLive.run).says])
       ELSE at' = "probe" /\ UNCHANGED <<link, wire, verdict>>
    /\ UNCHANGED <<checkout, spoke, lastLive, since>>

\* No death to report: the last frame, fail-closed, or the refusal
FallBack ==
    IF lastLive = Nobody THEN Return([kind |-> "no run"])
    ELSE Return(About(lastLive, IF lastLive.says \in Ended THEN "settled" ELSE "unsettled"))

\* deadRun's own dial
Probe ==
    /\ at = "probe"
    /\ IF Served # Nobody THEN FallBack
       ELSE at' = "residue" /\ UNCHANGED <<link, wire, verdict>>
    /\ UNCHANGED <<checkout, spoke, lastLive, since>>

Reservations == {n \in Seqs : ledger[n] # Nobody /\ ledger[n].says = "reserved"}
NewestReservation == IF Reservations = {} THEN Nobody ELSE ledger[Max(Reservations)].by

\* A bug: the residue is read without asking whether the lock's process lives
Residue_NoVeto ==
    /\ at = "residue"
    /\ IF lock # Nobody \/ sock # Nobody
       THEN Return([kind |-> "dead", run |-> NewestReservation])
       ELSE FallBack
    /\ UNCHANGED <<checkout, spoke, lastLive, since>>

\* A lock whose process lives vetoes; a lock without one, or a socket nobody
\* serves, is a corpse, and the newest reservation names it
Residue ==
    /\ at = "residue"
    /\ IF LockPid = Nobody /\ (lock # Nobody \/ sock # Nobody)
       THEN Return([kind |-> "dead", run |-> NewestReservation])
       ELSE FallBack
    /\ UNCHANGED <<checkout, spoke, lastLive, since>>

Waiter ==
    \/ Dial \/ TakeFrame \/ LinkDies \/ StreamEnds \/ Judge \/ Probe \/ Residue

Done == at = "returned" /\ UNCHANGED waitVars

WaitNext ==
    \/ \E r \in Runs : Runtime(r)
    \/ Waiter \/ Abort
    \/ Done

(***************************************************************************)
(* Fairness: the event loop takes the next frame and the next step of the  *)
(* loop, nodes and teardowns end.  No timeout is assumed to come.          *)
(***************************************************************************)
Fairness ==
    /\ \A r \in Runs : WF_waitVars(Progress(r))
    /\ WF_waitVars(Dial \/ TakeFrame \/ StreamEnds \/ Judge \/ Probe \/ Residue)

WaitSpec == WaitInit /\ [][WaitNext]_waitVars /\ Fairness

(***************************************************************************)
(* Properties                                                              *)
(***************************************************************************)
\* The checkout is typed, what serves has been seen, and an ordinal the socket has
\* shown is one run's for good (run.ts shouldReclaimReservation).
WaitInv == WaitTypeOK /\ OneRunPerOrdinal

\* A settled verdict is what the run it names said of itself in the last frame the
\* wait took of it or later, though the frame that said so be lost, whoever else
\* ran in the checkout.  Excepted are runs whose nodes resumed after the end that
\* was recorded, unseen by the record (waitForSettle.ts, ledger.ts).
VerdictIsTrue ==
    verdict # Nobody /\ verdict.kind = "settled" /\ verdict.run \notin stale
      => verdict.run = lastLive.run /\ verdict.says \in since

\* A wait never reports the death of a run that is alive: a lock whose process
\* lives vetoes.  A live run is mistaken for the corpse only when another
\* starter has taken its lock file from under it (deadRun.ts).
NeverBuried ==
    [][ verdict' # Nobody /\ verdict = Nobody /\ verdict'.kind = "dead" =>
          \A r \in Runs : verdict'.run = r /\ Alive(r)
                            => lock = Nobody \/ lock.by # r ]_waitVars

\* A wait returns, with no timeout: whether its run ends, is interrupted, is
\* killed or is not there, and however often the link is lost.
WaitReturns == <>(at = "returned")
=============================================================================
