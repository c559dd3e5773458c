------------------------------ MODULE Requests ------------------------------
(***************************************************************************)
(* One request id and everybody who presents it: the receipt on disk       *)
(* (run-history/src/receipts.ts), what a repeat may conclude from the      *)
(* evidence (run-history/src/reconcile.ts, service/src/requests.ts), the   *)
(* retry and the start that act under it (coordinator/recovery.ts,         *)
(* service/src/start.ts), the coordinator's side of a retry (run.ts        *)
(* rerunNode) and the launch of a run (launcher.ts).                       *)
(*                                                                         *)
(* A call runs in a process, and a process is an event loop: between two   *)
(* file operations of one call no other call of that process moves, but    *)
(* every other process may.  Processes die at any point; so does the       *)
(* coordinator of the run that is retried.                                 *)
(***************************************************************************)
EXTENDS Naturals, FiniteSets

CONSTANTS MaxCalls,    \* presentations of the id, the first and its repeats
          Procs,       \* processes that may run them
          HostOf,      \* where each process runs
          Roots,       \* the minimal roots the selector names
          Guarded,     \* the root that `expectAttempt' names, if any
          RequestKinds,\* "retry" and/or "start"
          LostReplies, \* may a lane's answer to the coordinator be lost?
          LateChild    \* may a launch be given up before its run registers?

ASSUME RequestsAssumption ==
    /\ MaxCalls \in Nat /\ HostOf \in [Procs -> Procs]
    /\ Guarded \subseteq Roots /\ IsFiniteSet(Roots) /\ Roots # {}
    /\ RequestKinds \subseteq {"retry", "start"}
    /\ {LostReplies, LateChild} \subseteq BOOLEAN

Calls == 1 .. MaxCalls
Nobody == "nobody"
ASSUME NobodyAssumption == Nobody \notin Procs /\ Nobody \notin Roots

VARIABLES kind,      \* what is asked under the id
          receipt,   \* the receipt file
          aged,      \* the dispatch grace since the claim is over
          journal,   \* retry_accepted and retry_applied of the retried run
          coord,     \* the retried run's coordinator: up, fenced or down
          resets,    \* how often this request reset each root
          moved,     \* guarded roots somebody else has restarted
          shown,     \* those of them the history knows of
          child,     \* the run planned by the claim
          up,        \* processes that are running
          pc, proc,  \* where each call is, and in which process
          held,      \* the receipt as a call last read it
          todo, got, \* roots a call has still to reset, and has reset
          out,       \* the outcome a call is about to record and return
          rpc,       \* a call's rerun at the coordinator
          told       \* every answer given that is not "unknown"

files == <<receipt, aged>>
world == <<journal, coord, resets, moved, shown, child>>
calls == <<pc, proc, held, todo, got, out>>
vars == <<kind, files, world, up, calls, rpc, told>>

-----------------------------------------------------------------------------
(* The receipt *)

Outcome(k, s) == [k |-> k, roots |-> s]
None == Outcome("none", {})
OutcomeKinds == {"none", "live", "partial", "relaunched", "moved", "refused", "nothing"}

\* ReceiptSchema.  "torn" is a file created and not yet filled.
NoReceipt ==
    [st |-> "absent", by |-> Nobody, sent |-> FALSE, roots |-> {}, result |-> None]
Claimed(p) == [NoReceipt EXCEPT !.st = "accepted", !.by = p]

NoCall == [root |-> Nobody, st |-> "none"]

Init ==
    /\ kind \in RequestKinds
    /\ receipt = NoReceipt /\ aged = FALSE
    /\ journal = [accepted |-> {}, yes |-> {}, no |-> {}]
    /\ coord \in IF kind = "retry" THEN {"up", "down"} ELSE {"down"}
    /\ resets = [r \in Roots |-> 0]
    /\ moved = {} /\ shown = {}
    /\ child = "none"
    /\ up \in IF kind = "retry" THEN {Procs} ELSE {{p} : p \in Procs}
    /\ pc = [c \in Calls |-> "idle"]
    /\ proc = [c \in Calls |-> Nobody]
    /\ held = [c \in Calls |-> NoReceipt]
    /\ todo = [c \in Calls |-> {}] /\ got = [c \in Calls |-> {}]
    /\ out = [c \in Calls |-> None]
    /\ rpc = [c \in Calls |-> NoCall]
    /\ told = {}

\* Between these points a call awaits nothing: its process does nothing else.
Inside == {"fill", "look", "probe", "again", "markw", "finish", "finw"}
Runs(c) ==
    /\ proc[c] \in up
    /\ \A d \in Calls \ {c} : proc[d] = proc[c] => pc[d] \notin Inside

Goto(c, l) == pc' = [pc EXCEPT ![c] = l]

\* Calls end (with an answer, "unknown", an exception or their process): what
\* they knew is gone.
OverAs(C, label) ==
    /\ pc' = [c \in Calls |-> IF c \in C THEN label ELSE pc[c]]
    /\ held' = [c \in Calls |-> IF c \in C THEN NoReceipt ELSE held[c]]
    /\ todo' = [c \in Calls |-> IF c \in C THEN {} ELSE todo[c]]
    /\ got' = [c \in Calls |-> IF c \in C THEN {} ELSE got[c]]
    /\ out' = [c \in Calls |-> IF c \in C THEN None ELSE out[c]]
    /\ UNCHANGED proc
Over(C) == OverAs(C, "done")
End(c) == Over({c}) /\ UNCHANGED told
Tell(c, o) == Over({c}) /\ told' = told \cup {o}

\* An exception leaves the retry: no code between tryLive and the caller
\* catches it and records an outcome.
Throw(c) == OverAs({c}, "threw") /\ UNCHANGED told

\* The outcome is known and is to be recorded.
Finish(c, o) ==
    /\ Goto(c, "finish") /\ out' = [out EXCEPT ![c] = o]
    /\ held' = [held EXCEPT ![c] = NoReceipt]
    /\ got' = [got EXCEPT ![c] = {}] /\ todo' = [todo EXCEPT ![c] = {}]
    /\ UNCHANGED <<proc, told>>

-----------------------------------------------------------------------------
(* Claiming the id *)

Ask(c, p) ==
    /\ pc[c] = "idle" /\ \A d \in 1 .. c - 1 : pc[d] # "idle"
    /\ p \in up
    /\ Goto(c, "claim") /\ proc' = [proc EXCEPT ![c] = p]
    /\ UNCHANGED <<kind, files, world, up, held, todo, got, out, rpc, told>>

\* createExclusive: the name first ...
CreateReceipt(c) ==
    /\ pc[c] = "claim" /\ Runs(c)
    /\ receipt.st = "absent"
    /\ receipt' = [receipt EXCEPT !.st = "torn"]
    /\ Goto(c, "fill")
    /\ UNCHANGED <<kind, aged, world, up, proc, held, todo, got, out, rpc, told>>

\* ... then its content
FillReceipt(c) ==
    /\ pc[c] = "fill" /\ Runs(c)
    /\ receipt' = Claimed(proc[c])
    /\ Goto(c, "new")
    /\ UNCHANGED <<kind, aged, world, up, proc, held, todo, got, out, rpc, told>>

\* The id is taken: replay, or reconcile, or nothing can be said of a torn file
FindReceipt(c) ==
    /\ pc[c] = "claim" /\ Runs(c)
    /\ receipt.st # "absent"
    /\ CASE receipt.st = "torn" -> End(c)
         [] receipt.st = "completed" -> Tell(c, receipt.result)
         [] receipt.st = "accepted" ->
              /\ held' = [held EXCEPT ![c] = receipt]
              /\ Goto(c, "look")
              /\ UNCHANGED <<proc, todo, got, out, told>>
    /\ UNCHANGED <<kind, files, world, up, rpc>>

-----------------------------------------------------------------------------
(* Reconciling a repeat with the evidence *)

Resolved == journal.yes \cup journal.no

\* evidenceFor: the planned run, then what the coordinator wrote of each root.
\* `intended' is the receipt's, or the accepted roots of a receipt that names
\* none.  None means that neither effect is visible.
Evidence(r) ==
    LET intended == IF r.sent THEN r.roots ELSE journal.accepted
        applied == intended \cap journal.yes
    IN  CASE child = "running" -> Outcome("relaunched", {})
          [] child # "running" /\ journal.accepted = {} ->
               IF r.sent THEN Outcome("unknown", {}) ELSE None
          [] child # "running" /\ journal.accepted # {} ->
               IF ~(intended \subseteq Resolved) \/ applied = {}
               THEN Outcome("unknown", {})
               ELSE Outcome(IF applied = intended THEN "live" ELSE "partial", applied)

Conclude(c, e) ==
    CASE e.k = "unknown" -> End(c)
      [] e.k \in {"relaunched", "live", "partial"} -> Finish(c, e)

\* reconcile's first look, with the receipt as the claim found it
Look(c) ==
    /\ pc[c] = "look" /\ Runs(c) /\ kind = "retry"
    /\ LET e == Evidence(held[c])
       IN  \/ e # None /\ Conclude(c, e)
           \/ e = None /\ (~aged \/ HostOf[held[c].by] # HostOf[proc[c]]) /\ End(c)
           \/ /\ e = None /\ aged /\ HostOf[held[c].by] = HostOf[proc[c]]
              /\ Goto(c, "probe")
              /\ UNCHANGED <<proc, held, todo, got, out, told>>
    /\ UNCHANGED <<kind, files, world, up, rpc>>

\* A bug: the claimant's death is the last thing asked.
Probe_Once(c) ==
    /\ pc[c] = "probe" /\ Runs(c)
    /\ IF held[c].by \in up THEN End(c) ELSE Tell(c, Outcome("nothing", {}))
    /\ UNCHANGED <<kind, files, world, up, rpc>>

\* Is the claimant gone?
Probe(c) ==
    /\ pc[c] = "probe" /\ Runs(c)
    /\ IF held[c].by \in up THEN End(c)
       ELSE Goto(c, "again") /\ UNCHANGED <<proc, held, todo, got, out, told>>
    /\ UNCHANGED <<kind, files, world, up, rpc>>

\* The same question again, now that nobody can add to the answer
LookAgain(c) ==
    /\ pc[c] = "again" /\ Runs(c)
    /\ LET e == Evidence(receipt)
       IN  IF e = None THEN Tell(c, Outcome("nothing", {})) ELSE Conclude(c, e)
    /\ UNCHANGED <<kind, files, world, up, rpc>>

\* reconcileStart: the planned run, then the claimant, and one look only
LookForStart(c) ==
    /\ pc[c] = "look" /\ Runs(c) /\ kind = "start"
    /\ CASE child = "running" -> Finish(c, Outcome("relaunched", {}))
         [] child # "running" /\ (held[c].sent \/ held[c].by \in up
                                   \/ HostOf[held[c].by] # HostOf[proc[c]]) -> End(c)
         [] OTHER -> Tell(c, Outcome("nothing", {}))
    /\ UNCHANGED <<kind, files, world, up, rpc>>

-----------------------------------------------------------------------------
(* New work *)

\* start: the checkout is refused, or has a run already, or a run is launched
StartChecks(c) ==
    /\ pc[c] = "new" /\ Runs(c) /\ kind = "start"
    /\ \/ Finish(c, Outcome("refused", {}))
       \/ /\ Goto(c, "mark")
          /\ UNCHANGED <<proc, held, todo, got, out, told>>
    /\ UNCHANGED <<kind, files, world, up, rpc>>

\* retryRun: the guard, which binds new work only
Guard(c) ==
    /\ pc[c] = "new" /\ Runs(c) /\ kind = "retry"
    /\ IF Guarded \cap shown # {}
       THEN Finish(c, Outcome("refused", {}))
       ELSE Goto(c, "dial") /\ UNCHANGED <<proc, held, todo, got, out, told>>
    /\ UNCHANGED <<kind, files, world, up, rpc>>

\* tryLive: the run answers, or nobody does (or it is another, or does not
\* know the selector) and the finalized path is selected, or the dial fails
\* otherwise or the link breaks before the first frame
Dial(c) ==
    /\ pc[c] = "dial" /\ Runs(c)
    /\ \/ /\ coord # "down"
          /\ Goto(c, "mark") /\ todo' = [todo EXCEPT ![c] = Roots]
          /\ UNCHANGED <<proc, held, got, out, told>>
       \/ Goto(c, "relaunch") /\ UNCHANGED <<proc, held, todo, got, out, told>>
       \/ Throw(c)
    /\ UNCHANGED <<kind, files, world, up, rpc>>

\* relaunch: not replayable, no venue, ...
Relaunch(c) ==
    /\ pc[c] = "relaunch" /\ Runs(c)
    /\ \/ Finish(c, Outcome("refused", {}))
       \/ Goto(c, "mark") /\ UNCHANGED <<proc, held, todo, got, out, told>>
    /\ UNCHANGED <<kind, files, world, up, rpc>>

Dispatch(c) == IF todo[c] # {} THEN "rerun" ELSE "launch"

\* markDispatched reads ...
MarkRead(c) ==
    /\ pc[c] = "mark" /\ Runs(c)
    /\ IF receipt.st = "accepted" /\ ~receipt.sent
       THEN Goto(c, "markw") /\ held' = [held EXCEPT ![c] = receipt]
       ELSE Goto(c, Dispatch(c)) /\ UNCHANGED held
    /\ UNCHANGED <<kind, files, world, up, proc, todo, got, out, rpc, told>>

\* ... and replaces, with the whole intended set
MarkWrite(c) ==
    /\ pc[c] = "markw" /\ Runs(c)
    /\ receipt' = [held[c] EXCEPT !.sent = TRUE, !.roots = todo[c]]
    /\ Goto(c, Dispatch(c)) /\ held' = [held EXCEPT ![c] = NoReceipt]
    /\ UNCHANGED <<kind, aged, world, up, proc, todo, got, out, rpc, told>>

\* One root after another, each a call to the coordinator
Rerun(c) ==
    /\ pc[c] = "rerun" /\ Runs(c) /\ todo[c] # {}
    /\ IF coord = "down"
       THEN Throw(c) /\ UNCHANGED rpc
       ELSE \E r \in todo[c] :
              /\ rpc' = [rpc EXCEPT ![c] = [root |-> r, st |-> "asked"]]
              /\ todo' = [todo EXCEPT ![c] = @ \ {r}]
              /\ Goto(c, "wait")
              /\ UNCHANGED <<proc, held, got, out, told>>
    /\ UNCHANGED <<kind, files, world, up>>

\* The answer; or the coordinator died and the call throws.
Answered(c) ==
    /\ pc[c] = "wait" /\ Runs(c)
    /\ rpc[c].st \in {"yes", "no", "stale"} \/ coord = "down"
    /\ rpc' = [rpc EXCEPT ![c] = NoCall]
    /\ CASE rpc[c].st = "stale" -> Finish(c, Outcome("moved", {}))
         [] rpc[c].st = "yes" ->
              /\ got' = [got EXCEPT ![c] = @ \cup {rpc[c].root}] /\ Goto(c, "rerun")
              /\ UNCHANGED <<proc, held, todo, out, told>>
         [] rpc[c].st = "no" ->
              Goto(c, "rerun") /\ UNCHANGED <<proc, held, todo, got, out, told>>
         [] rpc[c].st = "none" -> Throw(c)
    /\ UNCHANGED <<kind, files, world, up>>

\* Every root was declined: a new run.  Some: the answer is "in part".
Reran(c) ==
    /\ pc[c] = "rerun" /\ Runs(c) /\ todo[c] = {}
    /\ CASE got[c] = {} ->
              Goto(c, "relaunch") /\ UNCHANGED <<proc, held, todo, got, out, told>>
         [] got[c] = Roots -> Finish(c, Outcome("live", Roots))
         [] OTHER -> Finish(c, Outcome("partial", got[c]))
    /\ UNCHANGED <<kind, files, world, up, rpc>>

\* launchOnce: the coordinator of the planned run is spawned ...
Launch(c) ==
    /\ pc[c] = "launch" /\ Runs(c)
    /\ child' = "starting"
    /\ Goto(c, "launching")
    /\ UNCHANGED <<kind, files, journal, coord, resets, moved, shown, up, proc, held,
                   todo, got, out, rpc, told>>

\* ... and polled for until its run registers or its process is gone.  Under
\* systemd-run the wait has a ceiling (LateChild).
LaunchEnds(c) ==
    /\ pc[c] = "launching" /\ Runs(c)
    /\ \/ child = "running" /\ Finish(c, Outcome("relaunched", {}))
       \/ child = "dead" /\ Finish(c, Outcome("refused", {}))
       \/ LateChild /\ child = "starting" /\ Finish(c, Outcome("refused", {}))
    /\ UNCHANGED <<kind, files, world, up, rpc>>

\* A bug: a refusal is answered and not recorded.
CompleteRead_Refusal(c) ==
    /\ pc[c] = "finish" /\ Runs(c)
    /\ IF receipt.st = "completed" \/ out[c].k = "refused"
       THEN Tell(c, out[c])
       ELSE /\ held' = [held EXCEPT ![c] = receipt] /\ Goto(c, "finw")
            /\ UNCHANGED <<proc, todo, got, out, told>>
    /\ UNCHANGED <<kind, files, world, up, rpc>>

\* completeReceipt reads: a first result stays, the call returns its own all the same
CompleteRead(c) ==
    /\ pc[c] = "finish" /\ Runs(c)
    /\ IF receipt.st = "completed" THEN Tell(c, out[c])
       ELSE /\ held' = [held EXCEPT ![c] = receipt] /\ Goto(c, "finw")
            /\ UNCHANGED <<proc, todo, got, out, told>>
    /\ UNCHANGED <<kind, files, world, up, rpc>>

\* ... and replaces
CompleteWrite(c) ==
    /\ pc[c] = "finw" /\ Runs(c)
    /\ receipt' = [held[c] EXCEPT !.st = "completed", !.result = out[c]]
    /\ Tell(c, out[c])
    /\ UNCHANGED <<kind, aged, world, up, rpc>>

-----------------------------------------------------------------------------
(* The coordinator of the retried run: rerunNode *)

Handling(c, st) == coord # "down" /\ rpc[c].st = st
Handled(c, st) == rpc' = [rpc EXCEPT ![c].st = st]
Replies(c, st) == IF pc[c] = "wait" THEN Handled(c, st) ELSE rpc' = [rpc EXCEPT ![c] = NoCall]
served == <<kind, files, up, calls, told>>

\* No route: declined, and nothing is written.  A stale guard: answered.
\* Otherwise the acceptance is on record before the lane is asked.
Route(c) ==
    /\ Handling(c, "asked")
    /\ \/ Replies(c, "no") /\ UNCHANGED journal
       \/ rpc[c].root \in Guarded \cap shown /\ Replies(c, "stale") /\ UNCHANGED journal
       \/ /\ rpc[c].root \notin Guarded \cap shown
          /\ Handled(c, "accepted")
          /\ journal' = IF coord = "fenced" THEN journal
                        ELSE [journal EXCEPT !.accepted = @ \cup {rpc[c].root}]
    /\ UNCHANGED <<served, coord, resets, moved, shown, child>>

\* The lane resets the root, or will not; its "yes" may be lost (nodeCall's catch).
LaneAnswers(c) ==
    /\ Handling(c, "accepted")
    /\ \/ /\ resets' = [resets EXCEPT ![rpc[c].root] = @ + 1]
          /\ Handled(c, "reset")
       \/ /\ LostReplies
          /\ resets' = [resets EXCEPT ![rpc[c].root] = @ + 1]
          /\ Handled(c, "declined")
       \/ Handled(c, "declined") /\ UNCHANGED resets
    /\ UNCHANGED <<served, journal, coord, moved, shown, child>>

\* A bug: what was declined is recorded as applied.
Applied_Always(c) ==
    /\ coord # "down" /\ rpc[c].st \in {"reset", "declined"}
    /\ Replies(c, IF rpc[c].st = "reset" THEN "yes" ELSE "no")
    /\ journal' = IF coord = "fenced" THEN journal
                  ELSE [journal EXCEPT !.yes = @ \cup {rpc[c].root}]
    /\ UNCHANGED <<served, coord, resets, moved, shown, child>>

\* retry_applied, then the reply
Applied(c) ==
    /\ coord # "down" /\ rpc[c].st \in {"reset", "declined"}
    /\ Replies(c, IF rpc[c].st = "reset" THEN "yes" ELSE "no")
    /\ journal' = IF coord = "fenced" THEN journal
                  ELSE IF rpc[c].st = "reset"
                       THEN [journal EXCEPT !.yes = @ \cup {rpc[c].root}]
                       ELSE [journal EXCEPT !.no = @ \cup {rpc[c].root}]
    /\ UNCHANGED <<served, coord, resets, moved, shown, child>>

-----------------------------------------------------------------------------
(* Everybody else *)

CoordinatorStops ==
    /\ coord # "down" /\ coord' = "down"
    /\ rpc' = [c \in Calls |-> NoCall]
    /\ UNCHANGED <<served, journal, resets, moved, shown, child>>

\* The history is fenced, or its disk fails: nothing is recorded any more.
HistoryStops ==
    /\ coord = "up" /\ coord' = "fenced"
    /\ UNCHANGED <<served, journal, resets, moved, shown, child, rpc>>

\* Somebody else restarts a guarded root; the history hears of it when the
\* lane republishes the node.
OtherRestart(r) ==
    /\ coord # "down" /\ r \in Guarded \ moved
    /\ moved' = moved \cup {r}
    /\ UNCHANGED <<served, journal, coord, resets, shown, child, rpc>>

Republished(r) ==
    /\ coord # "down" /\ r \in moved \ shown
    /\ shown' = shown \cup {r}
    /\ UNCHANGED <<served, journal, coord, resets, moved, child, rpc>>

\* The new coordinator takes the checkout's lock, which the live run holds and
\* which a retry does not supersede, before it registers its run.
ChildRegisters ==
    /\ child = "starting" /\ coord = "down" /\ child' = "running"
    /\ UNCHANGED <<served, journal, coord, resets, moved, shown, rpc>>

ChildExits ==
    /\ child = "starting" /\ child' = "dead"
    /\ UNCHANGED <<served, journal, coord, resets, moved, shown, rpc>>

GracePasses ==
    /\ receipt.st = "accepted" /\ ~aged /\ aged' = TRUE
    /\ UNCHANGED <<kind, receipt, world, up, calls, rpc, told>>

\* The deaths that matter: of a caller, of the claimant, of a service.
Crash(p) ==
    /\ p \in up /\ up' = up \ {p}
    /\ \/ kind = "start" \/ receipt.by = p
       \/ \E c \in Calls : proc[c] = p /\ pc[c] \notin {"done", "threw"}
    /\ Over({c \in Calls : proc[c] = p})
    /\ rpc' = [c \in Calls |-> IF proc[c] = p /\ rpc[c].st \in {"yes", "no", "stale"}
                               THEN NoCall ELSE rpc[c]]
    /\ UNCHANGED <<kind, files, world, told>>

\* A new service: starts run in it alone.  At boot it settles the claim of a
\* start whose run exists.
Boot(p) ==
    /\ kind = "start" /\ up = {} /\ \A c \in Calls : proc[c] # p
    /\ up' = {p}
    /\ receipt' = IF receipt.st = "accepted" /\ child = "running"
                  THEN [receipt EXCEPT !.st = "completed",
                                       !.result = Outcome("relaunched", {})]
                  ELSE receipt
    /\ UNCHANGED <<kind, aged, world, calls, rpc, told>>

-----------------------------------------------------------------------------

CallStep(c) ==
    \/ CreateReceipt(c) \/ FillReceipt(c) \/ FindReceipt(c)
    \/ Look(c) \/ Probe(c) \/ LookAgain(c) \/ LookForStart(c)
    \/ StartChecks(c) \/ Guard(c) \/ Dial(c) \/ Relaunch(c)
    \/ MarkRead(c) \/ MarkWrite(c) \/ Rerun(c) \/ Answered(c) \/ Reran(c)
    \/ Launch(c) \/ LaunchEnds(c) \/ CompleteRead(c) \/ CompleteWrite(c)

CoordinatorStep(c) == Route(c) \/ LaneAnswers(c) \/ Applied(c)

Next ==
    \/ \E c \in Calls, p \in Procs : Ask(c, p)
    \/ \E c \in Calls : CallStep(c) \/ CoordinatorStep(c)
    \/ \E r \in Guarded : OtherRestart(r) \/ Republished(r)
    \/ \E p \in Procs : Crash(p) \/ Boot(p)
    \/ CoordinatorStops \/ HistoryStops \/ ChildRegisters \/ ChildExits
    \/ GracePasses

\* A running process goes on, a coordinator answers, a spawned one comes up or
\* exits: each does so finitely often, so one weak fairness is enough.
Progress ==
    \/ \E c \in Calls : CallStep(c) \/ CoordinatorStep(c)
    \/ ChildRegisters \/ ChildExits

Spec == Init /\ [][Next]_vars /\ WF_vars(Progress)

-----------------------------------------------------------------------------
(* Properties *)

Acted == {r \in Roots : resets[r] > 0}

\* What the files, the calls and the world hold: a result exactly when the
\* receipt is completed, a mark only on a claim that was filled.
TypeOK ==
    /\ receipt.st \in {"absent", "torn", "accepted", "completed"}
    /\ (receipt.st = "completed") <=> (receipt.result # None)
    /\ (receipt.st \in {"accepted", "completed"}) <=> (receipt.by \in Procs)
    /\ receipt.sent \in BOOLEAN /\ receipt.roots \subseteq Roots
    /\ journal.yes \cup journal.no \subseteq Roots /\ journal.accepted \subseteq Roots
    /\ journal.yes \cap journal.no = {}
    /\ coord \in {"up", "fenced", "down"} /\ shown \subseteq moved
    /\ child \in {"none", "starting", "running", "dead"}
    /\ up \subseteq Procs
    /\ \A c \in Calls : got[c] \cup todo[c] \subseteq Roots

Abstract == INSTANCE OneEffect WITH
    effect <- CASE child = "running" /\ Acted = {} -> "run"
                [] child # "running" /\ Acted # {} /\ \A r \in Roots : resets[r] <= 1 -> "live"
                [] child # "running" /\ Acted = {} -> "none"
                [] OTHER -> "both",
    told <- {o.k : o \in told}

\* The receipt protocol implements "one effect, true answers"
\* (receipts.ts "performed once"; recovery.ts "a lost reply is reconciled,
\* never repeated"), through crashes of every process.
ImplementsOneEffect == Abstract!Spec

\* An answer names exactly what was done: every root of a live answer was
\* reset, and "in part" is said only of a part (recovery.ts tryLive,
\* reconcile.ts reconcileLive).
AnswersName ==
    \A o \in told :
        /\ o.k \in {"live", "partial"} => o.roots # {} /\ o.roots \subseteq Acted
        /\ o.k = "partial" => o.roots # Roots

\* The claimant of the id is the call that does the work; what it asked of the
\* coordinator may outlive it.
Working == {"fill", "new", "dial", "relaunch", "mark", "markw", "rerun", "wait",
            "launch", "launching"}
Busy(c) == pc[c] \in Working \/ rpc[c].st # "none"

\* Of all the presentations of an id at most one is at work on it, its calls at
\* the coordinator included (receipts.ts claimReceipt, "performed once").
OneClaimant == \A c, d \in Calls : Busy(c) /\ Busy(d) => c = d

\* Whatever may have been done for the request, or is about to be, the receipt
\* said so before: a repeat never takes it for a request that was not begun
\* (receipts.ts markDispatched).
Dispatched ==
    \/ child # "none" \/ journal.accepted # {} \/ Acted # {}
    \/ \E c \in Calls : pc[c] \in {"rerun", "wait", "launch", "launching"} \/ rpc[c].st # "none"
MarkedFirst == Dispatched => receipt.sent

\* The files are typed; every live or partial answer given is true of the run,
\* for good, whoever asks, crashes or reconciles after it; one presentation is
\* at work at a time; and the receipt is marked before anything is done.
Inv == TypeOK /\ AnswersName /\ OneClaimant /\ MarkedFirst

\* A request that is claimed is settled - its receipt is completed - unless the
\* process that claimed it dies or an exception of its talk with the live run
\* leaves the retry (recovery.ts finish: "no path can take the claim and skip
\* the record"; the exception is the path that does).
ClaimsSettle ==
    (receipt.st = "accepted")
        ~> (receipt.st = "completed" \/ receipt.by \notin up
              \/ \E c \in Calls : pc[c] = "threw")

\* Nodes reset on the live run and a new run: never both for one request
\* (recovery.ts:29, "a lost reply is reconciled, never repeated").
NeverBoth == child = "running" => Acted = {}

\* A result, once recorded, is never rewritten (receipts.ts:310).
FirstResultStays ==
    [][receipt.st = "completed" => receipt' = receipt]_vars

\* A reset that a guard admits is of the attempt the caller named (run.ts:1261).
GuardHolds ==
    [][\A r \in Guarded : resets'[r] > resets[r] => r \notin moved]_vars
=============================================================================
