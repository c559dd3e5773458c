--------------------------- MODULE Requests_proofs ---------------------------
(* That the receipt protocol keeps the promise of OneEffect, whatever the  *)
(* number of calls, processes, hosts and roots and whichever of them die.  *)
(* Two hypotheses stand where they are needed: no lane's "yes" is lost on  *)
(* its way to the coordinator, and no launch is given up before its run    *)
(* has registered or exited; without either the promise is not kept.       *)
EXTENDS Requests, TLAPS

Labels == {"idle", "claim", "fill", "look", "probe", "again", "new", "dial",
           "relaunch", "mark", "markw", "rerun", "wait", "launch", "launching",
           "finish", "finw", "done", "threw"}
Outcomes == [k : OutcomeKinds, roots : SUBSET Roots]
Receipts == [st : {"absent", "torn", "accepted", "completed"}, by : Procs \cup {Nobody},
             sent : BOOLEAN, roots : SUBSET Roots, result : Outcomes]
CallStates == {"none", "asked", "accepted", "reset", "declined", "yes", "no", "stale"}

Types ==
    /\ kind \in {"retry", "start"}
    /\ receipt \in Receipts
    /\ journal \in [accepted : SUBSET Roots, yes : SUBSET Roots, no : SUBSET Roots]
    /\ coord \in {"up", "fenced", "down"}
    /\ resets \in [Roots -> {0, 1}]
    /\ shown \subseteq moved
    /\ child \in {"none", "starting", "running", "dead"}
    /\ up \subseteq Procs
    /\ pc \in [Calls -> Labels]
    /\ proc \in [Calls -> Procs \cup {Nobody}]
    /\ held \in [Calls -> Receipts]
    /\ todo \in [Calls -> SUBSET Roots] /\ got \in [Calls -> SUBSET Roots]
    /\ out \in [Calls -> Outcomes]
    /\ rpc \in [Calls -> [root : Roots \cup {Nobody}, st : CallStates]]
    /\ told \subseteq Outcomes

\* Nothing will be done for the request any more.
Quiet ==
    /\ receipt.st # "absent"
    /\ child \notin {"starting", "running"}
    /\ \A c \in Calls : ~Busy(c)

\* The outcome is true, and stays so.
Holds(o) ==
    /\ o.k \in OutcomeKinds \ {"none"}
    /\ o.k \in {"live", "partial"} => o.roots # {} /\ o.roots \subseteq Acted
    /\ o.k = "partial" => o.roots # Roots
    /\ o.k = "relaunched" => child = "running"
    /\ o.k \in {"moved", "refused", "nothing"} => Quiet
    /\ o.k \in {"refused", "nothing"} => Acted = {}

\* What is read of a receipt says that it was dispatched, or it never will be.
Fresh(r) == r.sent \/ (Quiet /\ ~Dispatched)

\* The receipt file.
Filed ==
    /\ receipt.st = "completed" <=> receipt.result # None
    /\ receipt.st \in {"accepted", "completed"} <=> receipt.by \in Procs
    /\ receipt.sent => receipt.st \in {"accepted", "completed"}
    /\ MarkedFirst
    /\ receipt.st = "completed" => Holds(receipt.result)

\* A call moves only in a process that is up; a start's service is alone.
Standing ==
    /\ \A c \in Calls : pc[c] \notin {"idle", "done", "threw"} => proc[c] \in up
    /\ kind = "start" => \A p, q \in up : p = q

\* Where the claimant is, and what it has done so far.
Work(c) ==
    /\ IF pc[c] = "fill" THEN receipt.st = "torn"
       ELSE receipt.st \in {"accepted", "completed"} /\ receipt.by = proc[c]
    /\ pc[c] = "markw" => held[c] = receipt /\ receipt.st = "accepted"
    /\ pc[c] \notin {"rerun", "wait"} => got[c] = {} /\ Acted = {}
    /\ pc[c] # "wait" => rpc[c].st = "none"
    /\ child = "none" <=> pc[c] # "launching"
    /\ pc[c] \in {"fill", "new", "dial"} => journal.accepted = {}
    /\ pc[c] \in {"fill", "new", "dial", "relaunch", "launch", "launching"} => todo[c] = {}
    /\ \A r \in todo[c] : r \notin journal.accepted /\ resets[r] = 0
    /\ pc[c] = "rerun" => got[c] = Acted
    /\ pc[c] = "wait" /\ rpc[c].st = "none" => coord = "down"
    /\ pc[c] = "wait" /\ rpc[c].st # "none" =>
          Acted = got[c] \cup (IF rpc[c].st \in {"reset", "yes"} THEN {rpc[c].root} ELSE {})

\* What is on the wire to the coordinator and back.
Wire(c) ==
    /\ child = "none" /\ coord # "down" /\ pc[c] \in {"wait", "done", "threw"}
    /\ receipt.st \in {"accepted", "completed"}
    /\ rpc[c].root \in Roots \ todo[c]
    /\ rpc[c].st \in {"reset", "yes"} <=> rpc[c].root \in Acted
    /\ rpc[c].st \in {"yes", "no", "stale"} => pc[c] = "wait"
    /\ rpc[c].st = "asked" => rpc[c].root \notin journal.accepted
    /\ rpc[c].st \in {"accepted", "reset", "declined"} =>
          /\ rpc[c].root \notin Resolved
          /\ coord = "up" => rpc[c].root \in journal.accepted

Claimants ==
    \A c \in Calls : /\ pc[c] \in Working => Work(c)
                     /\ rpc[c].st # "none" => Wire(c)

\* What the coordinator and the new run have done.
Ledger ==
    /\ Resolved \subseteq journal.accepted
    /\ journal.yes \subseteq Acted /\ journal.yes \cap journal.no = {}
    /\ child # "none" => Acted = {}

\* Calls that read the receipt of another.
Reading(c) ==
    /\ pc[c] \notin Working => got[c] = {} /\ todo[c] = {}
    /\ pc[c] \in {"look", "probe", "again", "finish", "finw"} =>
          receipt.st \in {"accepted", "completed"}
    /\ pc[c] \in {"look", "probe", "finw"} => held[c].by = receipt.by
    /\ pc[c] \in {"probe", "again"} => kind = "retry"
    /\ pc[c] = "again" => receipt.by \notin up
    /\ pc[c] = "look" /\ kind = "start" => held[c].by \in up \/ Fresh(held[c])
    /\ pc[c] = "finw" => Fresh(held[c])
    /\ pc[c] \in {"finish", "finw"} => Holds(out[c])

Readers == \A c \in Calls : Reading(c)

Answers == \A o \in told : Holds(o)

IInv ==
    /\ Types /\ Filed /\ OneClaimant /\ Standing /\ Claimants /\ Ledger
    /\ Readers /\ Answers

-----------------------------------------------------------------------------
(* What stays true.                                                        *)

\* Everybody's view of quiet survives steps that bring no new work.
LEMMA QuietStays ==
    ASSUME receipt.st # "absent" => receipt'.st # "absent",
           child' \in {"starting", "running"} => child \in {"starting", "running"},
           \A c \in Calls : Busy(c)' => Busy(c)
    PROVE  Quiet => Quiet'
  BY DEF Quiet

\* An outcome that holds goes on holding while resets and runs are only added,
\* and none of either where all is quiet.
LEMMA HoldsStays ==
    ASSUME Acted \subseteq Acted', child = "running" => child' = "running",
           Quiet => Quiet' /\ Acted' = Acted, NEW o, Holds(o)
    PROVE  Holds(o)'
  BY DEF Holds

LEMMA FreshStays ==
    ASSUME Quiet /\ ~Dispatched => Quiet' /\ ~Dispatched', NEW r, Fresh(r)
    PROVE  Fresh(r)'
  BY DEF Fresh

\* A step inside one call: the files and the world stay, the call takes up no
\* new work, and what the invariant says of it where it goes is given.
LEMMA LocalStep ==
    ASSUME IInv, NEW c \in Calls, UNCHANGED <<kind, files, world, up>>, Types',
           \A d \in Calls \ {c} : /\ pc'[d] = pc[d] /\ proc'[d] = proc[d]
                                  /\ held'[d] = held[d] /\ todo'[d] = todo[d]
                                  /\ got'[d] = got[d] /\ out'[d] = out[d]
                                  /\ rpc'[d] = rpc[d],
           Busy(c)' => Busy(c),
           pc'[c] \in {"rerun", "wait", "launch", "launching"} \/ rpc'[c].st # "none"
               => receipt.sent,
           pc'[c] \notin {"idle", "done", "threw"} => proc'[c] \in up,
           pc'[c] \in Working => Work(c)',
           rpc'[c].st # "none" => Wire(c)',
           Reading(c)',
           \A o \in told' : o \in told \/ Holds(o)'
    PROVE  IInv'
  <1>. USE DEF IInv
  <1>1. Acted' = Acted /\ Resolved' = Resolved
    BY DEF world, Acted, Resolved
  <1>2. \A d \in Calls : Busy(d)' => Busy(d)
    BY DEF Busy
  <1>3. Quiet => Quiet'
    BY <1>2, QuietStays DEF files, world
  <1>4. Dispatched' => receipt.sent
    BY <1>1 DEF Dispatched, world, Filed, MarkedFirst
  <1>5. \A o : Holds(o) => Holds(o)'
    BY <1>1, <1>3, HoldsStays DEF world
  <1>6. Filed'
    BY <1>4, <1>5 DEF Filed, MarkedFirst, files
  <1>7. OneClaimant'
    BY <1>2 DEF OneClaimant
  <1>8. Standing'
    BY DEF Standing
  <1>9. Claimants'
    <2>. SUFFICES ASSUME NEW d \in Calls \ {c}
                  PROVE  /\ pc'[d] \in Working => Work(d)'
                         /\ rpc'[d].st # "none" => Wire(d)'
      BY DEF Claimants
    <2>1. pc'[d] \in Working => Work(d)'
      BY <1>1 DEF Claimants, Work, files, world
    <2>2. rpc'[d].st # "none" => Wire(d)'
      BY <1>1 DEF Claimants, Wire, files, world, Resolved
    <2>. QED BY <2>1, <2>2
  <1>10. Ledger'
    BY <1>1 DEF Ledger, world
  <1>11. Readers'
    <2>. SUFFICES ASSUME NEW d \in Calls \ {c} PROVE Reading(d)'
      BY DEF Readers
    <2>1. Quiet /\ ~Dispatched => Quiet' /\ ~Dispatched'
      BY <1>1, <1>2, <1>3 DEF Dispatched, Quiet, Busy, Working, world
    <2>2. Fresh(held[d]) => Fresh(held[d])'
      BY <2>1 DEF Fresh
    <2>. QED BY <1>5, <2>2 DEF Readers, Reading, files
  <1>12. Answers'
    BY <1>5 DEF Answers
  <1>. QED BY <1>6, <1>7, <1>8, <1>9, <1>10, <1>11, <1>12

\* What a step of c leaves to it on the wire: all of it when it had nothing, or
\* nothing.
Hangs(c) ==
    \/ rpc' = rpc /\ rpc[c].st = "none"
    \/ rpc' = [rpc EXCEPT ![c] = NoCall]

LEMMA HangsUp ==
    ASSUME Types, NEW c \in Calls, Hangs(c)
    PROVE  /\ rpc' \in [Calls -> [root : Roots \cup {Nobody}, st : CallStates]]
           /\ rpc'[c].st = "none"
           /\ \A d \in Calls \ {c} : rpc'[d] = rpc[d]
  <1>1. NoCall \in [root : Roots \cup {Nobody}, st : CallStates] /\ NoCall.st = "none"
    BY DEF NoCall, CallStates
  <1>2. CASE rpc' = rpc /\ rpc[c].st = "none"
    BY <1>2 DEF Types
  <1>3. CASE rpc' = [rpc EXCEPT ![c] = NoCall]
    <2>. DEFINE R == [root : Roots \cup {Nobody}, st : CallStates]
    <2>1. NoCall \in R /\ rpc \in [Calls -> R]
      BY <1>1 DEF Types
    <2>. HIDE DEF R
    <2>2. rpc' \in [Calls -> R] /\ rpc'[c] = NoCall /\ \A d \in Calls \ {c} : rpc'[d] = rpc[d]
      BY <1>3, <2>1
    <2>. QED BY <1>1, <2>2 DEF R
  <1>. QED BY <1>2, <1>3 DEF Hangs

LEMMA NoneIsTyped == NoReceipt \in Receipts /\ None \in Outcomes
  BY DEF NoReceipt, None, Receipts, Outcome, Outcomes, OutcomeKinds

\* A call that ends, with true answers or none.
LEMMA EndStep ==
    ASSUME IInv, NEW c \in Calls, UNCHANGED <<kind, files, world, up>>,
           NEW l \in {"done", "threw"}, OverAs({c}, l), Hangs(c),
           told' \subseteq Outcomes, \A o \in told' : o \in told \/ Holds(o)'
    PROVE  IInv'
  <1>. USE DEF IInv
  <1>1. /\ rpc' \in [Calls -> [root : Roots \cup {Nobody}, st : CallStates]]
        /\ rpc'[c].st = "none"
        /\ \A d \in Calls \ {c} : rpc'[d] = rpc[d]
    BY HangsUp
  <1>2. Types'
    <2>1. held' \in [Calls -> Receipts] /\ out' \in [Calls -> Outcomes]
      BY NoneIsTyped DEF Types, OverAs
    <2>2. pc' \in [Calls -> Labels]
      BY DEF Types, OverAs, Labels
    <2>3. todo' \in [Calls -> SUBSET Roots] /\ got' \in [Calls -> SUBSET Roots]
      BY DEF Types, OverAs
    <2>. QED BY <1>1, <2>1, <2>2, <2>3 DEF Types, OverAs, files, world
  <1>3. pc'[c] = l /\ ~Busy(c)'
    BY <1>1 DEF OverAs, Busy, Working
  <1>4. \A d \in Calls \ {c} : /\ pc'[d] = pc[d] /\ proc'[d] = proc[d]
                                /\ held'[d] = held[d] /\ todo'[d] = todo[d]
                                /\ got'[d] = got[d] /\ out'[d] = out[d]
    BY DEF OverAs
  <1>5. Reading(c)' /\ pc'[c] \notin Working
    BY <1>3 DEF Reading, Working, OverAs, Types
  <1>. QED BY <1>1, <1>2, <1>3, <1>4, <1>5, LocalStep

LEMMA TellStep ==
    ASSUME IInv, NEW c \in Calls, UNCHANGED <<kind, files, world, up>>, Hangs(c),
           NEW o \in Outcomes, Tell(c, o), Holds(o)
    PROVE  IInv'
  <1>1. \A d \in Calls : Busy(d)' => Busy(d)
    BY HangsUp DEF IInv, Tell, Over, OverAs, Busy, Working
  <1>2. Acted' = Acted
    BY DEF Acted, world
  <1>3. Quiet => Quiet'
    BY <1>1, QuietStays DEF files, world
  <1>4. Holds(o)'
    BY <1>2, <1>3, HoldsStays DEF world
  <1>5. told' = told \cup {o}
    BY DEF Tell
  <1>. QED BY <1>4, <1>5, EndStep DEF Tell, Over, IInv, Types

\* A call that knows its outcome.
LEMMA FinishStep ==
    ASSUME IInv, NEW c \in Calls, UNCHANGED <<kind, files, world, up>>, Hangs(c),
           pc[c] \notin {"idle", "done", "threw"}, receipt.st \in {"accepted", "completed"},
           NEW o \in Outcomes, Finish(c, o), Holds(o)'
    PROVE  IInv'
  <1>. USE DEF IInv
  <1>1. /\ rpc' \in [Calls -> [root : Roots \cup {Nobody}, st : CallStates]]
        /\ rpc'[c].st = "none"
        /\ \A d \in Calls \ {c} : rpc'[d] = rpc[d]
    BY HangsUp
  <1>2. Types'
    <2>1. held' \in [Calls -> Receipts] /\ out' \in [Calls -> Outcomes]
      BY NoneIsTyped DEF Types, Finish
    <2>2. pc' \in [Calls -> Labels]
      BY DEF Types, Finish, Goto, Labels
    <2>3. todo' \in [Calls -> SUBSET Roots] /\ got' \in [Calls -> SUBSET Roots]
      BY DEF Types, Finish
    <2>. QED BY <1>1, <2>1, <2>2, <2>3 DEF Types, Finish, files, world
  <1>3. pc'[c] = "finish" /\ out'[c] = o
    BY DEF Finish, Goto, Types
  <1>4. \A d \in Calls \ {c} : /\ pc'[d] = pc[d] /\ proc'[d] = proc[d]
                                /\ held'[d] = held[d] /\ todo'[d] = todo[d]
                                /\ got'[d] = got[d] /\ out'[d] = out[d]
    BY DEF Finish, Goto, Types
  <1>5. Reading(c)' /\ pc'[c] \notin Working /\ ~Busy(c)'
    BY <1>1, <1>3 DEF Reading, Working, Busy, files, Finish, Types
  <1>6. proc'[c] \in up /\ told' = told
    BY DEF Finish, Standing
  <1>. QED BY <1>1, <1>2, <1>3, <1>4, <1>5, <1>6, LocalStep

\* The claimant is the only one at work: when it lets go all is quiet.
LEMMA ClaimantRetires ==
    ASSUME IInv, NEW c \in Calls, UNCHANGED <<kind, files, world, up>>, Hangs(c),
           pc[c] \in Working \ {"fill"}, pc' = [pc EXCEPT ![c] = "finish"],
           child \notin {"starting", "running"}
    PROVE  Quiet'
  <1>1. rpc'[c].st = "none" /\ \A d \in Calls \ {c} : rpc'[d] = rpc[d]
    BY HangsUp DEF IInv
  <1>2. ASSUME NEW d \in Calls PROVE ~Busy(d)'
    <2>1. CASE d = c
      BY <1>1, <2>1 DEF IInv, Types, Busy, Working
    <2>2. CASE d # c
      <3>1. ~Busy(d)
        BY <2>2 DEF IInv, OneClaimant, Busy
      <3>. QED BY <1>1, <2>2, <3>1 DEF IInv, Types, Busy
    <2>. QED BY <2>1, <2>2
  <1>3. receipt.st # "absent"
    BY DEF IInv, Claimants, Work
  <1>. QED BY <1>2, <1>3 DEF Quiet, files, world

-----------------------------------------------------------------------------
(* The steps of a call, up to the claim and for a repeat of it.            *)

LEMMA AskStep ==
    ASSUME IInv, NEW c \in Calls, NEW p \in Procs, Ask(c, p)
    PROVE  IInv'
  <1>1. Types'
    BY DEF IInv, Types, Ask, Goto, Labels, files, world
  <1>2. pc'[c] = "claim" /\ proc'[c] = p /\ p \in up
    BY DEF IInv, Types, Ask, Goto
  <1>3. rpc'[c].st = "none"
    BY DEF IInv, Claimants, Wire, Ask
  <1>4. Reading(c)'
    BY <1>2 DEF Ask, IInv, Readers, Reading, Working
  <1>. QED BY <1>1, <1>2, <1>3, <1>4, LocalStep DEF Ask, Goto, IInv, Types, Busy, Working

\* A call that is not at work has nothing on the wire, and an outcome is its own.
LEMMA Idlers ==
    ASSUME IInv, NEW c \in Calls, pc[c] \notin {"wait", "done", "threw"}
    PROVE  rpc[c].st = "none"
  BY DEF IInv, Claimants, Wire

\* What is read of the receipt is fresh as long as its claimant lives.
LEMMA ReadsFresh ==
    ASSUME IInv, receipt.st \in {"accepted", "completed"}, receipt.by \notin up
    PROVE  Fresh(receipt)
  <1>. SUFFICES ASSUME ~receipt.sent PROVE Quiet /\ ~Dispatched
    BY DEF Fresh
  <1>1. ~Dispatched
    BY DEF IInv, Filed, MarkedFirst
  <1>2. child = "none" /\ \A c \in Calls : rpc[c].st = "none"
    BY <1>1 DEF Dispatched
  <1>3. ASSUME NEW c \in Calls, pc[c] \in Working PROVE FALSE
    <2>1. proc[c] = receipt.by
      BY <1>3 DEF IInv, Claimants, Work
    <2>2. proc[c] \in up
      BY <1>3 DEF IInv, Standing, Working
    <2>. QED BY <2>1, <2>2
  <1>. QED BY <1>1, <1>2, <1>3 DEF Quiet, Busy

LEMMA FindStep ==
    ASSUME IInv, NEW c \in Calls, FindReceipt(c)
    PROVE  IInv'
  <1>. USE DEF IInv
  <1>1. /\ pc[c] = "claim" /\ rpc[c].st = "none" /\ proc[c] \in up
        /\ UNCHANGED <<kind, files, world, up, rpc>>
    BY Idlers DEF FindReceipt, Runs
  <1>2. Hangs(c)
    BY <1>1 DEF Hangs
  <1>3. CASE receipt.st = "torn"
    BY <1>1, <1>2, <1>3, EndStep DEF FindReceipt, End, Over, Types
  <1>4. CASE receipt.st = "completed"
    <2>1. Tell(c, receipt.result) /\ receipt.result \in Outcomes
      BY <1>4 DEF FindReceipt, Types, Receipts
    <2>. QED BY <1>1, <1>2, <1>4, <2>1, TellStep DEF Filed
  <1>5. CASE receipt.st = "accepted"
    <2>1. /\ held' = [held EXCEPT ![c] = receipt] /\ pc' = [pc EXCEPT ![c] = "look"]
          /\ UNCHANGED <<proc, todo, got, out, told>>
      BY <1>5 DEF FindReceipt, Goto
    <2>2. Types'
      BY <1>1, <2>1 DEF Types, Labels, files, world
    <2>3. pc'[c] = "look" /\ held'[c] = receipt /\ receipt' = receipt
      BY <1>1, <2>1 DEF Types, files
    <2>4. receipt.by \in up \/ Fresh(receipt)
      BY <1>5, ReadsFresh
    <2>5. Fresh(receipt) => Fresh(receipt)'
      <3>1. \A d \in Calls : Busy(d)' => Busy(d)
        BY <1>1, <2>1 DEF Types, Busy, Working
      <3>2. \A d \in Calls : pc'[d] \in {"rerun", "wait", "launch", "launching"} => pc[d] = pc'[d]
        BY <2>1 DEF Types
      <3>. QED BY <1>1, <2>3, <3>1, <3>2 DEF Fresh, Quiet, Dispatched, world, Acted
    <2>6. Reading(c)'
      BY <1>1, <1>5, <2>1, <2>3, <2>4, <2>5 DEF Readers, Reading, Working
    <2>. QED BY <1>1, <2>1, <2>2, <2>3, <2>6, LocalStep DEF Types, Busy, Working
  <1>. QED BY <1>3, <1>4, <1>5 DEF FindReceipt, Types, Receipts

\* What the evidence says is so; and where it says nothing, nothing is marked.
LEMMA EvidenceHolds ==
    ASSUME IInv, NEW r \in Receipts
    PROVE  /\ Evidence(r).k \in {"none", "unknown", "relaunched", "live", "partial"}
           /\ Evidence(r).k \in {"relaunched", "live", "partial"} =>
                 Evidence(r) \in Outcomes /\ Holds(Evidence(r))
           /\ Evidence(r).k = "none" => Evidence(r) = None
           /\ Evidence(r) = None => ~r.sent /\ Evidence(r).k = "none"
  <1>. DEFINE intended == IF r.sent THEN r.roots ELSE journal.accepted
              applied == intended \cap journal.yes
  <1>. USE DEF IInv
  <1>1. intended \subseteq Roots /\ applied \subseteq Acted
    BY DEF Types, Receipts, Ledger
  <1>2. CASE child = "running"
    BY <1>2 DEF Evidence, Outcome, Outcomes, OutcomeKinds, Holds, None
  <1>3. CASE child # "running" /\ journal.accepted = {}
    BY <1>3 DEF Evidence, Outcome, None
  <1>4. CASE child # "running" /\ journal.accepted # {}
    <2>1. Evidence(r) = IF ~(intended \subseteq Resolved) \/ applied = {}
                        THEN Outcome("unknown", {})
                        ELSE Outcome(IF applied = intended THEN "live" ELSE "partial", applied)
      BY <1>4 DEF Evidence
    <2>. HIDE DEF applied, intended
    <2>2. applied # Roots \/ applied = intended
      BY <1>1 DEF applied
    <2>. QED BY <1>1, <2>1, <2>2 DEF Outcome, Outcomes, OutcomeKinds, Holds, None, Acted
  <1>. QED BY <1>2, <1>3, <1>4

\* A conclusion from the evidence ends the call, or is recorded.
LEMMA ConcludeStep ==
    ASSUME IInv, NEW c \in Calls, NEW r \in Receipts, Evidence(r) # None,
           Conclude(c, Evidence(r)), UNCHANGED <<kind, files, world, up, rpc>>,
           pc[c] \in {"look", "again"}
    PROVE  IInv'
  <1>. USE DEF IInv
  <1>1. Hangs(c) /\ receipt.st \in {"accepted", "completed"}
    BY Idlers DEF Hangs, Readers, Reading
  <1>2. CASE Evidence(r).k = "unknown"
    BY <1>1, <1>2, EndStep DEF Conclude, End, Over, Types
  <1>3. CASE Evidence(r).k \in {"relaunched", "live", "partial"}
    <2>1. Finish(c, Evidence(r)) /\ Evidence(r) \in Outcomes /\ Holds(Evidence(r))
      BY <1>3, EvidenceHolds DEF Conclude
    <2>2. PICK e \in Outcomes : e = Evidence(r)
      BY <2>1
    <2>3. \A d \in Calls : Busy(d)' => Busy(d)
      BY <2>1 DEF Finish, Goto, Types, Busy, Working
    <2>4. Quiet => Quiet'
      BY <2>3, QuietStays DEF files, world
    <2>5. Acted' = Acted /\ child' = child
      BY DEF world, Acted
    <2>6. Holds(e)'
      BY <2>1, <2>2, <2>4, <2>5, HoldsStays
    <2>. QED BY <1>1, <2>1, <2>2, <2>6, FinishStep
  <1>. QED BY <1>2, <1>3, EvidenceHolds

\* Where nothing was marked and the claimant is gone, nothing happened and
\* nothing will.
LEMMA NothingHolds ==
    ASSUME IInv, Quiet, ~Dispatched
    PROVE  Holds(Outcome("nothing", {})) /\ Outcome("nothing", {}) \in Outcomes
  BY DEF Holds, Outcome, Outcomes, OutcomeKinds, Dispatched

LEMMA LookStep ==
    ASSUME IInv, NEW c \in Calls, Look(c)
    PROVE  IInv'
  <1>. USE DEF IInv
  <1>1. pc[c] = "look" /\ held[c] \in Receipts /\ UNCHANGED <<kind, files, world, up, rpc>>
    BY DEF Look, Types
  <1>2. rpc[c].st = "none" /\ proc[c] \in up
    BY <1>1, Idlers DEF Look, Runs
  <1>3. CASE Evidence(held[c]) # None
    BY <1>1, <1>3, ConcludeStep DEF Look
  <1>4. CASE End(c)
    BY <1>1, <1>2, <1>4, EndStep DEF End, Over, Hangs, Types
  <1>5. CASE Goto(c, "probe") /\ UNCHANGED <<proc, held, todo, got, out, told>>
    <2>1. Types' /\ pc'[c] = "probe"
      BY <1>1, <1>5 DEF Types, Goto, Labels, files, world
    <2>2. Reading(c)'
      BY <1>1, <1>5, <2>1 DEF Readers, Reading, Working, files, Look
    <2>. QED BY <1>1, <1>2, <1>5, <2>1, <2>2, LocalStep DEF Types, Goto, Busy, Working
  <1>. QED BY <1>3, <1>4, <1>5 DEF Look

LEMMA ProbeStep ==
    ASSUME IInv, NEW c \in Calls, Probe(c)
    PROVE  IInv'
  <1>. USE DEF IInv
  <1>1. pc[c] = "probe" /\ UNCHANGED <<kind, files, world, up, rpc>>
    BY DEF Probe
  <1>2. rpc[c].st = "none" /\ proc[c] \in up
    BY <1>1, Idlers DEF Probe, Runs
  <1>3. CASE End(c)
    BY <1>1, <1>2, <1>3, EndStep DEF End, Over, Hangs, Types
  <1>4. CASE held[c].by \notin up /\ Goto(c, "again")
             /\ UNCHANGED <<proc, held, todo, got, out, told>>
    <2>1. Types' /\ pc'[c] = "again"
      BY <1>1, <1>4 DEF Types, Goto, Labels, files, world
    <2>2. Reading(c)'
      BY <1>1, <1>4, <2>1 DEF Readers, Reading, Working, files
    <2>. QED BY <1>1, <1>2, <1>4, <2>1, <2>2, LocalStep DEF Types, Goto, Busy, Working
  <1>. QED BY <1>3, <1>4 DEF Probe

LEMMA LookAgainStep ==
    ASSUME IInv, NEW c \in Calls, LookAgain(c)
    PROVE  IInv'
  <1>. USE DEF IInv
  <1>1. pc[c] = "again" /\ receipt \in Receipts /\ UNCHANGED <<kind, files, world, up, rpc>>
    BY DEF LookAgain, Types
  <1>2. Hangs(c)
    BY <1>1, Idlers DEF Hangs
  <1>3. CASE Evidence(receipt) # None
    BY <1>1, <1>3, ConcludeStep DEF LookAgain
  <1>4. CASE Evidence(receipt) = None
    <2>1. ~receipt.sent
      BY <1>1, <1>4, EvidenceHolds
    <2>2. Quiet /\ ~Dispatched
      BY <1>1, <2>1, ReadsFresh DEF Fresh, Readers, Reading
    <2>3. Tell(c, Outcome("nothing", {}))
      BY <1>4 DEF LookAgain
    <2>. QED BY <1>1, <1>2, <2>2, <2>3, NothingHolds, TellStep
  <1>. QED BY <1>3, <1>4

LEMMA LookForStartStep ==
    ASSUME IInv, NEW c \in Calls, LookForStart(c)
    PROVE  IInv'
  <1>. USE DEF IInv
  <1>1. pc[c] = "look" /\ kind = "start" /\ UNCHANGED <<kind, files, world, up, rpc>>
    BY DEF LookForStart
  <1>2. Hangs(c) /\ receipt.st \in {"accepted", "completed"}
    BY <1>1, Idlers DEF Hangs, Readers, Reading
  <1>3. CASE child = "running"
    <2>1. Finish(c, Outcome("relaunched", {}))
      BY <1>3 DEF LookForStart
    <2>2. Outcome("relaunched", {}) \in Outcomes /\ Holds(Outcome("relaunched", {}))'
      BY <1>1, <1>3 DEF Outcome, Outcomes, OutcomeKinds, Holds, world
    <2>. QED BY <1>1, <1>2, <2>1, <2>2, FinishStep
  <1>4. CASE End(c)
    BY <1>1, <1>2, <1>4, EndStep DEF End, Over, Types
  <1>5. CASE /\ child # "running" /\ ~held[c].sent /\ held[c].by \notin up
             /\ Tell(c, Outcome("nothing", {}))
    <2>1. Quiet /\ ~Dispatched
      BY <1>1, <1>5 DEF Readers, Reading, Fresh
    <2>. QED BY <1>1, <1>2, <1>5, <2>1, NothingHolds, TellStep
  <1>. QED BY <1>3, <1>4, <1>5 DEF LookForStart

-----------------------------------------------------------------------------
(* The steps of the claimant.                                              *)

\* The claimant moves on inside its own call, and nothing it relies on changes.
LEMMA WorkStep ==
    ASSUME IInv, NEW c \in Calls, UNCHANGED <<kind, files, world, up, proc, out, told>>,
           pc[c] \in Working, NEW l \in Working \ {"fill"}, Goto(c, l), Hangs(c),
           NEW T \in SUBSET Roots, todo' = [todo EXCEPT ![c] = T],
           NEW G \in SUBSET Roots, got' = [got EXCEPT ![c] = G],
           NEW h \in Receipts, held' = [held EXCEPT ![c] = h],
           l \in {"rerun", "wait", "launch", "launching"} => receipt.sent,
           Work(c)'
    PROVE  IInv'
  <1>. USE DEF IInv
  <1>1. /\ rpc' \in [Calls -> [root : Roots \cup {Nobody}, st : CallStates]]
        /\ rpc'[c].st = "none"
        /\ \A d \in Calls \ {c} : rpc'[d] = rpc[d]
    BY HangsUp
  <1>2. Types' /\ pc'[c] = l
    BY <1>1 DEF Types, Goto, Labels, Working, files, world
  <1>3. Reading(c)' /\ Busy(c)
    BY <1>2 DEF Reading, Working, Busy
  <1>4. proc'[c] \in up
    BY DEF Standing, Working
  <1>5. \A d \in Calls \ {c} : /\ pc'[d] = pc[d] /\ held'[d] = held[d]
                                /\ todo'[d] = todo[d] /\ got'[d] = got[d]
    BY DEF Types, Goto
  <1>. QED BY <1>1, <1>2, <1>3, <1>4, <1>5, LocalStep

\* A refusal before anything was asked for leaves all quiet.
LEMMA RefuseStep ==
    ASSUME IInv, NEW c \in Calls, UNCHANGED <<kind, files, world, up, rpc>>,
           pc[c] \in {"new", "relaunch"}, Finish(c, Outcome("refused", {}))
    PROVE  IInv'
  <1>. USE DEF IInv
  <1>1. Hangs(c) /\ Acted = {} /\ child = "none" /\ receipt.st \in {"accepted", "completed"}
    BY Idlers DEF Hangs, Claimants, Work, Working
  <1>2. Quiet'
    BY <1>1, ClaimantRetires DEF Finish, Goto, Working
  <1>3. Outcome("refused", {}) \in Outcomes /\ Holds(Outcome("refused", {}))'
    BY <1>1, <1>2 DEF Outcome, Outcomes, OutcomeKinds, Holds, world, Acted
  <1>. QED BY <1>1, <1>3, FinishStep

LEMMA NewStep ==
    ASSUME IInv, NEW c \in Calls, StartChecks(c) \/ Guard(c) \/ Relaunch(c) \/ Dial(c)
    PROVE  IInv'
  <1>. USE DEF IInv
  <1>1. pc[c] \in {"new", "dial", "relaunch"} /\ UNCHANGED <<kind, files, world, up, rpc>>
    BY DEF StartChecks, Guard, Relaunch, Dial
  <1>2. Hangs(c) /\ Work(c) /\ held[c] \in Receipts /\ todo[c] = {} /\ got[c] = {}
    BY <1>1, Idlers DEF Hangs, Claimants, Working, Work, Types
  <1>3. CASE pc[c] # "dial" /\ Finish(c, Outcome("refused", {}))
    BY <1>1, <1>3, RefuseStep
  <1>4. ASSUME NEW l \in {"mark", "dial", "relaunch"}, Goto(c, l),
               pc[c] = "new" \/ (pc[c] = "relaunch" /\ l = "mark")
                 \/ (pc[c] = "dial" /\ l = "relaunch"),
               UNCHANGED <<proc, held, todo, got, out, told>>
        PROVE  IInv'
    <2>1. pc'[c] = l
      BY <1>4 DEF Goto, Types
    <2>2. Work(c)'
      BY <1>1, <1>2, <1>4, <2>1 DEF Work, files, world, Acted
    <2>3. /\ todo' = [todo EXCEPT ![c] = todo[c]] /\ got' = [got EXCEPT ![c] = got[c]]
          /\ held' = [held EXCEPT ![c] = held[c]]
      BY <1>4 DEF Types
    <2>. QED BY <1>1, <1>2, <1>4, <2>2, <2>3, WorkStep DEF Working
  <1>5. ASSUME Goto(c, "mark"), pc[c] = "dial", todo' = [todo EXCEPT ![c] = Roots],
               UNCHANGED <<proc, held, got, out, told>>
        PROVE  IInv'
    <2>1. pc'[c] = "mark" /\ todo'[c] = Roots
      BY <1>5 DEF Goto, Types
    <2>2. \A r \in Roots : r \notin journal.accepted /\ resets[r] = 0
      BY <1>2, <1>5 DEF Work, Acted, Types
    <2>3. Work(c)'
      BY <1>1, <1>2, <1>5, <2>1, <2>2 DEF Work, files, world, Acted
    <2>4. got' = [got EXCEPT ![c] = got[c]] /\ held' = [held EXCEPT ![c] = held[c]]
      BY <1>5 DEF Types
    <2>5. pc[c] \in Working /\ "mark" \in Working \ {"fill"} /\ Roots \in SUBSET Roots
          /\ got[c] \in SUBSET Roots
      BY <1>2, <1>5 DEF Working
    <2>. QED BY ZenonT(90), <1>1, <1>2, <1>5, <2>3, <2>4, <2>5, WorkStep
  <1>6. CASE Throw(c)
    BY <1>1, <1>2, <1>6, EndStep DEF Throw, Types
  <1>. QED BY <1>3, <1>4, <1>5, <1>6 DEF StartChecks, Guard, Relaunch, Dial

LEMMA MarkReadStep ==
    ASSUME IInv, NEW c \in Calls, MarkRead(c)
    PROVE  IInv'
  <1>. USE DEF IInv
  <1>1. pc[c] = "mark" /\ UNCHANGED <<kind, files, world, up, proc, todo, got, out, rpc, told>>
    BY DEF MarkRead
  <1>2. /\ Hangs(c) /\ Work(c) /\ held[c] \in Receipts /\ receipt \in Receipts
        /\ todo[c] \in SUBSET Roots /\ got[c] \in SUBSET Roots
        /\ receipt.st \in {"accepted", "completed"}
    BY <1>1, Idlers DEF Hangs, Claimants, Working, Work, Types
  <1>3. todo' = [todo EXCEPT ![c] = todo[c]] /\ got' = [got EXCEPT ![c] = got[c]]
    BY <1>1 DEF Types
  <1>4. CASE receipt.st = "accepted" /\ ~receipt.sent
    <2>1. Goto(c, "markw") /\ held' = [held EXCEPT ![c] = receipt]
      BY <1>4 DEF MarkRead
    <2>2. Work(c)'
      BY <1>1, <1>2, <1>4, <2>1 DEF Work, Goto, Types, files, world, Acted
    <2>3. pc[c] \in Working /\ "markw" \in Working \ {"fill"}
      BY <1>1 DEF Working
    <2>. QED BY <1>1, <1>2, <1>3, <2>1, <2>2, <2>3, WorkStep
  <1>5. CASE ~(receipt.st = "accepted" /\ ~receipt.sent)
    <2>1. Goto(c, Dispatch(c)) /\ held' = [held EXCEPT ![c] = held[c]]
      BY <1>5 DEF MarkRead, Types
    <2>2. receipt.sent
      <3>1. ~Quiet /\ Acted = {} /\ child = "none"
        BY <1>1, <1>2 DEF Quiet, Busy, Working, Work
      <3>2. ~Holds(receipt.result)
        BY <3>1 DEF Holds, OutcomeKinds
      <3>. QED BY <1>2, <1>5, <3>2 DEF Filed, MarkedFirst
    <2>3. Work(c)'
      BY <1>1, <1>2, <2>1 DEF Work, Goto, Types, Dispatch, files, world, Acted
    <2>4. Dispatch(c) \in Working \ {"fill"}
      BY DEF Dispatch, Working
    <2>. QED BY <1>1, <1>2, <1>3, <2>1, <2>2, <2>3, <2>4, WorkStep DEF Working
  <1>. QED BY <1>4, <1>5

LEMMA RerunStep ==
    ASSUME IInv, NEW c \in Calls, Rerun(c)
    PROVE  IInv'
  <1>. USE DEF IInv
  <1>1. pc[c] = "rerun" /\ proc[c] \in up /\ UNCHANGED <<kind, files, world, up>>
    BY DEF Rerun, Runs
  <1>2. rpc[c].st = "none" /\ Work(c) /\ receipt.sent
    BY <1>1, Idlers DEF Claimants, Working, Filed, MarkedFirst, Dispatched
  <1>3. CASE coord = "down"
    BY <1>1, <1>2, <1>3, EndStep DEF Rerun, Throw, Hangs, Types
  <1>4. CASE coord # "down"
    <2>1. PICK r \in todo[c] :
             /\ rpc' = [rpc EXCEPT ![c] = [root |-> r, st |-> "asked"]]
             /\ todo' = [todo EXCEPT ![c] = @ \ {r}] /\ pc' = [pc EXCEPT ![c] = "wait"]
             /\ UNCHANGED <<proc, held, got, out, told>>
      BY <1>4 DEF Rerun, Goto
    <2>2. r \in Roots /\ r \notin journal.accepted /\ r \notin Acted
      BY <1>1, <1>2, <2>1 DEF Types, Work, Working, Acted
    <2>3. rpc'[c] = [root |-> r, st |-> "asked"] /\ pc'[c] = "wait" /\ todo'[c] = todo[c] \ {r}
      BY <2>1 DEF Types
    <2>4. Types'
      <3>. DEFINE R == [root : Roots \cup {Nobody}, st : CallStates]
      <3>1. [root |-> r, st |-> "asked"] \in R /\ rpc \in [Calls -> R]
        BY <2>2 DEF CallStates, Types
      <3>. HIDE DEF R
      <3>2. rpc' \in [Calls -> R]
        BY <2>1, <3>1
      <3>. QED BY <1>1, <2>1, <3>2 DEF R, Types, Labels, files, world
    <2>5. Acted' = Acted /\ child = "none"
      BY <1>1, <1>2 DEF Acted, world, Work
    <2>6. Work(c)'
      BY <1>1, <1>2, <2>1, <2>3, <2>5 DEF Work, files, world
    <2>7. Wire(c)'
      BY <1>1, <1>2, <1>4, <2>1, <2>2, <2>3, <2>5 DEF Wire, Work, files, world
    <2>8. Reading(c)'
      BY <2>3 DEF Reading, Working
    <2>9. \A d \in Calls \ {c} : /\ pc'[d] = pc[d] /\ todo'[d] = todo[d] /\ rpc'[d] = rpc[d]
      BY <2>1 DEF Types
    <2>10. Busy(c)
      BY <1>1 DEF Busy, Working
    <2>. QED BY <1>1, <1>2, <2>1, <2>4, <2>6, <2>7, <2>8, <2>9, <2>10, LocalStep
  <1>. QED BY <1>3, <1>4

LEMMA AnsweredStep ==
    ASSUME IInv, NEW c \in Calls, Answered(c)
    PROVE  IInv'
  <1>. USE DEF IInv
  <1>1. pc[c] = "wait" /\ UNCHANGED <<kind, files, world, up>> /\ rpc' = [rpc EXCEPT ![c] = NoCall]
    BY DEF Answered
  <1>2. Work(c) /\ Hangs(c) /\ receipt.sent /\ held[c] \in Receipts
    BY <1>1 DEF Claimants, Working, Hangs, Filed, MarkedFirst, Dispatched, Types
  <1>3. rpc[c].st \in {"none", "yes", "no", "stale"}
    BY DEF Answered, Claimants, Wire
  <1>4. CASE rpc[c].st = "none"
    BY <1>1, <1>2, <1>4, EndStep DEF Answered, Throw, Types
  <1>5. CASE rpc[c].st = "stale"
    <2>1. Finish(c, Outcome("moved", {})) /\ child = "none"
      BY <1>5 DEF Answered, Claimants, Wire
    <2>2. Quiet'
      BY <1>1, <1>2, <2>1, ClaimantRetires DEF Finish, Goto, Working
    <2>3. Outcome("moved", {}) \in Outcomes /\ Holds(Outcome("moved", {}))'
      BY <2>2 DEF Outcome, Outcomes, OutcomeKinds, Holds
    <2>. QED BY <1>1, <1>2, <2>1, <2>3, FinishStep DEF Work
  <1>6. CASE rpc[c].st \in {"yes", "no"}
    <2>. DEFINE G == IF rpc[c].st = "yes" THEN got[c] \cup {rpc[c].root} ELSE got[c]
    <2>1. /\ Goto(c, "rerun") /\ got' = [got EXCEPT ![c] = G]
          /\ UNCHANGED <<proc, held, todo, out, told>>
      BY <1>6 DEF Answered, Types
    <2>2. G \in SUBSET Roots /\ G = Acted
      BY <1>1, <1>2, <1>6 DEF Types, Work, Acted
    <2>3. Work(c)'
      BY <1>1, <1>2, <2>1, <2>2 DEF Work, Goto, Types, NoCall, files, world, Acted
    <2>4. todo' = [todo EXCEPT ![c] = todo[c]] /\ held' = [held EXCEPT ![c] = held[c]]
          /\ todo[c] \in SUBSET Roots
      BY <2>1 DEF Types
    <2>. HIDE DEF G
    <2>. QED BY <1>1, <1>2, <2>1, <2>2, <2>3, <2>4, WorkStep DEF Working
  <1>. QED BY <1>3, <1>4, <1>5, <1>6

LEMMA ReranStep ==
    ASSUME IInv, NEW c \in Calls, Reran(c)
    PROVE  IInv'
  <1>. USE DEF IInv
  <1>1. pc[c] = "rerun" /\ todo[c] = {} /\ UNCHANGED <<kind, files, world, up, rpc>>
    BY DEF Reran
  <1>2. Work(c) /\ Hangs(c) /\ receipt.sent /\ held[c] \in Receipts /\ got[c] \in SUBSET Roots
    BY <1>1, Idlers DEF Claimants, Working, Hangs, Filed, MarkedFirst, Dispatched, Types
  <1>3. CASE got[c] = {}
    <2>1. Goto(c, "relaunch") /\ UNCHANGED <<proc, held, todo, got, out, told>>
      BY <1>3, RequestsAssumption DEF Reran
    <2>2. Work(c)'
      BY <1>1, <1>2, <1>3, <2>1 DEF Work, Goto, Types, files, world, Acted
    <2>3. /\ todo' = [todo EXCEPT ![c] = todo[c]] /\ got' = [got EXCEPT ![c] = got[c]]
          /\ held' = [held EXCEPT ![c] = held[c]]
      BY <2>1 DEF Types
    <2>. QED BY <1>1, <1>2, <2>1, <2>2, <2>3, WorkStep DEF Working
  <1>4. CASE got[c] # {}
    <2>1. PICK o \in Outcomes : /\ Finish(c, o) /\ o.k \in {"live", "partial"}
                               /\ o.roots = got[c] /\ (o.k = "partial" => o.roots # Roots)
      BY <1>2, <1>4 DEF Reran, Outcome, Outcomes, OutcomeKinds
    <2>2. got[c] = Acted /\ Acted' = Acted
      BY <1>1, <1>2 DEF Work, world, Acted
    <2>3. Holds(o)'
      BY <1>4, <2>1, <2>2 DEF Holds, OutcomeKinds
    <2>. QED BY <1>1, <1>2, <2>1, <2>3, FinishStep DEF Work
  <1>. QED BY <1>3, <1>4

LEMMA LaunchEndsStep ==
    ASSUME IInv, ~LateChild, NEW c \in Calls, LaunchEnds(c)
    PROVE  IInv'
  <1>. USE DEF IInv
  <1>1. pc[c] = "launching" /\ UNCHANGED <<kind, files, world, up, rpc>>
    BY DEF LaunchEnds
  <1>2. Work(c) /\ Hangs(c) /\ Acted = {}
    BY <1>1, Idlers DEF Claimants, Working, Work, Hangs
  <1>3. CASE child = "running" /\ Finish(c, Outcome("relaunched", {}))
    <2>1. Outcome("relaunched", {}) \in Outcomes /\ Holds(Outcome("relaunched", {}))'
      BY <1>1, <1>3 DEF Outcome, Outcomes, OutcomeKinds, Holds, world
    <2>. QED BY <1>1, <1>2, <1>3, <2>1, FinishStep DEF Work
  <1>4. CASE child = "dead" /\ Finish(c, Outcome("refused", {}))
    <2>1. Quiet'
      BY <1>1, <1>2, <1>4, ClaimantRetires DEF Finish, Goto, Working
    <2>2. Outcome("refused", {}) \in Outcomes /\ Holds(Outcome("refused", {}))'
      BY <1>1, <1>2, <2>1 DEF Outcome, Outcomes, OutcomeKinds, Holds, world, Acted
    <2>. QED BY <1>1, <1>2, <1>4, <2>2, FinishStep DEF Work
  <1>. QED BY <1>3, <1>4 DEF LaunchEnds

LEMMA CompleteReadStep ==
    ASSUME IInv, NEW c \in Calls, CompleteRead(c)
    PROVE  IInv'
  <1>. USE DEF IInv
  <1>1. pc[c] = "finish" /\ proc[c] \in up /\ UNCHANGED <<kind, files, world, up, rpc>>
    BY DEF CompleteRead, Runs
  <1>2. /\ Hangs(c) /\ rpc[c].st = "none" /\ Holds(out[c]) /\ out[c] \in Outcomes
        /\ receipt.st \in {"accepted", "completed"} /\ receipt \in Receipts
    BY <1>1, Idlers DEF Hangs, Readers, Reading, Types
  <1>3. CASE Tell(c, out[c])
    BY <1>1, <1>2, <1>3, TellStep
  <1>4. CASE /\ held' = [held EXCEPT ![c] = receipt] /\ Goto(c, "finw")
             /\ UNCHANGED <<proc, todo, got, out, told>>
    <2>1. Types' /\ pc'[c] = "finw" /\ held'[c] = receipt /\ out'[c] = out[c]
      BY <1>1, <1>2, <1>4 DEF Types, Goto, Labels, files, world
    <2>2. Dispatched \/ Quiet
      BY <1>2 DEF Holds, Dispatched, OutcomeKinds
    <2>3. Fresh(receipt)
      BY <2>2 DEF Fresh, Filed, MarkedFirst
    <2>4. \A d \in Calls : Busy(d)' => Busy(d)
      BY <1>1, <1>4 DEF Goto, Types, Busy, Working
    <2>5. Quiet => Quiet'
      BY <1>1, <2>4, QuietStays DEF files, world
    <2>6. Dispatched' => Dispatched
      BY <1>1, <1>4 DEF Dispatched, Goto, Types, world, Acted
    <2>7. Reading(c)'
      <3>1. Acted' = Acted
        BY <1>1 DEF Acted, world
      <3>2. Fresh(receipt)' /\ receipt' = receipt
        BY <1>1, <2>3, <2>5, <2>6 DEF Fresh, files
      <3>3. PICK o \in Outcomes : o = out[c]
        BY <1>2
      <3>4. Holds(o)'
        BY <1>1, <1>2, <2>5, <3>1, <3>3, HoldsStays DEF world
      <3>. QED BY <1>1, <1>2, <1>4, <2>1, <3>2, <3>3, <3>4 DEF Readers, Reading, Working, Fresh
    <2>. QED BY <1>1, <1>2, <1>4, <2>1, <2>7, LocalStep DEF Types, Goto, Busy, Working
  <1>. QED BY <1>3, <1>4 DEF CompleteRead

-----------------------------------------------------------------------------
(* The steps that write the receipt, or launch.                            *)

\* Before the id is claimed nothing was done, and nobody has been told a thing.
LEMMA Unclaimed ==
    ASSUME IInv, receipt.st = "absent"
    PROVE  /\ ~Dispatched /\ ~receipt.sent /\ \A c \in Calls : ~Busy(c)
           /\ \A c \in Calls : pc[c] \in {"idle", "claim", "done", "threw"}
           /\ told = {}
  <1>. USE DEF IInv
  <1>1. ~receipt.sent /\ ~Dispatched
    BY DEF Filed, MarkedFirst
  <1>2. \A o : ~Holds(o)
    BY <1>1 DEF Holds, Quiet, Dispatched, OutcomeKinds
  <1>3. \A c \in Calls : ~Busy(c)
    BY DEF Claimants, Work, Wire, Busy
  <1>4. \A c \in Calls : pc[c] \in {"idle", "claim", "done", "threw"}
    BY <1>3 DEF Busy, Working, Readers, Reading, Types, Labels
  <1>. QED BY <1>1, <1>2, <1>3, <1>4 DEF Answers

\* While the claimant has done nothing yet there is nothing to say.
LEMMA NothingToSay ==
    ASSUME IInv, NEW c \in Calls, Busy(c), Acted = {}, child # "running"
    PROVE  /\ ~Quiet /\ \A o : ~Holds(o)
           /\ told = {} /\ receipt.st # "completed"
           /\ \A d \in Calls : pc[d] \notin {"finish", "finw"}
  <1>1. ~Quiet /\ \A o : ~Holds(o)
    BY DEF Quiet, Holds, OutcomeKinds
  <1>. QED BY <1>1 DEF IInv, Answers, Filed, Readers, Reading

LEMMA CreateStep ==
    ASSUME IInv, NEW c \in Calls, CreateReceipt(c)
    PROVE  IInv'
  <1>. USE DEF IInv
  <1>1. /\ ~Dispatched /\ \A d \in Calls : ~Busy(d)
        /\ \A d \in Calls : pc[d] \in {"idle", "claim", "done", "threw"}
        /\ told = {} /\ ~receipt.sent
    BY Unclaimed DEF CreateReceipt
  <1>2. /\ receipt' = [receipt EXCEPT !.st = "torn"] /\ pc' = [pc EXCEPT ![c] = "fill"]
        /\ UNCHANGED <<kind, world, up, proc, held, todo, got, out, rpc, told>>
        /\ receipt.st = "absent" /\ proc[c] \in up
    BY DEF CreateReceipt, Goto, Runs
  <1>3. Types'
    BY <1>2 DEF Types, Labels, Receipts, world
  <1>4. \A d \in Calls : pc'[d] = IF d = c THEN "fill" ELSE pc[d]
    BY <1>2 DEF Types
  <1>5. receipt'.st = "torn" /\ receipt'.sent = receipt.sent /\ receipt'.by = receipt.by
        /\ receipt'.result = receipt.result
    BY <1>2 DEF Types, Receipts
  <1>6. Acted' = Acted /\ Acted = {} /\ journal.accepted = {} /\ child = "none"
        /\ \A d \in Calls : rpc[d].st = "none"
    BY <1>1, <1>2 DEF Acted, Dispatched, world
  <1>7. Filed'
    <2>1. ~Dispatched'
      BY <1>1, <1>2, <1>4, <1>6 DEF Dispatched, world
    <2>. QED BY <1>2, <1>5, <2>1 DEF Filed, MarkedFirst
  <1>8. OneClaimant' /\ Standing'
    BY <1>1, <1>2, <1>4, <1>6 DEF OneClaimant, Standing, Busy
  <1>9. Claimants'
    <2>1. pc[c] = "claim" /\ got[c] = {} /\ todo[c] = {}
      BY DEF CreateReceipt, Readers, Reading, Working
    <2>. QED BY <1>1, <1>2, <1>4, <1>5, <1>6, <2>1 DEF Claimants, Work, Working, world
  <1>10. Ledger' /\ Answers'
    BY <1>1, <1>2, <1>6 DEF Ledger, Answers, world, Resolved
  <1>11. Readers'
    BY <1>1, <1>2, <1>4 DEF Readers, Reading, Working
  <1>. QED BY <1>3, <1>7, <1>8, <1>9, <1>10, <1>11

LEMMA FillStep ==
    ASSUME IInv, NEW c \in Calls, FillReceipt(c)
    PROVE  IInv'
  <1>. USE DEF IInv
  <1>1. /\ pc[c] = "fill" /\ proc[c] \in up /\ receipt' = Claimed(proc[c])
        /\ pc' = [pc EXCEPT ![c] = "new"]
        /\ UNCHANGED <<kind, aged, world, up, proc, held, todo, got, out, rpc, told>>
    BY DEF FillReceipt, Goto, Runs
  <1>2. /\ Work(c) /\ Busy(c) /\ rpc[c].st = "none" /\ receipt.st = "torn"
        /\ Acted = {} /\ child = "none"
    BY <1>1 DEF Claimants, Work, Working, Busy
  <1>3. ~Dispatched /\ \A d \in Calls : rpc[d].st = "none"
    BY <1>2 DEF Filed, MarkedFirst, Dispatched
  <1>4. told = {} /\ \A d \in Calls : pc[d] \notin {"finish", "finw"}
    BY <1>2, NothingToSay
  <1>5. \A d \in Calls : pc'[d] = IF d = c THEN "new" ELSE pc[d]
    BY <1>1 DEF Types
  <1>6. /\ receipt'.st = "accepted" /\ receipt'.by = proc[c] /\ ~receipt'.sent
        /\ receipt'.result = None /\ receipt' \in Receipts /\ proc[c] \in Procs
    <2>1. proc[c] \in Procs
      BY <1>1 DEF Types
    <2>. QED BY <1>1, <2>1, NoneIsTyped DEF Claimed, NoReceipt, Receipts
  <1>7. Types'
    BY <1>1, <1>6 DEF Types, Labels, world
  <1>8. Acted' = Acted
    BY <1>1 DEF Acted, world
  <1>9. Filed'
    <2>1. ~Dispatched'
      BY <1>1, <1>3, <1>5, <1>8 DEF Dispatched, world
    <2>. QED BY <1>6, <2>1 DEF Filed, MarkedFirst
  <1>10. OneClaimant' /\ Standing'
    <2>1. \A d \in Calls : Busy(d)' => Busy(d)
      BY <1>1, <1>2, <1>5 DEF Busy
    <2>. QED BY <1>1, <1>5, <2>1 DEF OneClaimant, Standing
  <1>11. Claimants'
    <2>1. \A d \in Calls \ {c} : pc[d] \notin Working
      BY <1>2 DEF OneClaimant, Busy
    <2>2. Work(c)'
      BY <1>1, <1>2, <1>5, <1>6, <1>8 DEF Work, world
    <2>. QED BY <1>1, <1>3, <1>5, <2>1, <2>2 DEF Claimants
  <1>12. Ledger' /\ Answers'
    BY <1>1, <1>4, <1>8 DEF Ledger, Answers, world, Resolved
  <1>13. Readers'
    BY <1>1, <1>2, <1>4, <1>5 DEF Readers, Reading, Working
  <1>. QED BY <1>7, <1>9, <1>10, <1>11, <1>12, <1>13

LEMMA MarkWriteStep ==
    ASSUME IInv, NEW c \in Calls, MarkWrite(c)
    PROVE  IInv'
  <1>. USE DEF IInv
  <1>1. /\ pc[c] = "markw" /\ proc[c] \in up
        /\ receipt' = [held[c] EXCEPT !.sent = TRUE, !.roots = todo[c]]
        /\ pc' = [pc EXCEPT ![c] = Dispatch(c)] /\ held' = [held EXCEPT ![c] = NoReceipt]
        /\ UNCHANGED <<kind, aged, world, up, proc, todo, got, out, rpc, told>>
    BY DEF MarkWrite, Goto, Runs
  <1>2. /\ Work(c) /\ Busy(c) /\ rpc[c].st = "none" /\ receipt.st = "accepted"
        /\ Acted = {} /\ child = "none" /\ held[c] = receipt
    BY <1>1 DEF Claimants, Work, Working, Busy
  <1>3. told = {} /\ \A d \in Calls : pc[d] \notin {"finish", "finw"}
    BY <1>2, NothingToSay
  <1>4. PICK l \in {"rerun", "launch"} : l = Dispatch(c) /\ (l = "launch" => todo[c] = {})
    BY DEF Dispatch
  <1>5. \A d \in Calls : pc'[d] = IF d = c THEN l ELSE pc[d]
    BY <1>1, <1>4 DEF Types
  <1>6. /\ receipt'.st = "accepted" /\ receipt'.by = receipt.by /\ receipt'.sent
        /\ receipt'.result = receipt.result /\ receipt' \in Receipts
    BY <1>1, <1>2 DEF Types, Receipts
  <1>7. Types'
    BY <1>1, <1>4, <1>6, NoneIsTyped DEF Types, Labels, world
  <1>8. Acted' = Acted
    BY <1>1 DEF Acted, world
  <1>9. Filed'
    BY <1>2, <1>6 DEF Filed, MarkedFirst
  <1>10. OneClaimant' /\ Standing'
    <2>1. \A d \in Calls : Busy(d)' => Busy(d)
      BY <1>1, <1>2, <1>5 DEF Busy
    <2>. QED BY <1>1, <1>5, <2>1 DEF OneClaimant, Standing
  <1>11. Claimants'
    <2>1. \A d \in Calls \ {c} : pc[d] \notin Working /\ rpc[d].st = "none"
      BY <1>2 DEF OneClaimant, Busy
    <2>2. Work(c)'
      BY <1>1, <1>2, <1>4, <1>5, <1>6, <1>8 DEF Work, world
    <2>. QED BY <1>1, <1>2, <1>5, <2>1, <2>2 DEF Claimants
  <1>12. Ledger' /\ Answers'
    BY <1>1, <1>3, <1>8 DEF Ledger, Answers, world, Resolved
  <1>13. Readers'
    <2>1. \A d \in Calls : held[d].sent => d = c \/ held'[d].sent
      BY <1>1 DEF Types
    <2>2. ~Quiet
      BY <1>2 DEF Quiet
    <2>3. \A d \in Calls \ {c} : Reading(d)'
      BY <1>1, <1>2, <1>3, <1>5, <1>6, <2>2 DEF Readers, Reading, Fresh, Types
    <2>4. Reading(c)'
      BY <1>4, <1>5 DEF Reading, Working
    <2>. QED BY <2>3, <2>4 DEF Readers
  <1>. QED BY <1>7, <1>9, <1>10, <1>11, <1>12, <1>13

LEMMA LaunchStep ==
    ASSUME IInv, NEW c \in Calls, Launch(c)
    PROVE  IInv'
  <1>. USE DEF IInv
  <1>1. /\ pc[c] = "launch" /\ proc[c] \in up /\ child' = "starting"
        /\ pc' = [pc EXCEPT ![c] = "launching"]
        /\ UNCHANGED <<kind, files, journal, coord, resets, moved, shown, up, proc, held,
                       todo, got, out, rpc, told>>
    BY DEF Launch, Goto, Runs
  <1>2. /\ Work(c) /\ Busy(c) /\ rpc[c].st = "none" /\ Acted = {} /\ child = "none"
        /\ receipt.sent
    BY <1>1 DEF Claimants, Work, Working, Busy, Filed, MarkedFirst, Dispatched
  <1>3. told = {} /\ receipt.st # "completed" /\ ~Quiet
        /\ \A d \in Calls : pc[d] \notin {"finish", "finw"}
    BY <1>2, NothingToSay
  <1>4. \A d \in Calls : pc'[d] = IF d = c THEN "launching" ELSE pc[d]
    BY <1>1 DEF Types
  <1>5. Types'
    BY <1>1 DEF Types, Labels, files
  <1>6. Acted' = Acted
    BY <1>1 DEF Acted
  <1>7. Filed'
    BY <1>1, <1>2, <1>3 DEF Filed, MarkedFirst, files
  <1>8. OneClaimant' /\ Standing'
    <2>1. \A d \in Calls : Busy(d)' => Busy(d)
      BY <1>1, <1>2, <1>4 DEF Busy
    <2>. QED BY <1>1, <1>4, <2>1 DEF OneClaimant, Standing
  <1>9. Claimants'
    <2>1. \A d \in Calls \ {c} : pc[d] \notin Working /\ rpc[d].st = "none"
      BY <1>2 DEF OneClaimant, Busy
    <2>2. Work(c)'
      BY <1>1, <1>2, <1>4, <1>6 DEF Work, files
    <2>. QED BY <1>1, <1>2, <1>4, <2>1, <2>2 DEF Claimants
  <1>10. Ledger' /\ Answers'
    BY <1>1, <1>2, <1>3, <1>6 DEF Ledger, Answers, Resolved
  <1>11. Readers'
    BY <1>1, <1>3, <1>4 DEF Readers, Reading, Working, Fresh, files
  <1>. QED BY <1>5, <1>7, <1>8, <1>9, <1>10, <1>11

LEMMA CompleteWriteStep ==
    ASSUME IInv, NEW c \in Calls, CompleteWrite(c)
    PROVE  IInv'
  <1>. USE DEF IInv
  <1>1. /\ pc[c] = "finw" /\ proc[c] \in up
        /\ receipt' = [held[c] EXCEPT !.st = "completed", !.result = out[c]]
        /\ Over({c}) /\ told' = told \cup {out[c]}
        /\ UNCHANGED <<kind, aged, world, up, rpc>>
    BY DEF CompleteWrite, Tell, Runs
  <1>2. PICK o \in Outcomes : o = out[c]
    BY DEF Types
  <1>3. /\ rpc[c].st = "none" /\ ~Busy(c) /\ held[c].by = receipt.by /\ Fresh(held[c])
        /\ Holds(o) /\ receipt.st \in {"accepted", "completed"}
    BY <1>1, <1>2, Idlers DEF Readers, Reading, Busy, Working
  <1>4. \A d \in Calls : pc'[d] = IF d = c THEN "done" ELSE pc[d]
    BY <1>1 DEF Over, OverAs, Types
  <1>5. /\ receipt'.st = "completed" /\ receipt'.by = receipt.by /\ receipt'.sent = held[c].sent
        /\ receipt'.result = o /\ receipt' \in Receipts
    BY <1>1, <1>2, <1>3 DEF Types, Receipts
  <1>6. o # None
    BY <1>3 DEF Holds, None, Outcome, OutcomeKinds
  <1>7. Types'
    <2>1. pc' \in [Calls -> Labels] /\ held' \in [Calls -> Receipts] /\ out' \in [Calls -> Outcomes]
      BY <1>1, NoneIsTyped DEF Types, Over, OverAs, Labels
    <2>2. todo' \in [Calls -> SUBSET Roots] /\ got' \in [Calls -> SUBSET Roots]
      BY <1>1 DEF Types, Over, OverAs
    <2>. QED BY <1>1, <1>2, <1>5, <2>1, <2>2 DEF Types, Over, OverAs, world
  <1>8. Acted' = Acted
    BY <1>1 DEF Acted, world
  <1>9. (\A d \in Calls : Busy(d)' => Busy(d)) /\ (Quiet => Quiet') /\ (Dispatched' => Dispatched)
    <2>1. \A d \in Calls : Busy(d)' => Busy(d)
      BY <1>1, <1>4 DEF Busy, Working
    <2>2. Quiet => Quiet'
      BY <1>1, <1>5, <2>1, QuietStays DEF world
    <2>3. Dispatched' => Dispatched
      BY <1>1, <1>4, <1>8 DEF Dispatched, world
    <2>. QED BY <2>1, <2>2, <2>3
  <1>10. \A p \in Outcomes : Holds(p) => Holds(p)'
    BY <1>1, <1>8, <1>9, HoldsStays DEF world
  <1>11. Filed'
    BY <1>2, <1>3, <1>5, <1>6, <1>9, <1>10 DEF Filed, MarkedFirst, Types, Fresh
  <1>12. OneClaimant' /\ Standing'
    BY <1>1, <1>4, <1>9 DEF OneClaimant, Standing, Over, OverAs
  <1>13. Claimants'
    <2>1. \A d \in Calls \ {c} : /\ todo'[d] = todo[d] /\ got'[d] = got[d] /\ held'[d] = held[d]
                                 /\ proc'[d] = proc[d]
      BY <1>1 DEF Over, OverAs
    <2>2. ASSUME NEW d \in Calls, pc[d] \in Working PROVE Work(d)'
      <3>1. pc[d] \notin {"fill", "markw"}
        <4>1. pc[d] = "markw" => Acted = {} /\ child = "none" /\ Busy(d)
          BY DEF Claimants, Work, Working, Busy
        <4>2. pc[d] # "markw"
          BY <1>3, <4>1, NothingToSay
        <4>. QED BY <1>3, <4>2 DEF Claimants, Work, Working
      <3>2. d # c
        BY <1>1, <2>2 DEF Working
      <3>. QED BY <1>1, <1>4, <1>5, <1>8, <2>1, <2>2, <3>1, <3>2 DEF Claimants, Work, Working, world
    <2>3. ASSUME NEW d \in Calls, rpc[d].st # "none" PROVE Wire(d)'
      BY <1>1, <1>3, <1>4, <1>5, <1>8, <2>1, <2>3 DEF Claimants, Wire, world, Resolved
    <2>. QED BY <1>1, <1>4, <2>2, <2>3 DEF Claimants, Working
  <1>14. Ledger'
    BY <1>1, <1>8 DEF Ledger, world, Resolved
  <1>15. Answers'
    BY <1>1, <1>2, <1>3, <1>10 DEF Answers, Types
  <1>16. Readers'
    <2>1. \A d \in Calls \ {c} : /\ todo'[d] = todo[d] /\ got'[d] = got[d] /\ held'[d] = held[d]
                                 /\ proc'[d] = proc[d] /\ out'[d] = out[d]
      BY <1>1 DEF Over, OverAs
    <2>2. todo'[c] = {} /\ got'[c] = {}
      BY <1>1 DEF Over, OverAs
    <2>3. ASSUME NEW d \in Calls \ {c} PROVE Reading(d)'
      <3>1. PICK p \in Outcomes : p = out[d] /\ p = out'[d]
        BY <2>1 DEF Types
      <3>2. Fresh(held[d]) => Fresh(held[d])'
        BY <1>9, <2>1 DEF Fresh
      <3>. QED BY <1>1, <1>4, <1>5, <1>10, <2>1, <3>1, <3>2 DEF Readers, Reading
    <2>4. Reading(c)'
      BY <1>4, <2>2 DEF Reading, Working
    <2>. QED BY <2>3, <2>4 DEF Readers
  <1>. QED BY <1>7, <1>11, <1>12, <1>13, <1>14, <1>15, <1>16

-----------------------------------------------------------------------------
(* The coordinator, the new run and everybody else.                        *)

\* A step outside the calls: nobody takes up new work, nothing is undone, and
\* what it does to a claimant and to the ledger is given.
LEMMA WorldStep ==
    ASSUME IInv, UNCHANGED <<kind, files, up, calls, told>>, Types',
           Acted \subseteq Acted', Quiet => Acted' = Acted,
           child = "running" => child' = "running",
           child' # "none" => child # "none",
           child' \in {"starting", "running"} => child \in {"starting", "running"},
           \A c \in Calls : rpc'[c].st # "none" => rpc[c].st # "none",
           Quiet => journal'.accepted = journal.accepted,
           (journal'.accepted # {} \/ Acted' # {}) => Dispatched,
           Claimants', Ledger'
    PROVE  IInv'
  <1>. USE DEF IInv
  <1>1. \A c \in Calls : Busy(c)' => Busy(c)
    BY DEF Busy, calls
  <1>2. Quiet => Quiet'
    BY <1>1, QuietStays DEF files
  <1>3. Dispatched' => Dispatched
    BY DEF Dispatched, calls
  <1>4. \A o : Holds(o) => Holds(o)'
    BY <1>2, HoldsStays
  <1>5. Filed'
    BY <1>3, <1>4 DEF Filed, MarkedFirst, files
  <1>6. OneClaimant' /\ Standing'
    BY <1>1 DEF OneClaimant, Standing, calls
  <1>7. Readers'
    BY <1>2, <1>3, <1>4 DEF Readers, Reading, Fresh, files, calls
  <1>8. Answers'
    BY <1>4 DEF Answers
  <1>. QED BY <1>5, <1>6, <1>7, <1>8

LEMMA RepliesTyped ==
    ASSUME Types, NEW c \in Calls, NEW s \in CallStates, Handled(c, s) \/ Replies(c, s)
    PROVE  /\ rpc' \in [Calls -> [root : Roots \cup {Nobody}, st : CallStates]]
           /\ \A d \in Calls \ {c} : rpc'[d] = rpc[d]
           /\ Handled(c, s) => rpc'[c].st = s /\ rpc'[c].root = rpc[c].root
           /\ Replies(c, s) =>
                IF pc[c] = "wait" THEN rpc'[c].st = s /\ rpc'[c].root = rpc[c].root
                                  ELSE rpc'[c].st = "none"
  <1>. DEFINE R == [root : Roots \cup {Nobody}, st : CallStates]
              v == [rpc[c] EXCEPT !.st = s]
  <1>1. rpc \in [Calls -> R] /\ NoCall \in R /\ NoCall.st = "none"
    BY DEF Types, NoCall, CallStates
  <1>2. v \in R /\ v.st = s /\ v.root = rpc[c].root
    BY <1>1
  <1>3. Handled(c, s) => rpc' = [rpc EXCEPT ![c] = v]
    BY DEF Handled
  <1>4. Replies(c, s) => rpc' = [rpc EXCEPT ![c] = IF pc[c] = "wait" THEN v ELSE NoCall]
    BY DEF Replies, Handled
  <1>. HIDE DEF R, v
  <1>5. Handled(c, s) => rpc' \in [Calls -> R] /\ rpc'[c] = v
                          /\ \A d \in Calls \ {c} : rpc'[d] = rpc[d]
    BY <1>1, <1>2, <1>3
  <1>6. Replies(c, s) => rpc' \in [Calls -> R] /\ rpc'[c] = (IF pc[c] = "wait" THEN v ELSE NoCall)
                          /\ \A d \in Calls \ {c} : rpc'[d] = rpc[d]
    BY <1>1, <1>2, <1>4
  <1>. QED BY <1>1, <1>2, <1>5, <1>6 DEF R

LEMMA RouteStep ==
    ASSUME IInv, NEW c \in Calls, Route(c)
    PROVE  IInv'
  <1>. USE DEF IInv
  <1>1. /\ rpc[c].st = "asked" /\ coord # "down" /\ Busy(c) /\ Dispatched
        /\ UNCHANGED <<served, coord, resets, moved, shown, child>>
    BY DEF Route, Handling, Busy, Dispatched
  <1>2. Wire(c) /\ Acted' = Acted /\ ~Quiet
    BY <1>1 DEF Claimants, Acted, Quiet
  <1>3. PICK s \in CallStates : /\ Handled(c, s) \/ Replies(c, s)
                               /\ \/ s \in {"no", "stale"} /\ Replies(c, s) /\ UNCHANGED journal
                                  \/ /\ s = "accepted" /\ Handled(c, s)
                                     /\ journal' = IF coord = "fenced" THEN journal
                                           ELSE [journal EXCEPT !.accepted = @ \cup {rpc[c].root}]
    BY DEF Route, CallStates
  <1>4. /\ rpc' \in [Calls -> [root : Roots \cup {Nobody}, st : CallStates]]
        /\ \A d \in Calls \ {c} : rpc'[d] = rpc[d]
        /\ Handled(c, s) => rpc'[c].st = s /\ rpc'[c].root = rpc[c].root
        /\ Replies(c, s) =>
             IF pc[c] = "wait" THEN rpc'[c].st = s /\ rpc'[c].root = rpc[c].root
                               ELSE rpc'[c].st = "none"
    BY <1>3, RepliesTyped
  <1>5. /\ journal'.yes = journal.yes /\ journal'.no = journal.no
        /\ journal.accepted \subseteq journal'.accepted
        /\ journal'.accepted \subseteq journal.accepted \cup {rpc[c].root}
        /\ s = "accepted" /\ coord = "up" => rpc[c].root \in journal'.accepted
        /\ journal' \in [accepted : SUBSET Roots, yes : SUBSET Roots, no : SUBSET Roots]
    BY <1>2, <1>3 DEF Types, Wire
  <1>6. Types'
    BY <1>1, <1>4, <1>5 DEF Types, served, files, calls
  <1>7. Claimants'
    <2>1. ASSUME NEW d \in Calls, d # c PROVE pc[d] \notin Working /\ rpc[d].st = "none"
      BY <1>1, <2>1 DEF OneClaimant, Busy
    <2>2. pc[c] \in Working => pc[c] = "wait" /\ Work(c)
      BY <1>2 DEF Wire, Working, Claimants
    <2>3. pc[c] \in Working => Work(c)'
      BY <1>1, <1>2, <1>3, <1>4, <1>5, <2>2 DEF Work, Wire, served, files, calls, Acted
    <2>4. rpc'[c].st # "none" => Wire(c)'
      BY <1>1, <1>2, <1>3, <1>4, <1>5 DEF Wire, Ledger, Resolved, served, files, calls
    <2>. QED BY <1>1, <1>4, <2>1, <2>3, <2>4 DEF Claimants, served, calls
  <1>8. Ledger'
    BY <1>1, <1>2, <1>5 DEF Ledger, Resolved
  <1>. QED BY <1>1, <1>2, <1>4, <1>6, <1>7, <1>8, WorldStep DEF served

LEMMA LaneAnswersStep ==
    ASSUME IInv, ~LostReplies, NEW c \in Calls, LaneAnswers(c)
    PROVE  IInv'
  <1>. USE DEF IInv
  <1>1. /\ rpc[c].st = "accepted" /\ coord # "down" /\ Busy(c) /\ Dispatched
        /\ UNCHANGED <<served, journal, coord, moved, shown, child>>
    BY DEF LaneAnswers, Handling, Busy, Dispatched
  <1>2. Wire(c) /\ ~Quiet /\ rpc[c].root \in Roots /\ rpc[c].root \notin Acted
    BY <1>1 DEF Claimants, Quiet, Wire
  <1>3. PICK s \in CallStates : /\ Handled(c, s)
                               /\ \/ /\ s = "reset"
                                     /\ resets' = [resets EXCEPT ![rpc[c].root] = @ + 1]
                                  \/ s = "declined" /\ UNCHANGED resets
    BY DEF LaneAnswers, CallStates
  <1>4. /\ rpc' \in [Calls -> [root : Roots \cup {Nobody}, st : CallStates]]
        /\ \A d \in Calls \ {c} : rpc'[d] = rpc[d]
        /\ rpc'[c].st = s /\ rpc'[c].root = rpc[c].root
    BY <1>3, RepliesTyped
  <1>5. /\ resets' \in [Roots -> {0, 1}]
        /\ \A r \in Roots : r # rpc[c].root => resets'[r] = resets[r]
        /\ Acted' = IF s = "reset" THEN Acted \cup {rpc[c].root} ELSE Acted
    BY SMTT(60), <1>2, <1>3 DEF Types, Acted
  <1>6. Types'
    BY <1>1, <1>4, <1>5 DEF Types, served, files, calls
  <1>7. Claimants'
    <2>1. ASSUME NEW d \in Calls, d # c PROVE pc[d] \notin Working /\ rpc[d].st = "none"
      BY <1>1, <2>1 DEF OneClaimant, Busy
    <2>2. pc[c] \in Working => pc[c] = "wait" /\ Work(c)
      BY <1>2 DEF Wire, Working, Claimants
    <2>3. pc[c] \in Working => Work(c)'
      <3>1. rpc[c].root \notin todo[c] /\ todo[c] \subseteq Roots
        BY <1>2 DEF Wire, Types
      <3>. QED BY <1>1, <1>2, <1>3, <1>4, <1>5, <2>2, <3>1 DEF Work, served, files, calls
    <2>4. rpc'[c].st # "none" => Wire(c)'
      BY <1>1, <1>2, <1>3, <1>4, <1>5 DEF Wire, Resolved, served, files, calls
    <2>. QED BY <1>1, <1>4, <2>1, <2>3, <2>4 DEF Claimants, served, calls
  <1>8. Ledger'
    BY <1>1, <1>2, <1>5 DEF Ledger, Resolved, Wire
  <1>. QED BY <1>1, <1>2, <1>4, <1>5, <1>6, <1>7, <1>8, WorldStep DEF served

LEMMA AppliedStep ==
    ASSUME IInv, NEW c \in Calls, Applied(c)
    PROVE  IInv'
  <1>. USE DEF IInv
  <1>1. /\ rpc[c].st \in {"reset", "declined"} /\ coord # "down" /\ Busy(c) /\ Dispatched
        /\ UNCHANGED <<served, coord, resets, moved, shown, child>>
    BY DEF Applied, Busy, Dispatched
  <1>2. Wire(c) /\ ~Quiet /\ Acted' = Acted
    BY <1>1 DEF Claimants, Quiet, Acted
  <1>3. PICK s \in CallStates : Replies(c, s) /\ s = (IF rpc[c].st = "reset" THEN "yes" ELSE "no")
    BY DEF Applied, CallStates
  <1>4. /\ rpc' \in [Calls -> [root : Roots \cup {Nobody}, st : CallStates]]
        /\ \A d \in Calls \ {c} : rpc'[d] = rpc[d]
        /\ IF pc[c] = "wait" THEN rpc'[c].st = s /\ rpc'[c].root = rpc[c].root
                             ELSE rpc'[c].st = "none"
    BY <1>3, RepliesTyped
  <1>5. /\ journal' \in [accepted : SUBSET Roots, yes : SUBSET Roots, no : SUBSET Roots]
        /\ journal'.accepted = journal.accepted
        /\ journal'.yes \subseteq Acted /\ journal'.yes \cap journal'.no = {}
        /\ journal'.yes \cup journal'.no \subseteq journal.accepted
    <2>1. /\ rpc[c].root \in Roots /\ rpc[c].root \notin Resolved
          /\ coord # "fenced" => rpc[c].root \in journal.accepted
          /\ rpc[c].st = "reset" => rpc[c].root \in Acted
      BY <1>1, <1>2 DEF Wire, Types
    <2>2. CASE coord = "fenced"
      <3>1. journal' = journal
        BY <2>2 DEF Applied
      <3>. QED BY <3>1 DEF Types, Ledger, Resolved
    <2>3. CASE coord # "fenced" /\ rpc[c].st = "reset"
      BY <2>1, <2>3 DEF Applied, Types, Ledger, Resolved
    <2>4. CASE coord # "fenced" /\ rpc[c].st # "reset"
      BY ZenonT(90), <2>1, <2>4 DEF Applied, Types, Ledger, Resolved
    <2>. QED BY <2>2, <2>3, <2>4
  <1>6. Types'
    BY <1>1, <1>4, <1>5 DEF Types, served, files, calls
  <1>7. Claimants'
    <2>1. ASSUME NEW d \in Calls, d # c PROVE pc[d] \notin Working /\ rpc[d].st = "none"
      BY <1>1, <2>1 DEF OneClaimant, Busy
    <2>2. pc[c] \in Working => pc[c] = "wait" /\ Work(c)
      BY <1>1, <1>2 DEF Wire, Working, Claimants
    <2>3. pc[c] \in Working => Work(c)'
      BY <1>1, <1>2, <1>3, <1>4, <1>5, <2>2 DEF Work, served, files, calls
    <2>4. rpc'[c].st # "none" => Wire(c)'
      BY <1>1, <1>2, <1>3, <1>4, <1>5 DEF Wire, served, files, calls
    <2>. QED BY <1>1, <1>4, <2>1, <2>3, <2>4 DEF Claimants, served, calls
  <1>8. Ledger'
    BY <1>1, <1>2, <1>5 DEF Ledger, Resolved
  <1>. QED BY <1>1, <1>2, <1>4, <1>5, <1>6, <1>7, <1>8, WorldStep DEF served

\* The coordinator is gone: whoever waits for it finds the line cut.
LEMMA StopsStep ==
    ASSUME IInv, CoordinatorStops \/ HistoryStops
    PROVE  IInv'
  <1>. USE DEF IInv
  <1>1. /\ UNCHANGED <<served, journal, resets, moved, shown, child>>
        /\ coord' \in {"down", "fenced"} /\ coord # "down"
        /\ \/ coord' = "down" /\ rpc' = [c \in Calls |-> NoCall]
           \/ coord' = "fenced" /\ rpc' = rpc
    BY DEF CoordinatorStops, HistoryStops
  <1>2. \A c \in Calls : rpc'[c].st = "none" \/ (rpc' = rpc /\ coord' = "fenced")
    BY <1>1 DEF NoCall
  <1>3. Types'
    BY <1>1 DEF Types, served, files, calls, NoCall, CallStates
  <1>4. Acted' = Acted
    BY <1>1 DEF Acted
  <1>5. Claimants'
    BY <1>1, <1>2, <1>4 DEF Claimants, Work, Wire, served, files, calls, Resolved
  <1>6. Ledger'
    BY <1>1, <1>4 DEF Ledger, Resolved
  <1>7. journal.accepted # {} \/ Acted # {} => Dispatched
    BY DEF Dispatched
  <1>. QED BY <1>1, <1>2, <1>3, <1>4, <1>5, <1>6, <1>7, WorldStep DEF served

LEMMA OthersStep ==
    ASSUME IInv, \/ \E r \in Guarded : OtherRestart(r) \/ Republished(r)
                 \/ ChildRegisters \/ ChildExits
    PROVE  IInv'
  <1>. USE DEF IInv
  <1>1. /\ UNCHANGED <<served, journal, coord, resets, rpc>>
        /\ shown' \subseteq moved'
        /\ child' = child \/ (child = "starting" /\ child' \in {"running", "dead"})
    BY DEF OtherRestart, Republished, ChildRegisters, ChildExits, Types
  <1>2. Types'
    BY <1>1 DEF Types, served, files, calls
  <1>3. Acted' = Acted
    BY <1>1 DEF Acted
  <1>4. Claimants'
    BY <1>1, <1>3 DEF Claimants, Work, Wire, served, files, calls, Resolved
  <1>5. Ledger'
    BY <1>1, <1>3 DEF Ledger, Resolved
  <1>6. journal.accepted # {} \/ Acted # {} => Dispatched
    BY DEF Dispatched
  <1>. QED BY <1>1, <1>2, <1>3, <1>4, <1>5, <1>6, WorldStep DEF served

LEMMA GraceStep ==
    ASSUME IInv, GracePasses
    PROVE  IInv'
  <1>. USE DEF IInv
  <1>1. UNCHANGED <<kind, receipt, world, up, calls, rpc, told>>
    BY DEF GracePasses
  <1>2. Types' /\ Acted' = Acted /\ Resolved' = Resolved
    BY <1>1 DEF Types, world, calls, Acted, Resolved
  <1>3. (Quiet <=> Quiet') /\ (Dispatched' <=> Dispatched)
    BY <1>1, <1>2 DEF Quiet, Busy, Dispatched, world, calls
  <1>4. \A o : Holds(o) => Holds(o)'
    BY <1>1, <1>2, <1>3 DEF Holds, world
  <1>5. Filed' /\ OneClaimant' /\ Standing' /\ Ledger' /\ Answers'
    BY <1>1, <1>2, <1>3, <1>4
       DEF Filed, MarkedFirst, OneClaimant, Busy, Standing, Ledger, Answers, world, calls
  <1>6. Claimants'
    BY <1>1, <1>2 DEF Claimants, Work, Wire, world, calls
  <1>7. Readers'
    BY <1>1, <1>3, <1>4 DEF Readers, Reading, Fresh, calls
  <1>. QED BY <1>2, <1>5, <1>6, <1>7

\* A death: the calls of the process end, and what they had asked for may go on.
LEMMA CrashStep ==
    ASSUME IInv, NEW p \in Procs, Crash(p)
    PROVE  IInv'
  <1>. USE DEF IInv
  <1>. DEFINE D == {c \in Calls : proc[c] = p}
              cut(c) == proc[c] = p /\ rpc[c].st \in {"yes", "no", "stale"}
  <1>1. /\ up' = up \ {p} /\ Over(D)
        /\ rpc' = [c \in Calls |-> IF cut(c) THEN NoCall ELSE rpc[c]]
        /\ UNCHANGED <<kind, files, world, told>>
    BY DEF Crash
  <1>2. /\ \A c \in D : /\ pc'[c] = "done" /\ todo'[c] = {} /\ got'[c] = {}
        /\ \A c \in Calls \ D : /\ pc'[c] = pc[c] /\ todo'[c] = todo[c] /\ got'[c] = got[c]
                                /\ held'[c] = held[c] /\ out'[c] = out[c]
        /\ proc' = proc
    BY <1>1 DEF Over, OverAs
  <1>3. \A c \in Calls : rpc'[c] = rpc[c] \/ (c \in D /\ rpc'[c].st = "none")
    BY <1>1 DEF NoCall
  <1>4. \A c \in D : rpc'[c].st \notin {"yes", "no", "stale"}
    BY <1>1 DEF NoCall
  <1>5. Types'
    <2>1. pc' \in [Calls -> Labels] /\ held' \in [Calls -> Receipts] /\ out' \in [Calls -> Outcomes]
      BY <1>1, NoneIsTyped DEF Types, Over, OverAs, Labels
    <2>2. todo' \in [Calls -> SUBSET Roots] /\ got' \in [Calls -> SUBSET Roots]
      BY <1>1 DEF Types, Over, OverAs
    <2>3. rpc' \in [Calls -> [root : Roots \cup {Nobody}, st : CallStates]]
      BY <1>1 DEF Types, NoCall, CallStates
    <2>. HIDE DEF D, cut
    <2>. QED BY <1>1, <1>2, <2>1, <2>2, <2>3 DEF Types, files, world
  <1>. HIDE DEF cut
  <1>6. Acted' = Acted /\ Resolved' = Resolved
    BY <1>1 DEF Acted, Resolved, world
  <1>7. \A c \in Calls : Busy(c)' => Busy(c)
    BY <1>2, <1>3 DEF Busy, Working
  <1>8. (Quiet => Quiet') /\ (Dispatched' => Dispatched)
    <2>1. Quiet => Quiet'
      BY <1>1, <1>7, QuietStays DEF files, world
    <2>2. Dispatched' => Dispatched
      BY <1>1, <1>2, <1>3, <1>6 DEF Dispatched, world
    <2>. QED BY <2>1, <2>2
  <1>9. \A o : Holds(o) => Holds(o)'
    BY <1>1, <1>6, <1>8, HoldsStays DEF world
  <1>10. Filed'
    BY <1>1, <1>8, <1>9 DEF Filed, MarkedFirst, files
  <1>11. OneClaimant' /\ Standing'
    BY <1>1, <1>2, <1>7 DEF OneClaimant, Standing
  <1>12. Claimants'
    <2>1. ASSUME NEW c \in Calls, pc'[c] \in Working PROVE Work(c)'
      <3>1. c \notin D /\ pc[c] \in Working /\ rpc'[c] = rpc[c]
        BY <1>2, <1>3, <2>1 DEF Working
      <3>. QED BY <1>1, <1>2, <1>6, <3>1 DEF Claimants, Work, files, world
    <2>2. ASSUME NEW c \in Calls, rpc'[c].st # "none" PROVE Wire(c)'
      <3>1. rpc'[c] = rpc[c] /\ Wire(c)
        BY <1>3, <2>2 DEF Claimants
      <3>. QED BY <1>1, <1>2, <1>4, <1>6, <3>1 DEF Wire, files, world
    <2>. QED BY <2>1, <2>2 DEF Claimants
  <1>13. Ledger' /\ Answers'
    BY <1>1, <1>6, <1>9 DEF Ledger, Answers, world
  <1>14. Readers'
    <2>1. ASSUME NEW c \in Calls \ D PROVE Reading(c)'
      <3>1. PICK o \in Outcomes : o = out[c] /\ o = out'[c]
        BY <1>2 DEF Types
      <3>2. PICK h \in Receipts : h = held[c] /\ h = held'[c]
        BY <1>2 DEF Types
      <3>3. Fresh(h) => Fresh(h)'
        BY <1>8 DEF Fresh
      <3>4. kind = "start" /\ pc[c] = "look" => held[c].by \in up' \/ Fresh(held[c])
        <4>. SUFFICES ASSUME kind = "start", pc[c] = "look" PROVE held[c].by \in up' \/ Fresh(held[c])
          OBVIOUS
        <4>1. proc[c] \in up
          BY DEF Standing
        <4>2. p \in up
          BY DEF Crash
        <4>3. proc[c] # p
          OBVIOUS
        <4>. QED BY <4>1, <4>2, <4>3 DEF Standing
      <3>. QED BY <1>1, <1>2, <1>9, <3>1, <3>2, <3>3, <3>4 DEF Readers, Reading, files
    <2>2. ASSUME NEW c \in D PROVE Reading(c)'
      BY <1>2 DEF Reading, Working
    <2>. QED BY <2>1, <2>2 DEF Readers
  <1>. QED BY <1>5, <1>10, <1>11, <1>12, <1>13, <1>14

\* A service comes back: no call of the start lives any more.
LEMMA BootStep ==
    ASSUME IInv, NEW p \in Procs, Boot(p)
    PROVE  IInv'
  <1>. USE DEF IInv
  <1>. DEFINE settles == receipt.st = "accepted" /\ child = "running"
              o == Outcome("relaunched", {})
  <1>1. /\ kind = "start" /\ up = {} /\ up' = {p}
        /\ receipt' = IF settles THEN [receipt EXCEPT !.st = "completed", !.result = o] ELSE receipt
        /\ UNCHANGED <<kind, aged, world, calls, rpc, told>>
    BY DEF Boot
  <1>2. \A c \in Calls : pc[c] \in {"idle", "done", "threw"}
    BY <1>1 DEF Standing
  <1>3. o \in Outcomes /\ o # None /\ o.k = "relaunched"
    BY DEF Outcome, Outcomes, OutcomeKinds, None
  <1>. HIDE DEF o
  <1>4. /\ receipt' \in Receipts
        /\ receipt'.st \in {receipt.st, "completed"} /\ receipt'.by = receipt.by
        /\ receipt'.sent = receipt.sent
        /\ receipt'.st = "absent" <=> receipt.st = "absent"
        /\ receipt'.st \in {"accepted", "completed"} <=> receipt.st \in {"accepted", "completed"}
        /\ \/ receipt' = receipt
           \/ receipt'.st = "completed" /\ receipt'.result = o /\ child = "running"
    BY <1>1, <1>3 DEF Types, Receipts
  <1>5. Types' /\ Acted' = Acted /\ Resolved' = Resolved
    BY <1>1, <1>4 DEF Types, world, calls, Acted, Resolved
  <1>6. (\A c \in Calls : Busy(c)' <=> Busy(c)) /\ (Quiet => Quiet') /\ (Dispatched' => Dispatched)
    <2>1. \A c \in Calls : Busy(c)' <=> Busy(c)
      BY <1>1 DEF Busy, calls
    <2>2. Quiet => Quiet'
      BY <1>1, <1>4, <2>1, QuietStays DEF world
    <2>3. Dispatched' => Dispatched
      BY <1>1, <1>5 DEF Dispatched, world, calls
    <2>. QED BY <2>1, <2>2, <2>3
  <1>7. \A q : Holds(q) => Holds(q)'
    BY <1>1, <1>5, <1>6, HoldsStays DEF world
  <1>8. Filed'
    <2>1. child = "running" => Holds(o)'
      BY <1>1, <1>3 DEF Holds, OutcomeKinds, world
    <2>2. receipt'.st = "completed" <=> receipt'.result # None
      BY <1>3, <1>4 DEF Filed, MarkedFirst
    <2>3. PICK q \in Outcomes : q = receipt'.result
      BY <1>5 DEF Types, Receipts
    <2>4. receipt'.st = "completed" => Holds(q)'
      BY <1>4, <1>7, <2>1, <2>3 DEF Filed, MarkedFirst
    <2>. QED BY <1>4, <1>6, <2>2, <2>3, <2>4 DEF Filed, MarkedFirst
  <1>9. OneClaimant' /\ Standing'
    BY <1>1, <1>2, <1>6 DEF OneClaimant, Standing, calls
  <1>10. Claimants'
    BY <1>1, <1>2, <1>4, <1>5 DEF Claimants, Wire, Working, world, calls
  <1>11. Ledger' /\ Answers'
    BY <1>1, <1>5, <1>7 DEF Ledger, Answers, world
  <1>12. Readers'
    BY <1>1, <1>2 DEF Readers, Reading, calls, Working
  <1>. QED BY <1>5, <1>8, <1>9, <1>10, <1>11, <1>12

-----------------------------------------------------------------------------
(* The invariant.                                                          *)

LEMMA InitIInv == Init => IInv
  <1>. SUFFICES ASSUME Init PROVE IInv
    OBVIOUS
  <1>1. Types
    BY NoneIsTyped, RequestsAssumption
       DEF Init, Types, NoReceipt, NoCall, Labels, CallStates
  <1>2. /\ receipt.st = "absent" /\ receipt.by = Nobody /\ ~receipt.sent /\ receipt.result = None
        /\ child = "none" /\ Acted = {} /\ journal.accepted = {} /\ Resolved = {} /\ told = {}
        /\ journal.yes = {} /\ journal.no = {}
        /\ \A c \in Calls : /\ pc[c] = "idle" /\ rpc[c].st = "none"
                            /\ got[c] = {} /\ todo[c] = {}
    BY DEF Init, NoReceipt, NoCall, Acted, Resolved
  <1>3. ~Dispatched /\ \A c \in Calls : ~Busy(c)
    BY <1>2 DEF Dispatched, Busy, Working
  <1>4. Filed
    BY <1>2, <1>3, NobodyAssumption DEF Filed, MarkedFirst
  <1>5. Standing
    BY <1>2, RequestsAssumption DEF Standing, Init
  <1>6. OneClaimant /\ Claimants /\ Ledger /\ Readers /\ Answers
    BY <1>2, <1>3 DEF OneClaimant, Claimants, Working, Ledger, Readers, Reading, Answers
  <1>. QED BY <1>1, <1>4, <1>5, <1>6 DEF IInv

LEMMA StutterStep ==
    ASSUME IInv, UNCHANGED vars
    PROVE  IInv'
  <1>. USE DEF IInv
  <1>1. /\ UNCHANGED <<kind, receipt, aged, journal, coord, resets, moved, shown, child, up>>
        /\ UNCHANGED <<pc, proc, held, todo, got, out, rpc, told>>
    BY DEF vars, files, world, calls
  <1>2. Types' /\ Acted' = Acted /\ Resolved' = Resolved
    BY <1>1 DEF Types, Acted, Resolved
  <1>3. (Quiet <=> Quiet') /\ (Dispatched' <=> Dispatched)
    BY <1>1, <1>2 DEF Quiet, Busy, Dispatched
  <1>4. \A o : Holds(o) => Holds(o)'
    BY <1>1, <1>2, <1>3 DEF Holds
  <1>5. Filed' /\ OneClaimant' /\ Standing' /\ Ledger' /\ Answers'
    BY <1>1, <1>2, <1>3, <1>4 DEF Filed, MarkedFirst, OneClaimant, Busy, Standing, Ledger, Answers
  <1>6. Claimants'
    BY <1>1, <1>2 DEF Claimants, Work, Wire
  <1>7. Readers'
    BY <1>1, <1>3, <1>4 DEF Readers, Reading, Fresh
  <1>. QED BY <1>2, <1>5, <1>6, <1>7

LEMMA NextIInv ==
    ASSUME ~LostReplies, ~LateChild, IInv, [Next]_vars
    PROVE  IInv'
  <1>1. ASSUME NEW c \in Calls, NEW p \in Procs, Ask(c, p) PROVE IInv'
    BY <1>1, AskStep
  <1>2. ASSUME NEW c \in Calls, CallStep(c) PROVE IInv'
    BY <1>2, CreateStep, FillStep, FindStep, LookStep, ProbeStep, LookAgainStep,
       LookForStartStep, NewStep, MarkReadStep, MarkWriteStep, RerunStep, AnsweredStep,
       ReranStep, LaunchStep, LaunchEndsStep, CompleteReadStep, CompleteWriteStep
       DEF CallStep
  <1>3. ASSUME NEW c \in Calls, CoordinatorStep(c) PROVE IInv'
    BY <1>3, RouteStep, LaneAnswersStep, AppliedStep DEF CoordinatorStep
  <1>4. ASSUME NEW p \in Procs, Crash(p) \/ Boot(p) PROVE IInv'
    BY <1>4, CrashStep, BootStep
  <1>5. CASE CoordinatorStops \/ HistoryStops
    BY <1>5, StopsStep
  <1>6. CASE \/ \E r \in Guarded : OtherRestart(r) \/ Republished(r)
             \/ ChildRegisters \/ ChildExits
    BY <1>6, OthersStep
  <1>7. CASE GracePasses
    BY <1>7, GraceStep
  <1>8. CASE UNCHANGED vars
    BY <1>8, StutterStep
  <1>. QED BY <1>1, <1>2, <1>3, <1>4, <1>5, <1>6, <1>7, <1>8 DEF Next

-----------------------------------------------------------------------------
(* The theorems.                                                           *)

LEMMA IInvInv == IInv => Inv
  <1>. SUFFICES ASSUME IInv PROVE Inv
    OBVIOUS
  <1>1. TypeOK
    BY DEF IInv, Types, Receipts, Filed, Ledger, TypeOK
  <1>2. AnswersName
    BY DEF IInv, Answers, Holds, AnswersName
  <1>3. OneClaimant /\ MarkedFirst
    BY DEF IInv, Filed
  <1>. QED BY <1>1, <1>2, <1>3 DEF Inv

\* The files are typed, a live or partial answer is true of the run for good, one
\* presentation at most is at work on the id, and whatever is done for it was
\* marked on the receipt first: for every number of calls, processes, hosts and
\* roots, as long as no lane's "yes" is lost and no launch is given up too early
\* (receipts.ts claimReceipt and markDispatched, recovery.ts tryLive).
THEOREM AnswersStayTrue ==
    ASSUME ~LostReplies, ~LateChild
    PROVE  Spec => []Inv
  <1>1. Init => IInv
    BY InitIInv
  <1>2. IInv /\ [Next]_vars => IInv'
    BY NextIInv
  <1>3. IInv => Inv
    BY IInvInv
  <1>. QED BY <1>1, <1>2, <1>3, PTL DEF Spec

\* What a step of a call does to the effects and to what callers were told.
LEMMA CallEffects ==
    ASSUME IInv, NEW c \in Calls, CallStep(c)
    PROVE  /\ UNCHANGED resets
           /\ child' = child \/ (child = "none" /\ child' = "starting")
           /\ told' = told \/ (child' = child /\ \E o : told' = told \cup {o})
  <1>1. CASE CreateReceipt(c) \/ FillReceipt(c) \/ MarkRead(c) \/ MarkWrite(c) \/ Dial(c)
    BY <1>1 DEF CreateReceipt, FillReceipt, MarkRead, MarkWrite, Dial, Throw, world
  <1>2. CASE Launch(c)
    <2>1. child = "none"
      BY <1>2 DEF Launch, IInv, Claimants, Work, Working
    <2>. QED BY <1>2, <2>1 DEF Launch
  <1>3. CASE StartChecks(c) \/ Guard(c) \/ Relaunch(c) \/ LaunchEnds(c)
    BY <1>3 DEF StartChecks, Guard, Relaunch, LaunchEnds, Finish, world
  <1>4. CASE Rerun(c)
    BY <1>4 DEF Rerun, Throw, world
  <1>5. CASE Answered(c)
    <2>1. rpc[c].st \in {"none", "yes", "no", "stale"}
      BY <1>5 DEF Answered, IInv, Claimants, Wire
    <2>. QED BY <1>5, <2>1 DEF Answered, Throw, Finish, world
  <1>6. CASE Reran(c)
    BY <1>6 DEF Reran, Finish, world
  <1>7. CASE FindReceipt(c)
    <2>1. receipt.st \in {"torn", "completed", "accepted"}
      BY <1>7 DEF FindReceipt, IInv, Types, Receipts
    <2>. QED BY <1>7, <2>1 DEF FindReceipt, End, Tell, world
  <1>8. ASSUME NEW r \in Receipts, Conclude(c, Evidence(r)), Evidence(r) # None
        PROVE  told' = told
    BY <1>8, EvidenceHolds DEF Conclude, End, Finish
  <1>9. CASE Look(c)
    <2>1. held[c] \in Receipts
      BY DEF IInv, Types
    <2>. QED BY <1>8, <1>9, <2>1 DEF Look, End, world
  <1>10. CASE Probe(c)
    BY <1>10 DEF Probe, End, world
  <1>11. CASE LookAgain(c)
    <2>1. receipt \in Receipts
      BY DEF IInv, Types
    <2>. QED BY <1>8, <1>11, <2>1 DEF LookAgain, Tell, world
  <1>12. CASE LookForStart(c)
    BY <1>12 DEF LookForStart, Finish, End, Tell, world
  <1>13. CASE CompleteRead(c) \/ CompleteWrite(c)
    BY <1>13 DEF CompleteRead, CompleteWrite, Tell, world
  <1>. QED BY <1>1, <1>2, <1>3, <1>4, <1>5, <1>6, <1>7, <1>9, <1>10, <1>11, <1>12, <1>13
           DEF CallStep

\* The refinement mapping of Requests, by name.
Effect ==
    CASE child = "running" /\ Acted = {} -> "run"
      [] child # "running" /\ Acted # {} /\ \A r \in Roots : resets[r] <= 1 -> "live"
      [] child # "running" /\ Acted = {} -> "none"
      [] OTHER -> "both"
Kinds == {o.k : o \in told}

LEMMA Mapping ==
    /\ Abstract!vars = <<Effect, Kinds>>
    /\ Abstract!vars' = <<Effect, Kinds>>'
    /\ Abstract!Act <=>
         /\ Effect = "none" /\ Kinds \cap Abstract!Closing = {}
         /\ Effect' = "live" \/ (Effect' = "run" /\ "moved" \notin Kinds)
         /\ UNCHANGED Kinds
    /\ \A k : Abstract!True(k) <=>
                CASE k \in {"live", "partial"} -> Effect = "live"
                  [] k = "relaunched" -> Effect = "run"
                  [] k = "moved" -> Effect \in {"none", "live"}
                  [] k \in Abstract!Closing -> Effect = "none"
    /\ \A k : Abstract!Answer(k) <=> Abstract!True(k) /\ Kinds' = Kinds \cup {k} /\ UNCHANGED Effect
  <1>1. Abstract!vars = <<Effect, Kinds>> /\ Abstract!vars' = <<Effect, Kinds>>'
    BY DEF Abstract!vars, Effect, Kinds
  <1>2. Abstract!Act <=>
         /\ Effect = "none" /\ Kinds \cap Abstract!Closing = {}
         /\ Effect' = "live" \/ (Effect' = "run" /\ "moved" \notin Kinds)
         /\ UNCHANGED Kinds
    BY DEF Abstract!Act, Effect, Kinds
  <1>3. ASSUME NEW k
        PROVE  Abstract!True(k) <=>
                CASE k \in {"live", "partial"} -> Effect = "live"
                  [] k = "relaunched" -> Effect = "run"
                  [] k = "moved" -> Effect \in {"none", "live"}
                  [] k \in Abstract!Closing -> Effect = "none"
    BY DEF Abstract!True, Effect
  <1>4. ASSUME NEW k
        PROVE  Abstract!Answer(k) <=> Abstract!True(k) /\ Kinds' = Kinds \cup {k} /\ UNCHANGED Effect
    BY DEF Abstract!Answer, Effect, Kinds
  <1>. QED BY <1>1, <1>2, <1>3, <1>4

\* Every step is a step of OneEffect, or changes nothing that it speaks of.
LEMMA StepSimulation ==
    ASSUME ~LostReplies, IInv, IInv', [Next]_vars
    PROVE  [Abstract!Next]_(Abstract!vars)
  <1>1. /\ Effect = IF child = "running" THEN "run" ELSE IF Acted = {} THEN "none" ELSE "live"
        /\ Effect' = IF child' = "running" THEN "run" ELSE IF Acted' = {} THEN "none" ELSE "live"
    <2>1. resets \in [Roots -> {0, 1}] /\ resets' \in [Roots -> {0, 1}]
      BY DEF IInv, Types
    <2>2. (child = "running" => Acted = {}) /\ (child' = "running" => Acted' = {})
      BY DEF IInv, Ledger
    <2>. QED BY <2>1, <2>2 DEF Effect
  <1>2. ASSUME Acted' = Acted, child' = "running" <=> child = "running", told' = told
        PROVE  UNCHANGED Abstract!vars
    BY <1>1, <1>2, Mapping DEF Kinds
  <1>3. ASSUME Acted' = Acted, child' = child, NEW o, told' = told \cup {o}
        PROVE  Abstract!Next
    <2>1. o \in Outcomes /\ Holds(o)'
      BY <1>3 DEF IInv, Types, Answers
    <2>2. /\ o.k \in Abstract!Kinds
          /\ o.k \in {"live", "partial"} => Acted # {}
          /\ o.k = "relaunched" => child = "running"
          /\ o.k \in {"moved", "refused", "nothing"} => child # "running"
          /\ o.k \in {"refused", "nothing"} => Acted = {}
      BY <1>3, <2>1 DEF Holds, Quiet, OutcomeKinds, Abstract!Kinds
    <2>3. Kinds' = Kinds \cup {o.k} /\ Effect' = Effect
      BY <1>1, <1>3 DEF Kinds
    <2>4. child = "running" => Acted = {}
      BY DEF IInv, Ledger
    <2>5. Abstract!True(o.k)
      <3>1. CASE o.k \in {"live", "partial"}
        BY <1>1, <2>2, <2>4, <3>1, Mapping DEF Abstract!Closing
      <3>2. CASE o.k = "relaunched"
        BY <1>1, <2>2, <3>2, Mapping DEF Abstract!Closing
      <3>3. CASE o.k = "moved"
        BY <1>1, <2>2, <3>3, Mapping DEF Abstract!Closing
      <3>4. CASE o.k \in {"refused", "nothing"}
        BY <1>1, <2>2, <3>4, Mapping DEF Abstract!Closing
      <3>. QED BY <2>2, <3>1, <3>2, <3>3, <3>4 DEF Abstract!Kinds
    <2>. QED BY <2>2, <2>3, <2>5, Mapping DEF Abstract!Next
  <1>4. ASSUME ~Quiet PROVE \A k \in Kinds : k \notin {"moved", "refused", "nothing"}
    BY <1>4 DEF IInv, Answers, Holds, Kinds
  <1>5. ASSUME NEW c \in Calls, LaneAnswers(c)
        PROVE  [Abstract!Next]_(Abstract!vars)
    <2>1. told' = told /\ child' = child /\ child = "none" /\ ~Quiet /\ rpc[c].root \in Roots
      <3>1. rpc[c].st = "accepted" /\ told' = told /\ child' = child
        BY <1>5 DEF LaneAnswers, Handling, served
      <3>. QED BY <3>1 DEF IInv, Claimants, Wire, Quiet, Busy
    <2>2. Kinds' = Kinds
      BY <2>1 DEF Kinds
    <2>3. CASE resets' = resets
      BY <1>2, <2>1, <2>3 DEF Acted
    <2>4. CASE resets' = [resets EXCEPT ![rpc[c].root] = @ + 1]
      <3>1. Acted' # {} /\ Acted \subseteq Acted'
        BY <2>1, <2>4 DEF IInv, Types, Acted
      <3>2. CASE Acted = {}
        <4>1. Abstract!Act
          BY <1>1, <1>4, <2>1, <2>2, <3>1, <3>2, Mapping DEF Abstract!Closing
        <4>. QED BY <4>1 DEF Abstract!Next
      <3>3. CASE Acted # {}
        BY <1>1, <2>1, <2>2, <3>1, <3>3, Mapping
      <3>. QED BY <3>2, <3>3
    <2>. QED BY <1>5, <2>3, <2>4 DEF LaneAnswers
  <1>6. CASE ChildRegisters
    <2>1. child = "starting" /\ child' = "running" /\ told' = told /\ resets' = resets
      BY <1>6 DEF ChildRegisters, served
    <2>2. ~Quiet /\ Acted = {} /\ Kinds' = Kinds
      BY <2>1 DEF Quiet, IInv, Ledger, Kinds
    <2>3. Abstract!Act
      BY <1>1, <1>4, <2>1, <2>2, Mapping DEF Abstract!Closing
    <2>. QED BY <2>3 DEF Abstract!Next
  <1>7. ASSUME NEW c \in Calls, CallStep(c)
        PROVE  [Abstract!Next]_(Abstract!vars)
    <2>1. /\ Acted' = Acted
          /\ child' = "running" <=> child = "running"
          /\ told' = told \/ (child' = child /\ \E o : told' = told \cup {o})
      BY <1>7, CallEffects DEF Acted
    <2>2. CASE told' = told
      BY <1>2, <2>1, <2>2
    <2>3. CASE child' = child /\ \E o : told' = told \cup {o}
      BY <1>3, <2>1, <2>3
    <2>. QED BY <2>1, <2>2, <2>3
  <1>8. ASSUME NEW c \in Calls, Route(c) \/ Applied(c)
        PROVE  UNCHANGED Abstract!vars
    BY <1>2, <1>8 DEF Route, Applied, served, Acted
  <1>9. CASE \/ \E c \in Calls, p \in Procs : Ask(c, p)
             \/ \E r \in Guarded : OtherRestart(r) \/ Republished(r)
             \/ \E p \in Procs : Crash(p) \/ Boot(p)
             \/ CoordinatorStops \/ HistoryStops \/ ChildExits \/ GracePasses
             \/ UNCHANGED vars
    <2>1. UNCHANGED <<resets, told>> /\ (child' = "running" <=> child = "running")
      BY <1>9 DEF Ask, OtherRestart, Republished, Crash, Boot, CoordinatorStops, HistoryStops,
                  ChildExits, GracePasses, served, world, vars
    <2>. QED BY <1>2, <2>1 DEF Acted
  <1>. QED BY <1>5, <1>6, <1>7, <1>8, <1>9 DEF Next, CoordinatorStep

\* "A lost reply is reconciled, never repeated" (recovery.ts): of its two
\* effects a request has at most one, and no answer given for it is ever false.
THEOREM OneEffectRefined ==
    ASSUME ~LostReplies, ~LateChild
    PROVE  Spec => ImplementsOneEffect
  <1>1. Init => IInv /\ Abstract!Init
    <2>1. Init => Acted = {} /\ child = "none" /\ told = {}
      BY DEF Init, Acted
    <2>. QED BY <2>1, InitIInv DEF Abstract!Init
  <1>2. IInv /\ [Next]_vars => IInv'
    BY NextIInv
  <1>3. IInv /\ IInv' /\ [Next]_vars => [Abstract!Next]_(Abstract!vars)
    BY StepSimulation
  <1>. QED BY <1>1, <1>2, <1>3, PTL DEF Spec, ImplementsOneEffect, Abstract!Spec

\* Nodes of the live run are reset or a new run is started, never both for one
\* request (recovery.ts): what requests_doubled shows broken once replies are lost.
THEOREM NeverBothKept ==
    ASSUME ~LostReplies, ~LateChild
    PROVE  Spec => []NeverBoth
  <1>1. Init => IInv
    BY InitIInv
  <1>2. IInv /\ [Next]_vars => IInv'
    BY NextIInv
  <1>3. IInv => NeverBoth
    BY DEF IInv, Ledger, NeverBoth
  <1>. QED BY <1>1, <1>2, <1>3, PTL DEF Spec
=============================================================================
