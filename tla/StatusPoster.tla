---------------------------- MODULE StatusPoster ----------------------------
(***************************************************************************)
(* How a run's verdicts reach GitHub: the StatusPoster of                  *)
(* execution/src/coordinator/statuses.ts, with the callers that drive it   *)
(* (the node transitions and the two ends of a run, coordinator/run.ts).   *)
(*                                                                         *)
(* One entry per status context holds what the run WANTS GitHub to say     *)
(* (`desired') and what the last finished send says it DOES say            *)
(* (`confirmed'); a wake timer per entry debounces or backs off; one       *)
(* promise chain (`queue') sends one status at a time.  What the wire does *)
(* with a send is the environment's: it arrives, or it fails and, where    *)
(* Landing holds, may have arrived all the same (the sender was killed at  *)
(* its timeout with the request already out).                              *)
(*                                                                         *)
(* A payload stands for a status and its exact wording: "run" is the one   *)
(* non-terminal state GitHub calls `pending', "ok" and "bad" a verdict,    *)
(* "gone" the verdict of a node dropped before it started, "err" the       *)
(* interrupt's.  Attempt counts, delays and error texts are left out: they *)
(* decide when a retry comes and what is printed, not what is sent.        *)
(***************************************************************************)
EXTENDS Naturals, Sequences, SequencesExt, FiniteSets

CONSTANTS Contexts,     \* the status contexts on the commit
          Seeds,        \* what GitHub may show before the run, and None
          MaxMoves,    \* how often nodes start or are dropped: a bound
          Landing,      \* may a send reported as failed have arrived?
          DropReruns    \* may a rerun be dropped before it starts?

ASSUME PosterAssumption ==
    /\ IsFiniteSet(Contexts) /\ MaxMoves \in Nat
    /\ Seeds \subseteq {"none", "run", "ok", "bad", "gone", "err"}
    /\ {Landing, DropReruns} \subseteq BOOLEAN

None == "none"
Payloads == {"run", "ok", "bad", "gone", "err"}
Ends == {"none", "done", "cancel", "lease"}

VARIABLES github,     \* what GitHub shows for each context
          posts,      \* ContextPost of each context
          queue,      \* sends chained and not finished, the current one first
          sending,    \* `inFlight': the payload on the wire, or None
          phase,      \* "seeding", then PosterPhase
          attempted,  \* finalize's (context, payload) marks
          awaited,    \* how much of the queue finalize's current await covers
          ending,     \* how the run ended, if it has begun to
          node,       \* "idle", "run" or "done", the coordinator's node
          last,       \* the last payload the node's own transitions posted
          moves

poster == <<posts, queue, sending, phase, attempted, awaited>>
nodes == <<node, last, moves>>
vars == <<github, poster, ending, nodes>>

-----------------------------------------------------------------------------
(* ContextPost *)

NoPost == [desired |-> None, confirmed |-> None, wake |-> FALSE, owned |-> FALSE]

\* owedDesired: a desired payload no send has confirmed
Owed(p) == p.desired # None /\ p.desired # p.confirmed
Owing == {c \in Contexts : Owed(posts[c])}

\* settleDesired: the wanted payload is shown, nothing is left to wake for
Settled(p) == [p EXCEPT !.desired = None, !.wake = FALSE]

Flying(c) == sending # None /\ Head(queue) = c

\* A bug: dedup against a `confirmed' that a send on the wire is about to change.
Redundant_Flying(c, x) == posts[c].confirmed = x

\* post's dedup: GitHub shows exactly this, and nothing is about to change it
Redundant(c, x) == ~Flying(c) /\ posts[c].confirmed = x

\* What post() leaves of the entry.  A redundant post drops an older pending
\* that waits behind it and keeps an older terminal; any other one is wanted,
\* after a debounce unless the poster is finalizing.
Posted(c, x) ==
    LET p == [posts[c] EXCEPT !.owned = TRUE]
    IN  CASE ~Redundant(c, x) -> [p EXCEPT !.desired = x, !.wake = (phase = "open")]
          [] Redundant(c, x) /\ p.desired \in {x, "run"} -> Settled(p)
          [] OTHER -> p

Post(c, x) ==
    /\ posts' = [posts EXCEPT ![c] = Posted(c, x)]
    /\ queue' = IF phase = "finalizing" /\ ~Redundant(c, x)
                THEN Append(queue, c) ELSE queue
    /\ UNCHANGED <<sending, phase, attempted, awaited>>

\* Bugs: a seeded context counts as the run's own; what GitHub shows is not asked.
PendingContexts_Seeded ==
    {c \in Contexts :
        \/ posts[c].desired = "run"
        \/ (posts[c].confirmed = "run" /\ posts[c].desired = None)}

\* Contexts of this run still pending: the interrupt's worklist
PendingContexts ==
    {c \in Contexts :
        /\ posts[c].owned
        /\ \/ posts[c].desired = "run"
           \/ (posts[c].confirmed = "run" /\ posts[c].desired = None)}

Init ==
    /\ github \in [Contexts -> Seeds]
    /\ posts = [c \in Contexts |-> NoPost]
    /\ queue = <<>> /\ sending = None
    /\ phase = "seeding" /\ attempted = {} /\ awaited = 0
    /\ ending = "none"
    /\ node = [c \in Contexts |-> "idle"]
    /\ last = [c \in Contexts |-> None]
    /\ moves = 0

-----------------------------------------------------------------------------
(* The run: node transitions, each posted as it is observed *)

\* seed: `confirmed' is what GitHub lists; a failed listing seeds nothing.
\* No node posts before it has answered.
Seed ==
    /\ phase = "seeding"
    /\ phase' = "open"
    /\ \/ posts' = [c \in Contexts |-> [NoPost EXCEPT !.confirmed = github[c]]]
       \/ UNCHANGED posts
    /\ UNCHANGED <<github, queue, sending, attempted, awaited, ending, nodes>>

\* An ordinary interrupt closes the lanes after finalize, a lost lease before.
\* A drain that awaits nothing ends before anything else is heard.
LanesOpen ==
    \/ phase = "open"
    \/ (phase = "finalizing" /\ ending = "cancel" /\ awaited > 0)

NodeStarts(c) ==
    /\ LanesOpen
    /\ node[c] # "run" /\ moves < MaxMoves
    /\ node' = [node EXCEPT ![c] = "run"]
    /\ moves' = moves + 1
    /\ last' = [last EXCEPT ![c] = "run"]
    /\ Post(c, "run")
    /\ UNCHANGED <<github, ending>>

NodeEnds(c) ==
    /\ LanesOpen
    /\ node[c] = "run"
    /\ node' = [node EXCEPT ![c] = "done"]
    /\ \E x \in {"ok", "bad"} : Post(c, x) /\ last' = [last EXCEPT ![c] = x]
    /\ UNCHANGED <<github, ending, moves>>

\* A node dropped before it starts is cancelled without ever being `running'.
NodeDropped(c) ==
    /\ LanesOpen /\ moves < MaxMoves
    /\ \/ node[c] = "idle"
       \/ (DropReruns /\ node[c] = "done" /\ last[c] # "gone")
    /\ node' = [node EXCEPT ![c] = "done"]
    /\ last' = [last EXCEPT ![c] = "gone"]
    /\ Post(c, "gone")
    /\ moves' = moves + 1
    /\ UNCHANGED <<github, ending>>

-----------------------------------------------------------------------------
(* finalize *)

\* A bug: the drain attempts whatever is owed, again and again.
Fresh_Unmarked(ps, marks) == {c \in Contexts : Owed(ps[c])}

Fresh(ps, marks) == {c \in Contexts : Owed(ps[c]) /\ <<c, ps[c].desired>> \notin marks}

\* One pass of finalize's loop from entries ps and queue q: every owed payload
\* not attempted yet is marked and chained, and the queue so far is awaited.
Pass(ps, q, marks) ==
    LET fresh == Fresh(ps, marks)
    IN  /\ attempted' = marks \cup {<<c, ps[c].desired>> : c \in fresh}
        /\ queue' = q \o SetToSeq(fresh)
        /\ awaited' = Len(queue')

\* Up to finalize's first await: the armed wakes are turned into sends.
Finalize(ps) ==
    LET awake == {c \in Contexts : ps[c].wake}
        calm  == [c \in Contexts |-> [ps[c] EXCEPT !.wake = FALSE]]
    IN  /\ phase' = "finalizing"
        /\ posts' = calm
        /\ Pass(calm, queue \o SetToSeq(awake), {})

\* The run ends by itself: nothing is left running and the lanes are closed.
RunEnds ==
    /\ phase = "open"
    /\ \A c \in Contexts : node[c] # "run"
    /\ ending' = "done"
    /\ Finalize(posts)
    /\ UNCHANGED <<github, sending, nodes>>

\* shutdown: an interrupt posts an error for every context still pending and
\* finalizes in the same turn.
Interrupt(how) ==
    /\ phase = "open"
    /\ ending' = how
    /\ Finalize([c \in Contexts |->
                    IF c \in PendingContexts THEN Posted(c, "err") ELSE posts[c]])
    /\ UNCHANGED <<github, sending, nodes>>

\* The await is over: another pass if the queue grew or something is fresh.
DrainAgain ==
    /\ phase = "finalizing" /\ awaited = 0
    /\ queue # <<>> \/ Fresh(posts, attempted) # {}
    /\ Pass(posts, queue, attempted)
    /\ UNCHANGED <<github, posts, sending, phase, ending, nodes>>

Closes ==
    /\ phase = "finalizing" /\ awaited = 0
    /\ queue = <<>> /\ Fresh(posts, attempted) = {}
    /\ phase' = "closed"
    /\ posts' = [c \in Contexts |-> [posts[c] EXCEPT !.wake = FALSE]]
    /\ UNCHANGED <<github, queue, sending, attempted, awaited, ending, nodes>>

-----------------------------------------------------------------------------
(* The timers and the queue *)

Wakes(c) ==
    /\ phase = "open" /\ posts[c].wake
    /\ posts' = [posts EXCEPT ![c].wake = FALSE]
    /\ queue' = Append(queue, c)
    /\ UNCHANGED <<github, sending, phase, attempted, awaited, ending, nodes>>

\* sendLatest's last act: the next of the chain is current
Dequeue(grown) ==
    /\ queue' = Tail(grown)
    /\ awaited' = IF awaited = 0 THEN 0 ELSE awaited - 1

\* sendLatest with nothing owed any more: a stale desired is dropped.
SendNothing ==
    /\ queue # <<>> /\ sending = None
    /\ LET c == Head(queue)
       IN  /\ ~Owed(posts[c])
           /\ posts' = [posts EXCEPT ![c] = IF @.desired = None THEN @ ELSE Settled(@)]
    /\ Dequeue(queue)
    /\ UNCHANGED <<github, sending, phase, attempted, ending, nodes>>

SendStarts ==
    /\ queue # <<>> /\ sending = None
    /\ Owed(posts[Head(queue)])
    /\ sending' = posts[Head(queue)].desired
    /\ UNCHANGED <<github, posts, queue, phase, attempted, awaited, ending, nodes>>

\* ensureWake for the current context: desired moved while its send was out
FollowUp(p) ==
    LET c == Head(queue)
    IN  /\ posts' = [posts EXCEPT ![c] = [p EXCEPT !.wake = (@ \/ phase = "open")]]
        /\ Dequeue(IF phase = "finalizing" /\ ~p.wake THEN Append(queue, c) ELSE queue)

Moved == posts[Head(queue)].desired \notin {None, sending}

SendLands ==
    /\ sending # None
    /\ github' = [github EXCEPT ![Head(queue)] = sending]
    /\ LET c == Head(queue)
           p == [posts[c] EXCEPT !.confirmed = sending]
       IN  IF Moved THEN FollowUp(p)
           ELSE posts' = [posts EXCEPT ![c] = Settled(p)] /\ Dequeue(queue)
    /\ sending' = None
    /\ UNCHANGED <<phase, attempted, ending, nodes>>

\* A bug: the failure is counted and no retry armed.
SendFails_NoBackoff ==
    /\ sending # None
    /\ IF Moved THEN FollowUp(posts[Head(queue)])
       ELSE UNCHANGED posts /\ Dequeue(queue)
    /\ sending' = None
    /\ UNCHANGED <<github, phase, attempted, ending, nodes>>

\* The send is reported as failed.  While the run lives it is retried after a
\* backoff; finalize makes one attempt and leaves the debt.
SendFails ==
    /\ sending # None
    /\ \/ UNCHANGED github
       \/ (Landing /\ github' = [github EXCEPT ![Head(queue)] = sending])
    /\ IF Moved THEN FollowUp(posts[Head(queue)])
       ELSE /\ posts' = [posts EXCEPT ![Head(queue)].wake = (phase = "open")]
            /\ Dequeue(queue)
    /\ sending' = None
    /\ UNCHANGED <<phase, attempted, ending, nodes>>

\* The record is written and the process exits.
Exited == phase = "closed" /\ UNCHANGED vars

Queue == SendNothing \/ SendStarts \/ SendLands \/ SendFails
Drain == DrainAgain \/ Closes

Next ==
    \/ Seed \/ RunEnds \/ Drain \/ Queue \/ Exited
    \/ \E how \in {"cancel", "lease"} : Interrupt(how)
    \/ \E c \in Contexts : NodeStarts(c) \/ NodeEnds(c) \/ NodeDropped(c) \/ Wakes(c)

Spec == Init /\ [][Next]_vars

\* Every send is answered within its timeout, so the chain keeps moving; the
\* drain is the same event loop.  No timer, node or operator owes anything.
FairSpec == Spec /\ WF_vars(Queue) /\ WF_vars(Drain)

-----------------------------------------------------------------------------
(* Properties *)

\* The types; a timer and finalize's marks exist in their phases only.
TypeOK ==
    /\ github \in [Contexts -> Payloads \cup {None}]
    /\ posts \in [Contexts -> [desired : Payloads \cup {None},
                               confirmed : Payloads \cup {None},
                               wake : BOOLEAN, owned : BOOLEAN]]
    /\ queue \in Seq(Contexts) /\ sending \in Payloads \cup {None}
    /\ sending # None => queue # <<>>
    /\ phase \in {"seeding", "open", "finalizing", "closed"}
    /\ \A c \in Contexts : posts[c].wake => phase = "open"
    /\ attempted \subseteq Contexts \X Payloads
    /\ awaited \in 0 .. Len(queue)
    /\ ending \in Ends /\ (ending = "none") = (phase \in {"seeding", "open"})
    /\ node \in [Contexts -> {"idle", "run", "done"}]
    /\ last \in [Contexts -> Payloads \cup {None}]
    /\ moves \in 0 .. MaxMoves

\* While the run lives, a status it owes is never forgotten: a timer will send
\* it or it is in the queue, whatever order posts, sends and failures came in
\* (post, ensureWake, the backoff of sendLatest).
NoLostWake ==
    phase = "open" => \A c \in Owing : posts[c].wake \/ c \in ToSet(queue)

\* When the poster has closed, a node that finished shows its own last verdict
\* on GitHub, or the run's record says that the status is owed.  Only a node
\* that finished while a cancelled run drained may show the interrupt's error.
FinishedIsShown ==
    phase = "closed" => \A c \in Contexts : last[c] \notin {None, "run"} =>
        \/ github[c] = last[c]
        \/ Owed(posts[c])
        \/ (ending = "cancel" /\ github[c] = "err")

\* A run that ended by itself or by losing its lease leaves none of its own
\* contexts "Running" without saying so in its record (shutdown, finalize).
NothingStranded ==
    phase = "closed" /\ ending # "cancel" => \A c \in Contexts :
        posts[c].owned /\ github[c] = "run" => Owed(posts[c])

\* What shutdown's comment says of every interrupt: it strands no context.
InterruptStrandsNothing ==
    phase = "closed" => \A c \in Contexts :
        posts[c].owned /\ github[c] = "run" => Owed(posts[c])

\* A context none of this run's nodes reached is never written: a pending check
\* of another program, seeded like any other, is not the interrupt's to fail.
ForeignUntouched ==
    [][\A c \in Contexts : last[c] = None => github'[c] = github[c]]_vars

\* The final drain always ends, however many of its sends fail.
FinalizeEnds == phase = "finalizing" ~> phase = "closed"

\* While the run lives the entries are typed and nothing owed is forgotten, in
\* whatever order posts, sends and failures come.
Inv == TypeOK /\ NoLostWake

\* Once the poster has closed GitHub shows the last verdict of every node that
\* finished and "Running" of none, unless the record says what is owed.
ClosesTrue == FinishedIsShown /\ NothingStranded
=============================================================================
