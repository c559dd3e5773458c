---------------------------- MODULE CacheBucket ----------------------------
(***************************************************************************)
(* One bucket of the binary cache: its rows and pins (the database), the   *)
(* NARs in its object store, and everything that changes them.  Pushes     *)
(* (staging.ts recordSerially, cache.ts recordNow), pins, the collection   *)
(* (gc.ts) and the flip of a move between stores (migrateStore.ts) hold    *)
(* the cache's one write lock; the `missing' query, the copier of a move   *)
(* and the self-proof pass (cache.ts proveSelfNow) do not.                 *)
(*                                                                         *)
(* The daemon is one event loop: an action is the code from one await to   *)
(* the next.  The lock is a queue in the code; what a task does before it  *)
(* holds the lock is only to remember where the bucket was, so the order   *)
(* of waiting tasks is left open here.                                     *)
(***************************************************************************)
EXTENDS Naturals, FiniteSets

CONSTANTS Paths,
          Nars, HashOf,        \* object keys (NarHash and compression), NarHashes
          Infos,               \* the narinfos that may be pushed of each path
          Stores, Pins,        \* declared stores, pin names
          Pushers,             \* pushes that may be in flight at once
          Old,                 \* what is held from before, its CA unproved
          Direct,              \* do clients upload straight to the store?
          Retention, MaxClock, \* in days
          MaxPushes, MaxCollections, MaxMoves, MaxCrashes,
          MaxRounds            \* copy passes before the flip (10 in the code)

ASSUME CacheAssumption ==
    /\ IsFiniteSet(Paths) /\ Stores # {}
    /\ Infos \in [Paths -> SUBSET [nar : Nars, refs : SUBSET Paths]]
    /\ DOMAIN Old \subseteq Paths /\ \A p \in DOMAIN Old : Old[p] \in Infos[p]
    /\ Direct \in BOOLEAN
    /\ {Retention, MaxClock, MaxPushes, MaxCollections, MaxMoves,
        MaxCrashes, MaxRounds} \subseteq Nat

Nobody == "nobody"
ASSUME CacheNames == Nobody \notin Pushers /\ "gc" \notin Pushers /\ "mover" \notin Pushers

VARIABLES home,    \* the store the bucket's row names
          rows,    \* what the database holds of each path
          pins,    \* the paths each pin was resolved to; {} is no pin
          nars,    \* the NARs each store holds
          clock,
          writer,  \* who holds the write lock
          push,    \* each push in flight
          gc,      \* the collection
          move,    \* the bucket_migration row
          mover,   \* the copier that works on it
          prover,  \* the self-proof pass
          used,    \* how often each bounded event happened
          stored,  \* history: when each held path was last pushed
          asked,   \* history: paths asked about since the plan was made
          stale    \* history: rows that a snapshot has undone, see ProofWrite

tasks == <<push, gc, mover, prover>>
history == <<stored, asked, stale>>
vars == <<home, rows, pins, nars, clock, writer, tasks, move, used, history>>

(* A row: when it was last wanted, whether its CA was proved, and what the *)
(* narinfo said that was recorded last.                                    *)
NoInfo == [nar |-> "none", refs |-> {}]
NoRow == [wanted |-> 0, held |-> FALSE, proved |-> FALSE, info |-> NoInfo]
Row == [wanted : 0 .. MaxClock, held : BOOLEAN, proved : BOOLEAN,
        info : [nar : Nars \cup {"none"}, refs : SUBSET Paths]]
Held == {p \in Paths : rows[p].held}

NoPush == [at |-> "idle"]
NoGc == [at |-> "idle", store |-> "none", plan |-> {}, nar |-> {}]
NoMove == [state |-> "none", from |-> "none", to |-> "none"]
Stopped == [at |-> "idle", todo |-> {}, open |-> {}, wrote |-> FALSE, round |-> 0]
NoProof == [todo |-> {}, read |-> {}, seen |-> [p \in {} |-> NoRow]]

Free == writer = Nobody
Count(event) == used' = [used EXCEPT ![event] = @ + 1]

(* The bucket's NARs, by the rows: twins share one. *)
Named == {rows[p].info.nar : p \in Held}

(* Every path reached from `roots' through the references of some rows:    *)
(* the least set that holds the roots and is closed under them.            *)
Closed(C, known) == \A q \in C \cap known : rows[q].info.refs \subseteq C
Reached(roots, known) ==
    {p \in Paths : \A C \in SUBSET Paths :
        roots \subseteq C /\ Closed(C, known) => p \in C}
closureOf(roots) == Reached(roots, Held)

expired(p) == clock - rows[p].wanted > Retention

\* Mutant: the references of fresh rows are not followed.
PlanGc_NoReferences ==
    {p \in Held : expired(p) /\ p \notin closureOf(UNION {pins[k] : k \in Pins})}

(* What a collection evicts: expired, and reached neither from a row that  *)
(* is not expired nor from a pin.                                          *)
planGc == {p \in Held : /\ expired(p)
                        /\ p \notin closureOf({q \in Held : ~expired(q)})
                        /\ p \notin closureOf(UNION {pins[k] : k \in Pins})}

Init ==
    /\ home = CHOOSE s \in Stores : TRUE   \* which one does not matter
    /\ rows = [p \in Paths |->
                 IF p \in DOMAIN Old
                 THEN [wanted |-> 0, held |-> TRUE, proved |-> FALSE, info |-> Old[p]]
                 ELSE NoRow]
    /\ pins = [k \in Pins |-> {}]
    /\ nars = [s \in Stores |-> IF s = home THEN {Old[p].nar : p \in DOMAIN Old} ELSE {}]
    /\ clock = 0 /\ writer = Nobody
    /\ push = [u \in Pushers |-> NoPush]
    /\ gc = NoGc /\ move = NoMove /\ mover = Stopped /\ prover = NoProof
    /\ used = [e \in {"push", "gc", "move", "crash", "proof"} |-> 0]
    /\ stored = [p \in Paths |-> 0] /\ asked = {} /\ stale = {}

Day ==
    /\ clock < MaxClock
    /\ clock' = clock + 1
    /\ UNCHANGED <<home, rows, pins, nars, writer, tasks, move, used, history>>

-----------------------------------------------------------------------------
(* A push: uploaded and verified, it waits for the lock, keeps the object  *)
(* and records the row.                                                    *)

(* A narinfo arrives.  `bare' is the second proof of possession: no upload *)
(* to claim, the push rests on an object that is already kept.             *)
acceptNarinfo(u) ==
    /\ push[u].at = "idle" /\ used.push < MaxPushes
    /\ \E p \in Paths, bare \in BOOLEAN : \E info \in Infos[p] :
         push' = [push EXCEPT ![u] =
                    [at |-> "waits", path |-> p, info |-> info, bare |-> bare, store |-> home]]
    /\ Count("push")
    /\ UNCHANGED <<home, rows, pins, nars, clock, writer, gc, move, mover, prover, history>>

PushLocks(u) ==
    /\ push[u].at = "waits" /\ Free
    /\ writer' = u
    /\ push' = [push EXCEPT ![u].at = "keeps"]
    /\ UNCHANGED <<home, rows, pins, nars, clock, gc, move, mover, prover, used, history>>

(* keep, keepCopied, keptFacts: into the store the bucket names now.  A    *)
(* direct upload lies in the store of its beginning and cannot follow.     *)
Keep(u) ==
    /\ push[u].at = "keeps"
    /\ Direct /\ ~push[u].bare => push[u].store = home
    /\ push[u].bare => push[u].info.nar \in nars[home]
    /\ nars' = [nars EXCEPT ![home] = @ \cup {push[u].info.nar}]
    /\ push' = [push EXCEPT ![u].at = "records"]
    /\ UNCHANGED <<home, rows, pins, clock, writer, gc, move, mover, prover, used, history>>

(* Nothing to adopt, the store has changed, or it refused the bytes. *)
Refuse(u) ==
    /\ push[u].at = "keeps"
    /\ push' = [push EXCEPT ![u] = NoPush]
    /\ writer' = Nobody
    /\ UNCHANGED <<home, rows, pins, nars, clock, gc, move, mover, prover, used, history>>

(* putObject is an upsert: its conflict clause replaces the NAR's key and  *)
(* the references of a row that is there, and leaves last_wanted alone.    *)
Recorded(p, row) ==
    IF rows[p].held THEN [row EXCEPT !.wanted = rows[p].wanted] ELSE row

recordNow(u) ==
    /\ push[u].at = "records"
    /\ LET p == push[u].path
       IN /\ rows' = [rows EXCEPT ![p] =
                        Recorded(p, [wanted |-> clock, held |-> TRUE, proved |-> TRUE,
                                     info |-> push[u].info])]
          /\ stored' = [stored EXCEPT ![p] = clock]
          /\ stale' = stale \ {p}
    /\ push' = [push EXCEPT ![u] = NoPush]
    /\ writer' = Nobody
    /\ UNCHANGED <<home, pins, nars, clock, gc, move, mover, prover, used, asked>>

(* The `missing' query: what the bucket holds is renewed by the asking,    *)
(* and the asker is told that it need not send it.  No lock.               *)
missing(p) ==
    /\ rows[p].held
    /\ rows' = [rows EXCEPT ![p].wanted = clock]
    /\ asked' = IF gc.at = "evicts" THEN asked \cup {p} ELSE asked
    /\ UNCHANGED <<home, pins, nars, clock, writer, tasks, move, used, stored, stale>>

-----------------------------------------------------------------------------
(* Pins: one step under the lock. *)

\* Mutant: the closure is resolved and stored without the lock.
Pin_Unlocked(k) ==
    /\ \E roots \in SUBSET Held \ {{}} :
         pins' = [pins EXCEPT ![k] = closureOf(roots) \cap Held]
    /\ UNCHANGED <<home, rows, nars, clock, writer, tasks, move, used, history>>

pin(k) ==
    /\ Free
    /\ \E roots \in SUBSET Held \ {{}} :
         pins' = [pins EXCEPT ![k] = closureOf(roots) \cap Held]
    /\ UNCHANGED <<home, rows, nars, clock, writer, tasks, move, used, history>>

pinDelete(k) ==
    /\ Free /\ pins[k] # {}
    /\ pins' = [pins EXCEPT ![k] = {}]
    /\ UNCHANGED <<home, rows, nars, clock, writer, tasks, move, used, history>>

-----------------------------------------------------------------------------
(* The collection *)

(* The buckets are chosen before the lock: the sweep uses that row. *)
collect ==
    /\ gc.at = "idle" /\ used.gc < MaxCollections
    /\ gc' = [NoGc EXCEPT !.at = "waits", !.store = home]
    /\ Count("gc")
    /\ UNCHANGED <<home, rows, pins, nars, clock, writer, push, move, mover, prover, history>>

(* The plan keeps the rows it was made from. *)
collectNow ==
    /\ gc.at = "waits" /\ Free
    /\ writer' = "gc"
    /\ gc' = [gc EXCEPT !.at = "evicts", !.plan = {<<p, rows[p].info.nar>> : p \in planGc}]
    /\ asked' = {}
    /\ UNCHANGED <<home, rows, pins, nars, clock, push, move, mover, prover, used, stored, stale>>

\* Mutant: no twin is asked for.
Evict_NoTwin(p, n) ==
    /\ gc.at = "evicts" /\ <<p, n>> \in gc.plan /\ gc.nar = {}
    /\ rows' = [rows EXCEPT ![p] = NoRow]
    /\ gc' = [gc EXCEPT !.plan = @ \ {<<p, n>>}, !.nar = {n}]
    /\ stale' = stale \ {p}
    /\ stored' = [stored EXCEPT ![p] = 0]
    /\ UNCHANGED <<home, pins, nars, clock, writer, push, move, mover, prover, used, asked>>

(* A row goes, and at once the rows left are asked for a twin: one with    *)
(* the same NarHash, whatever its compression.                             *)
Evict(p, n) ==
    /\ gc.at = "evicts" /\ <<p, n>> \in gc.plan /\ gc.nar = {}
    /\ rows' = [rows EXCEPT ![p] = NoRow]
    /\ gc' = [gc EXCEPT !.plan = @ \ {<<p, n>>},
                        !.nar = {m \in {n} : \A q \in Held \ {p} :
                                                HashOf[rows[q].info.nar] # HashOf[m]}]
    /\ stale' = stale \ {p}
    /\ stored' = [stored EXCEPT ![p] = 0]
    /\ UNCHANGED <<home, pins, nars, clock, writer, push, move, mover, prover, used, asked>>

(* Its bytes go where no twin names them. *)
DeleteNar ==
    /\ gc.at = "evicts" /\ gc.nar # {}
    /\ nars' = [nars EXCEPT ![home] = @ \ gc.nar]
    /\ gc' = [gc EXCEPT !.nar = {}]
    /\ UNCHANGED <<home, rows, pins, clock, writer, push, move, mover, prover, used, history>>

(* The orphans of the chosen bucket's store, by the rows as they are. *)
sweepOrphans ==
    /\ gc.at = "evicts" /\ gc.plan = {} /\ gc.nar = {}
    /\ nars' = [nars EXCEPT ![gc.store] = @ \cap Named]
    /\ gc' = NoGc /\ writer' = Nobody
    /\ UNCHANGED <<home, rows, pins, clock, push, move, mover, prover, used, history>>

(* A deletion the store refuses ends the collection. *)
CollectFails ==
    /\ gc.at = "evicts" /\ gc.nar # {}
    /\ gc' = NoGc /\ writer' = Nobody
    /\ UNCHANGED <<home, rows, pins, nars, clock, push, move, mover, prover, used, history>>

-----------------------------------------------------------------------------
(* A move to another store *)

migrateStore(s) ==
    /\ Free /\ s # home /\ move.state = "none" /\ used.move < MaxMoves
    /\ move' = [state |-> "copying", from |-> home, to |-> s]
    /\ mover' = [Stopped EXCEPT !.at = "pass", !.todo = Named]
    /\ Count("move")
    /\ UNCHANGED <<home, rows, pins, nars, clock, writer, push, gc, prover, history>>

(* One key of a pass: skipped when the source has lost it or the target    *)
(* has it, else read; its put is another await.  Two at a time.            *)
CopyRead(n) ==
    /\ mover.at \in {"pass", "delta"} /\ n \in mover.todo /\ Cardinality(mover.open) < 2
    /\ mover' = [mover EXCEPT
         !.todo = @ \ {n},
         !.open = IF n \in nars[move.from] \ nars[move.to] THEN @ \cup {n} ELSE @]
    /\ UNCHANGED <<home, rows, pins, nars, clock, writer, push, gc, move, prover, used, history>>

CopyPut(n) ==
    /\ n \in mover.open
    /\ nars' = [nars EXCEPT ![move.to] = @ \cup {n}]
    /\ mover' = [mover EXCEPT !.open = @ \ {n}, !.wrote = TRUE]
    /\ UNCHANGED <<home, rows, pins, clock, writer, push, gc, move, prover, used, history>>

(* A key that cannot be copied ends the move until the next boot. *)
CopyFails ==
    /\ mover.at \in {"pass", "delta"}
    /\ mover' = Stopped
    /\ writer' = IF mover.at = "delta" THEN Nobody ELSE writer
    /\ UNCHANGED <<home, rows, pins, nars, clock, push, gc, move, prover, used, history>>

PassOver == mover.todo = {} /\ mover.open = {}

(* Passes until one writes nothing, or until there were enough. *)
NextPass ==
    /\ mover.at = "pass" /\ PassOver
    /\ IF mover.wrote /\ mover.round + 1 < MaxRounds
       THEN /\ mover' = [mover EXCEPT !.todo = Named, !.wrote = FALSE, !.round = @ + 1]
            /\ UNCHANGED move
       ELSE /\ mover' = [Stopped EXCEPT !.at = "flip"]
            /\ move' = [move EXCEPT !.state = "flipping"]
    /\ UNCHANGED <<home, rows, pins, nars, clock, writer, push, gc, prover, used, history>>

FlipLocks ==
    /\ mover.at = "flip" /\ Free
    /\ writer' = "mover"
    /\ mover' = [mover EXCEPT !.at = "delta", !.todo = Named]
    /\ UNCHANGED <<home, rows, pins, nars, clock, push, gc, move, prover, used, history>>

Flip ==
    /\ mover.at = "delta" /\ PassOver
    /\ home' = move.to
    /\ writer' = Nobody
    /\ mover' = [Stopped EXCEPT !.at = "flipped"]
    /\ UNCHANGED <<rows, pins, nars, clock, push, gc, move, prover, used, history>>

(* The old copies: the keys of the rows there are now. *)
Flipped ==
    /\ mover.at = "flipped"
    /\ move' = [move EXCEPT !.state = "deleting"]
    /\ mover' = [mover EXCEPT !.at = "purge", !.todo = Named]
    /\ UNCHANGED <<home, rows, pins, nars, clock, writer, push, gc, prover, used, history>>

(* A key that will not go is left behind. *)
purgeKeys(n) ==
    /\ mover.at = "purge" /\ n \in mover.todo
    /\ \E goes \in SUBSET {n} : nars' = [nars EXCEPT ![move.from] = @ \ goes]
    /\ mover' = [mover EXCEPT !.todo = @ \ {n}]
    /\ UNCHANGED <<home, rows, pins, clock, writer, push, gc, move, prover, used, history>>

MoveDone ==
    /\ mover.at = "purge" /\ mover.todo = {}
    /\ move' = NoMove /\ mover' = Stopped
    /\ UNCHANGED <<home, rows, pins, nars, clock, writer, push, gc, prover, used, history>>

-----------------------------------------------------------------------------
(* The self-proof pass, over the rows that reference themselves: they are  *)
(* read at its start, a NAR is streamed from the store, and the row is     *)
(* written back as it was read, proved.                                    *)

proveSelf ==
    /\ used.proof = 0
    /\ LET unproved == {p \in Held : ~rows[p].proved /\ p \in rows[p].info.refs}
       IN prover' = [todo |-> unproved, read |-> {}, seen |-> [p \in unproved |-> rows[p]]]
    /\ Count("proof")
    /\ UNCHANGED <<home, rows, pins, nars, clock, writer, push, gc, move, mover, history>>

(* What is not there, or cannot be read, is left as it is. *)
ProofRead(p) ==
    /\ p \in prover.todo /\ Cardinality(prover.read) < 2
    /\ \E proved \in SUBSET {q \in {p} : prover.seen[q].info.nar \in nars[home]} :
         prover' = [prover EXCEPT !.todo = @ \ {p}, !.read = @ \cup proved]
    /\ UNCHANGED <<home, rows, pins, nars, clock, writer, push, gc, move, mover, used, history>>

(* Under no lock: a row that was evicted meanwhile is put back, and one    *)
(* that was pushed again gets its old NAR and references again.            *)
ProofWrite(p) ==
    /\ p \in prover.read
    /\ rows' = [rows EXCEPT ![p] = Recorded(p, [prover.seen[p] EXCEPT !.proved = TRUE])]
    /\ stale' = IF rows[p].held /\ rows[p].info = prover.seen[p].info
                THEN stale ELSE stale \cup {p}
    /\ prover' = [prover EXCEPT !.read = @ \ {p}]
    /\ UNCHANGED <<home, pins, nars, clock, writer, push, gc, move, mover, used, stored, asked>>

-----------------------------------------------------------------------------
(* The daemon dies and boots: what nothing names is swept from the         *)
(* bucket's store before the mount, the pass and the move start over from  *)
(* what the database says.                                                 *)
Restart ==
    /\ used.crash < MaxCrashes
    /\ Count("crash")
    /\ push' = [u \in Pushers |-> NoPush]
    /\ gc' = NoGc /\ prover' = NoProof /\ writer' = Nobody
    /\ nars' = [nars EXCEPT ![home] = @ \cap Named]
    /\ mover' = CASE move.state = "none" -> Stopped
                  [] move.state = "copying" -> [Stopped EXCEPT !.at = "pass", !.todo = Named]
                  [] move.state = "flipping" -> [Stopped EXCEPT !.at = "flip"]
                  [] move.state = "deleting" -> [Stopped EXCEPT !.at = "purge", !.todo = Named]
    /\ UNCHANGED <<home, rows, pins, clock, move, history>>

Pushing(u) == acceptNarinfo(u) \/ PushLocks(u) \/ Keep(u) \/ Refuse(u) \/ recordNow(u)
Pinning == \E k \in Pins : pin(k) \/ pinDelete(k)
Evicting == \E p \in Paths, n \in Nars : Evict(p, n)
Collecting == collectNow \/ Evicting \/ DeleteNar \/ sweepOrphans \/ CollectFails
Copying == \E n \in Nars : CopyRead(n) \/ CopyPut(n)
Purging == \E n \in Nars : purgeKeys(n)
Moving == Copying \/ CopyFails \/ NextPass \/ FlipLocks \/ Flip \/ Flipped \/ Purging \/ MoveDone
Proving == \E p \in Paths : ProofRead(p) \/ ProofWrite(p)

Next ==
    \/ Day \/ Restart \/ collect \/ Collecting \/ Pinning \/ Moving
    \/ proveSelf \/ Proving
    \/ \E u \in Pushers : Pushing(u)
    \/ \E p \in Paths : missing(p)
    \/ \E s \in Stores : migrateStore(s)

Spec == Init /\ [][Next]_vars

-----------------------------------------------------------------------------
(* Properties *)

(* The types of the bucket and of what stands where in it.                 *)
TypeOK ==
    /\ home \in Stores /\ clock \in 0 .. MaxClock
    /\ rows \in [Paths -> Row] /\ pins \in [Pins -> SUBSET Paths]
    /\ nars \in [Stores -> SUBSET Nars]
    /\ writer \in Pushers \cup {Nobody, "gc", "mover"}
    /\ \A u \in Pushers : push[u].at \in {"idle", "waits", "keeps", "records"}
    /\ gc.at \in {"idle", "waits", "evicts"} /\ gc.plan \subseteq Paths \X Nars
    /\ move.state \in {"none", "copying", "flipping", "deleting"}
    /\ mover.at \in {"idle", "pass", "flip", "delta", "flipped", "purge"}
    /\ mover.todo \subseteq Nars /\ mover.open \subseteq Nars
    /\ stored \in [Paths -> 0 .. MaxClock]
    /\ asked \subseteq Paths /\ stale \subseteq Held

(* Whatever pushes, pushes of other bytes for the same path, collections,  *)
(* twins, moves and restarts interleave, the bytes a row names are in the  *)
(* store that the bucket names (gc.ts 270-285, migrateStore.ts 229-245).   *)
(* The exception, which Served is about: a row the self-proof pass wrote   *)
(* back as it once was, over its eviction or over a later push.            *)
Whole == \A p \in Held \ stale : rows[p].info.nar \in nars[home]

(* The bucket is typed, and every row that no snapshot has undone can be   *)
(* served.                                                                 *)
Inv == TypeOK /\ Whole

(* The same of every row: what the bucket says it has, it can serve        *)
(* (`missing' answers from the rows, and nobody uploads what is there).    *)
Served == \A p \in Held : rows[p].info.nar \in nars[home]

(* What a pin was resolved to is held as long as the pin is there.         *)
PinsHold == \A k \in Pins : pins[k] \subseteq Held

(* A row goes only when its last renewal is older than the retention and   *)
(* neither a pin nor a fresh row reaches it - by the rows as they are when *)
(* it goes, whatever happened since the plan.  Two things the lock does    *)
(* not hold back are not asked: what a `missing' query has renewed since   *)
(* the plan, and the references of rows that the self-proof pass has       *)
(* written back over an eviction or a later push.                          *)
EvictsOnlyUnwanted ==
    [][\A p \in Held : ~rows'[p].held =>
          LET fresh == {q \in Held \ asked : ~expired(q)}
          IN p \notin Reached(fresh \cup UNION {pins[k] : k \in Pins}, Held \ stale)]_vars

(* A path that was pushed is held for the retention from then on: "a        *)
(* stored push renews lastWanted" (routes.ts 1051, README.md 136).         *)
PushedStays ==
    [][\A p \in Held : ~rows'[p].held => clock - stored[p] > Retention]_vars
=============================================================================
