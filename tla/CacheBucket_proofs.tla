------------------------- MODULE CacheBucket_proofs -------------------------
(***************************************************************************)
(* For every set of paths and of narinfos that may be pushed of each,      *)
(* every number of pushes, collections, moves, passes and restarts: the    *)
(* bytes of every row that the self-proof pass has not undone are in the   *)
(* store the bucket names, pins hold, and a collection evicts nothing that *)
(* a fresh row or a pin reaches.                                           *)
(***************************************************************************)
EXTENDS CacheBucket, TLAPS

Info == [nar : Nars, refs : SUBSET Paths]
Pushed == [at : {"waits", "keeps", "records"}, path : Paths, info : Info, bare : BOOLEAN,
           store : Stores]
Collections == [at : {"idle", "waits", "evicts"}, store : Stores \cup {"none"},
                plan : SUBSET (Paths \X Nars), nar : SUBSET Nars]
Moves == [state : {"none", "copying", "flipping", "deleting"},
          from : Stores \cup {"none"}, to : Stores \cup {"none"}]
Movers == [at : {"idle", "pass", "flip", "delta", "flipped", "purge"},
           todo : SUBSET Nars, open : SUBSET Nars, wrote : BOOLEAN, round : Nat]
Provers == [todo : SUBSET Paths, read : SUBSET Paths,
            seen : UNION {[S -> Row] : S \in SUBSET Paths}]

RowTypes ==
    /\ clock \in 0 .. MaxClock
    /\ rows \in [Paths -> Row] /\ \A p \in Held : rows[p].info \in Info
    /\ stored \in [Paths -> 0 .. MaxClock]
    /\ asked \subseteq Paths /\ stale \subseteq Held
StoreTypes ==
    /\ home \in Stores /\ nars \in [Stores -> SUBSET Nars]
    /\ pins \in [Pins -> SUBSET Paths]
    /\ writer \in Pushers \cup {Nobody, "gc", "mover"}
TaskTypes ==
    /\ push \in [Pushers -> {NoPush} \cup Pushed] /\ gc \in Collections
    /\ move \in Moves /\ mover \in Movers /\ prover \in Provers

\* The rows that no snapshot has undone since they were pushed.
Known == Held \ stale
Pinned == UNION {pins[k] : k \in Pins}
Fresh == {q \in Held \ asked : ~expired(q)}

\* The write lock is held by the one task that is past it.
Locked ==
    /\ gc.at = "evicts" <=> writer = "gc"
    /\ mover.at = "delta" <=> writer = "mover"
    /\ \A u \in Pushers : push[u].at \in {"keeps", "records"} <=> writer = u

\* The move's row, its copier and the bucket's home agree.
Moved ==
    /\ move.state # "none" => move.from \in Stores /\ move.to \in Stores /\ move.from # move.to
    /\ move.state = "none" => mover.at = "idle"
    /\ move.state = "copying" => mover.at \in {"idle", "pass"} /\ home = move.from
    /\ move.state = "flipping" =>
          mover.at \in {"idle", "flip", "delta", "flipped"} /\ home \in {move.from, move.to}
    /\ move.state = "deleting" => mover.at \in {"idle", "purge"} /\ home = move.to
    /\ mover.at = "flipped" => home = move.to
    /\ mover.at \notin {"pass", "delta"} => mover.open = {}

\* What is about to be deleted, recorded or switched to.
Backed ==
    /\ Whole
    /\ gc.at # "idle" => gc.store \in Stores
    /\ gc.at # "evicts" => gc.nar = {}
    /\ \A p \in Known : rows[p].info.nar \notin gc.nar
    /\ \A u \in Pushers : push[u].at = "records" => push[u].info.nar \in nars[home]
    /\ mover.at = "delta" =>
          \A p \in Known : rows[p].info.nar \in mover.todo \cup mover.open \cup nars[move.to]

\* The pass writes back rows as it read them.
Snapshot ==
    \A p \in prover.todo \cup prover.read :
        p \in DOMAIN prover.seen /\ prover.seen[p] \in Row /\ prover.seen[p].held /\ prover.seen[p].info \in Info

\* The paths of the plan.
Doomed == {p \in Paths : \E n \in Nars : <<p, n>> \in gc.plan}

\* The plan names each path with the one NAR its row had.
Planned == \A p \in Paths, m, n \in Nars :
              <<p, m>> \in gc.plan /\ <<p, n>> \in gc.plan => m = n

\* Something closed keeps all that is fresh or pinned away from the plan.
Spared ==
    gc.at = "evicts" =>
        /\ Doomed \subseteq Held
        /\ \E C \in SUBSET Paths : /\ C \cap Doomed = {}
                                   /\ Fresh \cup Pinned \subseteq C
                                   /\ Closed(C, Known)

IInv ==
    /\ RowTypes /\ StoreTypes /\ TaskTypes
    /\ Locked /\ Moved /\ Backed /\ Snapshot /\ Planned /\ Spared /\ PinsHold

LEMMA NamedNars == RowTypes => Named \in SUBSET Nars
  BY DEF Named, RowTypes, Info

\* An upsert into a row: typed, held, with the new narinfo, the old clock kept.
LEMMA Upserted ==
    ASSUME RowTypes, NEW p \in Paths, NEW row \in Row, row.held, row.info \in Info,
           rows' = [rows EXCEPT ![p] = Recorded(p, row)]
    PROVE  /\ rows' \in [Paths -> Row] /\ Held' = Held \cup {p}
           /\ \A q \in Paths \ {p} : rows'[q] = rows[q]
           /\ rows'[p].info = row.info
           /\ rows[p].held => rows'[p].wanted = rows[p].wanted
           /\ \A q \in Held' : rows'[q].info \in Info
  <1>1. /\ row.wanted \in 0 .. MaxClock /\ row.proved \in BOOLEAN
        /\ row = [wanted |-> row.wanted, held |-> row.held, proved |-> row.proved, info |-> row.info]
    BY DEF Row
  <1>2. rows[p].wanted \in 0 .. MaxClock
    BY DEF RowTypes, Row
  <1>3. [row EXCEPT !.wanted = rows[p].wanted] \in Row
    BY <1>2 DEF Row
  <1>4. /\ [row EXCEPT !.wanted = rows[p].wanted].held
        /\ [row EXCEPT !.wanted = rows[p].wanted].info = row.info
        /\ [row EXCEPT !.wanted = rows[p].wanted].wanted = rows[p].wanted
    BY DEF Row
  <1>. DEFINE new == Recorded(p, row)
  <1>5. new \in Row /\ new.held /\ new.info = row.info /\ (rows[p].held => new.wanted = rows[p].wanted)
    BY <1>3, <1>4 DEF Recorded
  <1>. HIDE DEF new
  <1>6. /\ rows' \in [Paths -> Row] /\ rows'[p] = new
        /\ \A q \in Paths \ {p} : rows'[q] = rows[q]
    BY <1>5 DEF RowTypes, new
  <1>7. Held' = Held \cup {p}
    BY <1>5, <1>6 DEF Held
  <1>8. \A q \in Held' : rows'[q].info \in Info
    BY <1>5, <1>6, <1>7 DEF RowTypes, Held
  <1>. QED BY <1>5, <1>6, <1>7, <1>8

\* What the pass writes back is the narinfo it had read.
LEMMA ProofWritten ==
    ASSUME IInv, NEW p \in Paths, ProofWrite(p)
    PROVE  /\ rows' \in [Paths -> Row] /\ Held' = Held \cup {p}
           /\ \A q \in Paths \ {p} : rows'[q] = rows[q]
           /\ rows'[p].info = prover.seen[p].info
           /\ rows[p].held => rows'[p].wanted = rows[p].wanted
           /\ \A q \in Held' : rows'[q].info \in Info
  <1>. DEFINE row == [prover.seen[p] EXCEPT !.proved = TRUE]
  <1>1. prover.seen[p] \in Row /\ prover.seen[p].held /\ prover.seen[p].info \in Info
    BY DEF IInv, Snapshot, ProofWrite
  <1>2. row \in Row /\ row.held = prover.seen[p].held /\ row.info = prover.seen[p].info
    BY <1>1 DEF Row
  <1>3. rows' = [rows EXCEPT ![p] = Recorded(p, row)]
    BY DEF ProofWrite
  <1>4. RowTypes
    BY DEF IInv
  <1>. HIDE DEF row
  <1>. QED BY <1>1, <1>2, <1>3, <1>4, Upserted

\* A push writes the narinfo it came with.
LEMMA PushWritten ==
    ASSUME IInv, NEW u \in Pushers, recordNow(u)
    PROVE  LET p == push[u].path
           IN /\ p \in Paths /\ rows' \in [Paths -> Row] /\ Held' = Held \cup {p}
              /\ \A q \in Paths \ {p} : rows'[q] = rows[q]
              /\ rows'[p].info = push[u].info
              /\ \A q \in Held' : rows'[q].info \in Info
  <1>. DEFINE p == push[u].path
              row == [wanted |-> clock, held |-> TRUE, proved |-> TRUE, info |-> push[u].info]
  <1>1. p \in Paths /\ push[u].info \in Info
    BY DEF IInv, TaskTypes, NoPush, Pushed, recordNow
  <1>2. row \in Row /\ row.held /\ row.info = push[u].info
    BY <1>1 DEF Row, Info, IInv, RowTypes
  <1>3. rows' = [rows EXCEPT ![p] = Recorded(p, row)]
    BY DEF recordNow
  <1>4. RowTypes
    BY DEF IInv
  <1>. HIDE DEF row
  <1>5. /\ rows' \in [Paths -> Row] /\ Held' = Held \cup {p}
        /\ \A q \in Paths \ {p} : rows'[q] = rows[q]
        /\ rows'[p].info = row.info
        /\ \A q \in Held' : rows'[q].info \in Info
    BY <1>1, <1>2, <1>3, <1>4, Upserted
  <1>. QED BY <1>1, <1>2, <1>5

LEMMA RowTypesKept ==
    ASSUME IInv, [Next]_vars
    PROVE  RowTypes'
  <1>. USE DEF IInv
  <1>1. CASE Day
    BY CacheAssumption, <1>1 DEF Day, RowTypes, Snapshot, Held, Row, NoRow, Recorded,
        TaskTypes, Provers, tasks, history
  <1>2. CASE Restart
    BY <1>2 DEF Restart, RowTypes, Snapshot, Held, TaskTypes, Provers, history
  <1>3. CASE collect
    BY <1>3 DEF collect, RowTypes, Held, TaskTypes, history
  <1>4. CASE collectNow
    BY <1>4 DEF collectNow, RowTypes, Held, TaskTypes
  <1>5. ASSUME NEW p \in Paths, NEW n \in Nars, Evict(p, n) PROVE RowTypes'
    <2>1. NoRow \in Row /\ ~NoRow.held
      BY CacheAssumption DEF NoRow, NoInfo, Row
    <2>2. /\ rows' = [rows EXCEPT ![p] = NoRow] /\ stored' = [stored EXCEPT ![p] = 0]
          /\ stale' = stale \ {p} /\ asked' = asked /\ clock' = clock
      BY <1>5 DEF Evict
    <2>3. rows' \in [Paths -> Row] /\ Held' = Held \ {p} /\ \A q \in Held' : rows'[q] = rows[q]
      BY <2>1, <2>2 DEF RowTypes, Held
    <2>. QED BY <2>2, <2>3, CacheAssumption DEF RowTypes
  <1>6. CASE DeleteNar
    BY <1>6 DEF DeleteNar, RowTypes, Held, TaskTypes, history
  <1>7. CASE sweepOrphans
    BY <1>7 DEF sweepOrphans, RowTypes, Held, TaskTypes, history
  <1>8. CASE CollectFails
    BY <1>8 DEF CollectFails, RowTypes, Held, TaskTypes, history
  <1>9. ASSUME NEW k \in Pins, pin(k) PROVE RowTypes'
    BY <1>9 DEF pin, RowTypes, Held, TaskTypes, tasks, history
  <1>10. ASSUME NEW k \in Pins, pinDelete(k) PROVE RowTypes'
    BY <1>10 DEF pinDelete, RowTypes, Held, TaskTypes, tasks, history
  <1>11. ASSUME NEW n \in Nars, CopyRead(n) PROVE RowTypes'
    BY <1>11 DEF CopyRead, RowTypes, Held, TaskTypes, history
  <1>12. ASSUME NEW n \in Nars, CopyPut(n) PROVE RowTypes'
    BY <1>12 DEF CopyPut, RowTypes, Held, TaskTypes, history
  <1>13. CASE NextPass
    BY <1>13 DEF NextPass, RowTypes, Held, TaskTypes, history
  <1>14. CASE FlipLocks
    BY <1>14 DEF FlipLocks, RowTypes, Held, TaskTypes, history
  <1>15. CASE Flip
    BY <1>15 DEF Flip, RowTypes, Held, TaskTypes, history
  <1>16. CASE Flipped
    BY <1>16 DEF Flipped, RowTypes, Held, TaskTypes, history
  <1>17. ASSUME NEW n \in Nars, purgeKeys(n) PROVE RowTypes'
    BY <1>17 DEF purgeKeys, RowTypes, Held, TaskTypes, history
  <1>18. CASE MoveDone
    BY <1>18 DEF MoveDone, RowTypes, Held, TaskTypes, history
  <1>19. CASE proveSelf
    BY <1>19 DEF proveSelf, RowTypes, Snapshot, Held, TaskTypes, Provers, history
  <1>20. ASSUME NEW p \in Paths, ProofRead(p) PROVE RowTypes'
    BY <1>20 DEF ProofRead, RowTypes, Snapshot, Held, TaskTypes, Provers, history
  <1>21. ASSUME NEW p \in Paths, ProofWrite(p) PROVE RowTypes'
    <2>1. /\ UNCHANGED <<clock, stored, asked>> /\ stale' \in {stale, stale \cup {p}}
      BY <1>21 DEF ProofWrite
    <2>. QED BY <1>21, <2>1, ProofWritten DEF RowTypes
  <1>22. ASSUME NEW u \in Pushers, acceptNarinfo(u) PROVE RowTypes'
    BY <1>22 DEF acceptNarinfo, RowTypes, Held, TaskTypes, history
  <1>23. ASSUME NEW u \in Pushers, PushLocks(u) PROVE RowTypes'
    BY <1>23 DEF PushLocks, RowTypes, Held, TaskTypes, history
  <1>24. ASSUME NEW u \in Pushers, Keep(u) PROVE RowTypes'
    BY <1>24 DEF Keep, RowTypes, Held, TaskTypes, history
  <1>25. ASSUME NEW u \in Pushers, Refuse(u) PROVE RowTypes'
    BY <1>25 DEF Refuse, RowTypes, Held, TaskTypes, history
  <1>26. ASSUME NEW u \in Pushers, recordNow(u) PROVE RowTypes'
    <2>1. /\ UNCHANGED <<clock, asked>> /\ stale' = stale \ {push[u].path}
          /\ stored' = [stored EXCEPT ![push[u].path] = clock]
      BY <1>26 DEF recordNow
    <2>. QED BY <1>26, <2>1, PushWritten DEF RowTypes
  <1>27. ASSUME NEW p \in Paths, missing(p) PROVE RowTypes'
    BY <1>27 DEF missing, RowTypes, Held, Row, TaskTypes, tasks
  <1>28. ASSUME NEW s \in Stores, migrateStore(s) PROVE RowTypes'
    BY <1>28 DEF migrateStore, RowTypes, Held, TaskTypes, history
  <1>29. CASE CopyFails
    BY <1>29 DEF CopyFails, RowTypes, Held, TaskTypes, history
  <1>30. CASE UNCHANGED vars
    BY <1>30 DEF vars, tasks, history, RowTypes, Snapshot, Held, Row, NoRow, Recorded, TaskTypes,
       Provers, tasks, history
  <1>. QED BY <1>1, <1>2, <1>3, <1>4, <1>5, <1>6, <1>7, <1>8, <1>9, <1>10, <1>11, <1>12, <1>13,
     <1>14, <1>15, <1>16, <1>17, <1>18, <1>19, <1>20, <1>21, <1>22, <1>23, <1>24, <1>25, <1>26,
     <1>27, <1>28, <1>29, <1>30 DEF Next, Pushing, Pinning, Evicting, Collecting, Copying,
     Purging, Moving, Proving

LEMMA StoreTypesKept ==
    ASSUME IInv, [Next]_vars
    PROVE  StoreTypes'
  <1>. USE DEF IInv
  <1>1. CASE Day
    BY <1>1 DEF Day, StoreTypes, TaskTypes, Moved, Held, tasks, history, Backed
  <1>2. CASE Restart
    BY <1>2 DEF Restart, StoreTypes, TaskTypes, Moved, Held, Moves, Collections, Movers,
        Nobody, history, Backed
  <1>3. CASE collect
    BY <1>3 DEF collect, StoreTypes, TaskTypes, Moved, Held, Collections, history, Backed
  <1>4. CASE collectNow
    BY <1>4 DEF collectNow, StoreTypes, TaskTypes, Moved, Held, Collections, Nobody, Backed
  <1>5. ASSUME NEW p \in Paths, NEW n \in Nars, Evict(p, n) PROVE StoreTypes'
    BY <1>5 DEF Evict, StoreTypes, TaskTypes, Moved, Held, Collections, Backed
  <1>6. CASE DeleteNar
    BY <1>6 DEF DeleteNar, StoreTypes, TaskTypes, Moved, Held, Collections, history, Backed
  <1>7. CASE sweepOrphans
    BY <1>7 DEF sweepOrphans, StoreTypes, TaskTypes, Moved, Held, Collections, Nobody, history,
        Backed
  <1>8. CASE CollectFails
    BY <1>8 DEF CollectFails, StoreTypes, TaskTypes, Moved, Held, Collections, Nobody, history,
        Backed
  <1>9. ASSUME NEW k \in Pins, pin(k) PROVE StoreTypes'
    BY <1>9 DEF pin, StoreTypes, TaskTypes, Moved, Held, Nobody, tasks, history, closureOf,
        Reached, Backed
  <1>10. ASSUME NEW k \in Pins, pinDelete(k) PROVE StoreTypes'
    BY <1>10 DEF pinDelete, StoreTypes, TaskTypes, Moved, Held, Nobody, tasks, history, Backed
  <1>11. ASSUME NEW n \in Nars, CopyRead(n) PROVE StoreTypes'
    BY <1>11 DEF CopyRead, StoreTypes, TaskTypes, Moved, Held, Moves, Movers, history, Backed
  <1>12. ASSUME NEW n \in Nars, CopyPut(n) PROVE StoreTypes'
    BY <1>12 DEF CopyPut, StoreTypes, TaskTypes, Moved, Held, Moves, Movers, history, Backed
  <1>13. CASE NextPass
    BY <1>13 DEF NextPass, StoreTypes, TaskTypes, Moved, Held, Moves, Movers, history, Backed
  <1>14. CASE FlipLocks
    BY <1>14 DEF FlipLocks, StoreTypes, TaskTypes, Moved, Held, Moves, Movers, Nobody, history,
        Backed
  <1>15. CASE Flip
    BY <1>15 DEF Flip, StoreTypes, TaskTypes, Moved, Held, Moves, Movers, Nobody, history,
        Backed
  <1>16. CASE Flipped
    BY <1>16 DEF Flipped, StoreTypes, TaskTypes, Moved, Held, Moves, Movers, history, Backed
  <1>17. ASSUME NEW n \in Nars, purgeKeys(n) PROVE StoreTypes'
    BY <1>17 DEF purgeKeys, StoreTypes, TaskTypes, Moved, Held, Moves, Movers, history, Backed
  <1>18. CASE MoveDone
    BY <1>18 DEF MoveDone, StoreTypes, TaskTypes, Moved, Held, Moves, Movers, history, Backed
  <1>19. CASE proveSelf
    BY <1>19 DEF proveSelf, StoreTypes, TaskTypes, Moved, Held, history, Backed
  <1>20. ASSUME NEW p \in Paths, ProofRead(p) PROVE StoreTypes'
    BY <1>20 DEF ProofRead, StoreTypes, TaskTypes, Moved, Held, history, Backed
  <1>21. ASSUME NEW p \in Paths, ProofWrite(p) PROVE StoreTypes'
    BY <1>21 DEF ProofWrite, StoreTypes, TaskTypes, Moved, Held, Backed
  <1>22. ASSUME NEW u \in Pushers, acceptNarinfo(u) PROVE StoreTypes'
    BY <1>22 DEF acceptNarinfo, StoreTypes, TaskTypes, Moved, Held, Pushed, history, Backed
  <1>23. ASSUME NEW u \in Pushers, PushLocks(u) PROVE StoreTypes'
    BY <1>23 DEF PushLocks, StoreTypes, TaskTypes, Moved, Held, Pushed, Nobody, history, Backed
  <1>24. ASSUME NEW u \in Pushers, Keep(u) PROVE StoreTypes'
    <2>1. push[u].info.nar \in Nars
      BY <1>24 DEF Keep, TaskTypes, NoPush, Pushed, Info
    <2>. QED BY <1>24, <2>1 DEF Keep, StoreTypes, history
  <1>25. ASSUME NEW u \in Pushers, Refuse(u) PROVE StoreTypes'
    BY <1>25 DEF Refuse, StoreTypes, TaskTypes, Moved, Held, Pushed, Nobody, history, Backed
  <1>26. ASSUME NEW u \in Pushers, recordNow(u) PROVE StoreTypes'
    BY <1>26 DEF recordNow, StoreTypes, TaskTypes, Moved, Held, Pushed, Nobody, Backed
  <1>27. ASSUME NEW p \in Paths, missing(p) PROVE StoreTypes'
    BY <1>27 DEF missing, StoreTypes, TaskTypes, Moved, Held, Collections, tasks, Backed
  <1>28. ASSUME NEW s \in Stores, migrateStore(s) PROVE StoreTypes'
    BY <1>28 DEF migrateStore, StoreTypes, TaskTypes, Moved, Held, Moves, Movers, Nobody,
        history, Backed
  <1>29. CASE CopyFails
    BY <1>29 DEF CopyFails, StoreTypes, TaskTypes, Moved, Held, Moves, Movers, Nobody, history,
        Backed
  <1>30. CASE UNCHANGED vars
    BY <1>30 DEF vars, tasks, history, StoreTypes, TaskTypes, Moved, Held, Moves, Pushed,
       Collections, Movers, Nobody, tasks, history, closureOf, Reached,Backed
  <1>. QED BY <1>1, <1>2, <1>3, <1>4, <1>5, <1>6, <1>7, <1>8, <1>9, <1>10, <1>11, <1>12, <1>13,
     <1>14, <1>15, <1>16, <1>17, <1>18, <1>19, <1>20, <1>21, <1>22, <1>23, <1>24, <1>25, <1>26,
     <1>27, <1>28, <1>29, <1>30 DEF Next, Pushing, Pinning, Evicting, Collecting, Copying,
     Purging, Moving, Proving

LEMMA TaskTypesKept ==
    ASSUME IInv, [Next]_vars
    PROVE  TaskTypes'
  <1>. USE DEF IInv
  <1>1. CASE Day
    BY <1>1 DEF Day, TaskTypes, StoreTypes, RowTypes, tasks, history
  <1>2. CASE Restart
    <2>1. mover' \in Movers
      <3>1. move.state \in {"none", "copying", "flipping", "deleting"}
        BY DEF TaskTypes, Moves
      <3>. QED BY <1>2, <3>1, NamedNars DEF Restart, Stopped, Movers
    <2>2. NoGc \in Collections /\ NoProof \in Provers
      <3>1. [p \in {} |-> NoRow] \in [{} -> Row]
        OBVIOUS
      <3>. QED BY <3>1 DEF NoGc, Collections, NoProof, Provers
    <2>. QED BY <1>2, <2>1, <2>2 DEF Restart, TaskTypes
  <1>3. CASE collect
    BY <1>3 DEF collect, TaskTypes, StoreTypes, RowTypes, Collections, NoGc, history
  <1>4. CASE collectNow
    <2>1. {<<p, rows[p].info.nar>> : p \in planGc} \in SUBSET (Paths \X Nars)
      <3>1. \A p \in planGc : p \in Paths /\ rows[p].info.nar \in Nars
        BY DEF planGc, Held, RowTypes, Info
      <3>. QED BY <3>1
    <2>. QED BY <1>4, <2>1 DEF collectNow, TaskTypes, Collections
  <1>5. ASSUME NEW p \in Paths, NEW n \in Nars, Evict(p, n) PROVE TaskTypes'
    <2>. DEFINE lost == {m \in {n} : \A q \in Held \ {p} : HashOf[rows[q].info.nar] # HashOf[m]}
    <2>1. lost \in SUBSET Nars
      OBVIOUS
    <2>2. gc' = [gc EXCEPT !.plan = @ \ {<<p, n>>}, !.nar = lost]
      BY <1>5 DEF Evict
    <2>. HIDE DEF lost
    <2>3. gc' \in Collections
      BY <2>1, <2>2 DEF TaskTypes, Collections
    <2>. QED BY <1>5, <2>3 DEF Evict, TaskTypes
  <1>6. CASE DeleteNar
    BY <1>6 DEF DeleteNar, TaskTypes, StoreTypes, RowTypes, Collections, history
  <1>7. CASE sweepOrphans
    BY <1>7 DEF sweepOrphans, TaskTypes, StoreTypes, RowTypes, Collections, NoGc, history
  <1>8. CASE CollectFails
    BY <1>8 DEF CollectFails, TaskTypes, StoreTypes, RowTypes, Collections, NoGc, history
  <1>9. ASSUME NEW k \in Pins, pin(k) PROVE TaskTypes'
    BY <1>9 DEF pin, TaskTypes, StoreTypes, RowTypes, tasks, history
  <1>10. ASSUME NEW k \in Pins, pinDelete(k) PROVE TaskTypes'
    BY <1>10 DEF pinDelete, TaskTypes, StoreTypes, RowTypes, tasks, history
  <1>11. ASSUME NEW n \in Nars, CopyRead(n) PROVE TaskTypes'
    BY <1>11 DEF CopyRead, TaskTypes, StoreTypes, RowTypes, Movers, Moves, history
  <1>12. ASSUME NEW n \in Nars, CopyPut(n) PROVE TaskTypes'
    BY <1>12 DEF CopyPut, TaskTypes, StoreTypes, RowTypes, Movers, Moves, history
  <1>13. CASE NextPass
    <2>1. mover' \in Movers /\ move' \in Moves
      <3>1. mover.round + 1 \in Nat
        BY DEF TaskTypes, Movers
      <3>2. CASE mover.wrote /\ mover.round + 1 < MaxRounds
        BY <1>13, <3>1, <3>2, NamedNars DEF NextPass, TaskTypes, Movers, Moves
      <3>3. CASE ~(mover.wrote /\ mover.round + 1 < MaxRounds)
        <4>1. mover' = [Stopped EXCEPT !.at = "flip"] /\ move' = [move EXCEPT !.state = "flipping"]
          BY <1>13, <3>3 DEF NextPass
        <4>. QED BY <4>1 DEF TaskTypes, Movers, Moves, Stopped
      <3>. QED BY <3>2, <3>3
    <2>. QED BY <1>13, <2>1 DEF NextPass, TaskTypes
  <1>14. CASE FlipLocks
    BY CacheAssumption, NamedNars, <1>14 DEF FlipLocks, TaskTypes, StoreTypes, RowTypes,
        Collections, Movers, Moves, NoGc, NoMove, Stopped, NoPush, Pushed, Provers, NoProof,
        tasks, history, planGc
  <1>15. CASE Flip
    BY <1>15 DEF Flip, TaskTypes, StoreTypes, RowTypes, Movers, Moves, Stopped, history
  <1>16. CASE Flipped
    BY CacheAssumption, NamedNars, <1>16 DEF Flipped, TaskTypes, StoreTypes, RowTypes,
        Collections, Movers, Moves, NoGc, NoMove, Stopped, NoPush, Pushed, Provers, NoProof,
        tasks, history, planGc
  <1>17. ASSUME NEW n \in Nars, purgeKeys(n) PROVE TaskTypes'
    BY <1>17 DEF purgeKeys, TaskTypes, StoreTypes, RowTypes, Movers, Moves, history
  <1>18. CASE MoveDone
    BY <1>18 DEF MoveDone, TaskTypes, StoreTypes, RowTypes, Movers, Moves, NoMove, Stopped,
        history
  <1>19. CASE proveSelf
    <2>. DEFINE unproved == {p \in Held : ~rows[p].proved /\ p \in rows[p].info.refs}
                seen == [p \in unproved |-> rows[p]]
    <2>1. unproved \in SUBSET Paths /\ seen \in [unproved -> Row]
      BY DEF Held, RowTypes
    <2>2. prover' = [todo |-> unproved, read |-> {}, seen |-> seen]
      BY <1>19 DEF proveSelf
    <2>. HIDE DEF unproved, seen
    <2>3. prover' \in Provers
      BY <2>1, <2>2 DEF Provers
    <2>. QED BY <1>19, <2>3 DEF proveSelf, TaskTypes
  <1>20. ASSUME NEW p \in Paths, ProofRead(p) PROVE TaskTypes'
    BY <1>20 DEF ProofRead, TaskTypes, StoreTypes, RowTypes, Provers, history
  <1>21. ASSUME NEW p \in Paths, ProofWrite(p) PROVE TaskTypes'
    <2>1. prover' = [prover EXCEPT !.read = @ \ {p}] /\ UNCHANGED <<push, gc, move, mover>>
      BY <1>21 DEF ProofWrite
    <2>. QED BY <2>1 DEF TaskTypes, Provers
  <1>22. ASSUME NEW u \in Pushers, acceptNarinfo(u) PROVE TaskTypes'
    <2>. DEFINE new(p, bare, info) ==
                  [at |-> "waits", path |-> p, info |-> info, bare |-> bare, store |-> home]
    <2>0. PICK p \in Paths, bare \in BOOLEAN :
             \E info \in Infos[p] : push' = [push EXCEPT ![u] = new(p, bare, info)]
      BY <1>22 DEF acceptNarinfo
    <2>1. PICK info \in Infos[p] : push' = [push EXCEPT ![u] = new(p, bare, info)]
      BY <2>0
    <2>2. info \in Info
      BY CacheAssumption DEF Info
    <2>3. new(p, bare, info) \in Pushed
      BY <2>2 DEF Pushed, StoreTypes
    <2>. QED BY <1>22, <2>1, <2>3 DEF acceptNarinfo, TaskTypes
  <1>23. ASSUME NEW u \in Pushers, PushLocks(u) PROVE TaskTypes'
    BY <1>23 DEF PushLocks, TaskTypes, StoreTypes, RowTypes, NoPush, Pushed, history
  <1>24. ASSUME NEW u \in Pushers, Keep(u) PROVE TaskTypes'
    BY <1>24 DEF Keep, TaskTypes, StoreTypes, RowTypes, NoPush, Pushed, history
  <1>25. ASSUME NEW u \in Pushers, Refuse(u) PROVE TaskTypes'
    BY <1>25 DEF Refuse, TaskTypes, StoreTypes, RowTypes, NoPush, Pushed, history
  <1>26. ASSUME NEW u \in Pushers, recordNow(u) PROVE TaskTypes'
    BY <1>26 DEF recordNow, TaskTypes, StoreTypes, RowTypes, NoPush, Pushed
  <1>27. ASSUME NEW p \in Paths, missing(p) PROVE TaskTypes'
    BY <1>27 DEF missing, TaskTypes, StoreTypes, RowTypes, Collections, tasks
  <1>28. ASSUME NEW s \in Stores, migrateStore(s) PROVE TaskTypes'
    BY CacheAssumption, NamedNars, <1>28 DEF migrateStore, TaskTypes, StoreTypes, RowTypes,
        Collections, Movers, Moves, NoGc, NoMove, Stopped, NoPush, Pushed, Provers, NoProof,
        tasks, history, planGc
  <1>29. CASE CopyFails
    BY <1>29 DEF CopyFails, TaskTypes, StoreTypes, RowTypes, Movers, Moves, Stopped, history
  <1>30. CASE UNCHANGED vars
    BY <1>30 DEF vars, tasks, history, TaskTypes, StoreTypes, RowTypes, Collections, Movers,
       Moves, NoGc, NoMove, Stopped, NoPush, Pushed, Provers, NoProof, tasks, history, planGc
  <1>. QED BY <1>1, <1>2, <1>3, <1>4, <1>5, <1>6, <1>7, <1>8, <1>9, <1>10, <1>11, <1>12, <1>13,
     <1>14, <1>15, <1>16, <1>17, <1>18, <1>19, <1>20, <1>21, <1>22, <1>23, <1>24, <1>25, <1>26,
     <1>27, <1>28, <1>29, <1>30 DEF Next, Pushing, Pinning, Evicting, Collecting, Copying,
     Purging, Moving, Proving

LEMMA LockedKept ==
    ASSUME IInv, [Next]_vars
    PROVE  Locked'
  <1>. USE DEF IInv
  <1>1. CASE Day
    BY <1>1 DEF Day, TaskTypes, StoreTypes, Locked, Moved, tasks, history
  <1>2. CASE Restart
    <2>1. mover'.at # "delta"
      <3>1. move.state \in {"none", "copying", "flipping", "deleting"}
        BY DEF TaskTypes, Moves
      <3>. QED BY <1>2, <3>1 DEF Restart, Stopped
    <2>. QED BY <1>2, <2>1, CacheNames DEF Restart, Locked, Nobody, NoGc, NoPush
  <1>3. CASE collect
    BY <1>3 DEF collect, TaskTypes, StoreTypes, Locked, Moved, history, NoGc, Collections
  <1>4. CASE collectNow
    BY CacheNames, <1>4 DEF collectNow, TaskTypes, StoreTypes, Locked, Moved, Nobody, tasks,
        history, Free, NoGc, NoPush, Stopped, Collections, Movers, Pushed
  <1>5. ASSUME NEW p \in Paths, NEW n \in Nars, Evict(p, n) PROVE Locked'
    BY <1>5 DEF Evict, TaskTypes, StoreTypes, Locked, Moved, Collections
  <1>6. CASE DeleteNar
    BY <1>6 DEF DeleteNar, TaskTypes, StoreTypes, Locked, Moved, history, Collections
  <1>7. CASE sweepOrphans
    BY CacheNames, <1>7 DEF sweepOrphans, TaskTypes, StoreTypes, Locked, Moved, Nobody, tasks,
        history, Free, NoGc, NoPush, Stopped, Collections, Movers, Pushed
  <1>8. CASE CollectFails
    BY CacheNames, <1>8 DEF CollectFails, TaskTypes, StoreTypes, Locked, Moved, Nobody, tasks,
        history, Free, NoGc, NoPush, Stopped, Collections, Movers, Pushed
  <1>9. ASSUME NEW k \in Pins, pin(k) PROVE Locked'
    BY <1>9 DEF pin, TaskTypes, StoreTypes, Locked, Moved, Nobody, tasks, history, Free
  <1>10. ASSUME NEW k \in Pins, pinDelete(k) PROVE Locked'
    BY <1>10 DEF pinDelete, TaskTypes, StoreTypes, Locked, Moved, Nobody, tasks, history, Free
  <1>11. ASSUME NEW n \in Nars, CopyRead(n) PROVE Locked'
    BY <1>11 DEF CopyRead, TaskTypes, StoreTypes, Locked, Moved, history, Movers
  <1>12. ASSUME NEW n \in Nars, CopyPut(n) PROVE Locked'
    BY <1>12 DEF CopyPut, TaskTypes, StoreTypes, Locked, Moved, history, Movers
  <1>13. CASE NextPass
    BY <1>13 DEF NextPass, TaskTypes, StoreTypes, Locked, Moved, history, Stopped, Movers
  <1>14. CASE FlipLocks
    BY CacheNames, <1>14 DEF FlipLocks, TaskTypes, StoreTypes, Locked, Moved, Nobody, tasks,
        history, Free, NoGc, NoPush, Stopped, Collections, Movers, Pushed
  <1>15. CASE Flip
    BY CacheNames, <1>15 DEF Flip, TaskTypes, StoreTypes, Locked, Moved, Nobody, tasks,
        history, Free, NoGc, NoPush, Stopped, Collections, Movers, Pushed
  <1>16. CASE Flipped
    BY <1>16 DEF Flipped, TaskTypes, StoreTypes, Locked, Moved, history, Movers
  <1>17. ASSUME NEW n \in Nars, purgeKeys(n) PROVE Locked'
    BY <1>17 DEF purgeKeys, TaskTypes, StoreTypes, Locked, Moved, history, Movers
  <1>18. CASE MoveDone
    BY <1>18 DEF MoveDone, TaskTypes, StoreTypes, Locked, Moved, history, Stopped, Movers
  <1>19. CASE proveSelf
    BY <1>19 DEF proveSelf, TaskTypes, StoreTypes, Locked, Moved, history
  <1>20. ASSUME NEW p \in Paths, ProofRead(p) PROVE Locked'
    BY <1>20 DEF ProofRead, TaskTypes, StoreTypes, Locked, Moved, history
  <1>21. ASSUME NEW p \in Paths, ProofWrite(p) PROVE Locked'
    BY <1>21 DEF ProofWrite, TaskTypes, StoreTypes, Locked, Moved
  <1>22. ASSUME NEW u \in Pushers, acceptNarinfo(u) PROVE Locked'
    BY <1>22 DEF acceptNarinfo, TaskTypes, StoreTypes, Locked, Moved, history, NoPush, Pushed
  <1>23. ASSUME NEW u \in Pushers, PushLocks(u) PROVE Locked'
    BY CacheNames, <1>23 DEF PushLocks, TaskTypes, StoreTypes, Locked, Moved, Nobody, tasks,
        history, Free, NoGc, NoPush, Stopped, Collections, Movers, Pushed
  <1>24. ASSUME NEW u \in Pushers, Keep(u) PROVE Locked'
    BY <1>24 DEF Keep, TaskTypes, StoreTypes, Locked, Moved, history, NoPush, Pushed
  <1>25. ASSUME NEW u \in Pushers, Refuse(u) PROVE Locked'
    BY CacheNames, <1>25 DEF Refuse, TaskTypes, StoreTypes, Locked, Moved, Nobody, tasks,
        history, Free, NoGc, NoPush, Stopped, Collections, Movers, Pushed
  <1>26. ASSUME NEW u \in Pushers, recordNow(u) PROVE Locked'
    BY CacheNames, <1>26 DEF recordNow, TaskTypes, StoreTypes, Locked, Moved, Nobody, tasks,
        history, Free, NoGc, NoPush, Stopped, Collections, Movers, Pushed
  <1>27. ASSUME NEW p \in Paths, missing(p) PROVE Locked'
    BY <1>27 DEF missing, TaskTypes, StoreTypes, Locked, Moved, tasks, Collections
  <1>28. ASSUME NEW s \in Stores, migrateStore(s) PROVE Locked'
    BY <1>28 DEF migrateStore, TaskTypes, StoreTypes, Locked, Moved, Nobody, history, Free,
        Stopped, Movers
  <1>29. CASE CopyFails
    BY CacheNames, <1>29 DEF CopyFails, TaskTypes, StoreTypes, Locked, Moved, Nobody, tasks,
        history, Free, NoGc, NoPush, Stopped, Collections, Movers, Pushed
  <1>30. CASE UNCHANGED vars
    BY <1>30 DEF vars, tasks, history, TaskTypes, StoreTypes, Locked, Moved, Nobody, tasks,
       history, Free, NoGc, NoPush, Stopped, Collections, Movers, Pushed
  <1>. QED BY <1>1, <1>2, <1>3, <1>4, <1>5, <1>6, <1>7, <1>8, <1>9, <1>10, <1>11, <1>12, <1>13,
     <1>14, <1>15, <1>16, <1>17, <1>18, <1>19, <1>20, <1>21, <1>22, <1>23, <1>24, <1>25, <1>26,
     <1>27, <1>28, <1>29, <1>30 DEF Next, Pushing, Pinning, Evicting, Collecting, Copying,
     Purging, Moving, Proving

LEMMA MovedKept ==
    ASSUME IInv, [Next]_vars
    PROVE  Moved'
  <1>. USE DEF IInv
  <1>1. CASE Day
    BY <1>1 DEF Day, TaskTypes, StoreTypes, Locked, Moved, tasks, history
  <1>2. CASE Restart
    BY <1>2 DEF Restart, TaskTypes, StoreTypes, Locked, Moved, history, Stopped, Movers, Moves
  <1>3. CASE collect
    BY <1>3 DEF collect, TaskTypes, StoreTypes, Locked, Moved, history
  <1>4. CASE collectNow
    BY <1>4 DEF collectNow, TaskTypes, StoreTypes, Locked, Moved
  <1>5. ASSUME NEW p \in Paths, NEW n \in Nars, Evict(p, n) PROVE Moved'
    BY <1>5 DEF Evict, TaskTypes, StoreTypes, Locked, Moved
  <1>6. CASE DeleteNar
    BY <1>6 DEF DeleteNar, TaskTypes, StoreTypes, Locked, Moved, history
  <1>7. CASE sweepOrphans
    BY <1>7 DEF sweepOrphans, TaskTypes, StoreTypes, Locked, Moved, history
  <1>8. CASE CollectFails
    BY <1>8 DEF CollectFails, TaskTypes, StoreTypes, Locked, Moved, history
  <1>9. ASSUME NEW k \in Pins, pin(k) PROVE Moved'
    BY <1>9 DEF pin, TaskTypes, StoreTypes, Locked, Moved, tasks, history
  <1>10. ASSUME NEW k \in Pins, pinDelete(k) PROVE Moved'
    BY <1>10 DEF pinDelete, TaskTypes, StoreTypes, Locked, Moved, tasks, history
  <1>11. ASSUME NEW n \in Nars, CopyRead(n) PROVE Moved'
    BY <1>11 DEF CopyRead, TaskTypes, StoreTypes, Locked, Moved, history, Movers, Moves
  <1>12. ASSUME NEW n \in Nars, CopyPut(n) PROVE Moved'
    BY <1>12 DEF CopyPut, TaskTypes, StoreTypes, Locked, Moved, history, Movers, Moves
  <1>13. CASE NextPass
    <2>1. move.state = "copying"
      BY <1>13 DEF NextPass, TaskTypes, Moved, Moves
    <2>2. CASE mover.wrote /\ mover.round + 1 < MaxRounds
      BY <1>13, <2>1, <2>2 DEF NextPass, TaskTypes, Movers, Moved
    <2>3. CASE ~(mover.wrote /\ mover.round + 1 < MaxRounds)
      BY <1>13, <2>1, <2>3 DEF NextPass, TaskTypes, Moves, Movers, Stopped, Moved, PassOver
    <2>. QED BY <2>2, <2>3
  <1>14. CASE FlipLocks
    BY <1>14 DEF FlipLocks, TaskTypes, StoreTypes, Locked, Moved, history, Movers, Moves
  <1>15. CASE Flip
    BY <1>15 DEF Flip, TaskTypes, StoreTypes, Locked, Moved, history, Stopped, Movers, Moves,
        PassOver
  <1>16. CASE Flipped
    BY <1>16 DEF Flipped, TaskTypes, StoreTypes, Locked, Moved, history, Movers, Moves
  <1>17. ASSUME NEW n \in Nars, purgeKeys(n) PROVE Moved'
    BY <1>17 DEF purgeKeys, TaskTypes, StoreTypes, Locked, Moved, history, Movers, Moves
  <1>18. CASE MoveDone
    BY <1>18 DEF MoveDone, TaskTypes, StoreTypes, Locked, Moved, history, Stopped, Movers,
        Moves, NoMove
  <1>19. CASE proveSelf
    BY <1>19 DEF proveSelf, TaskTypes, StoreTypes, Locked, Moved, history
  <1>20. ASSUME NEW p \in Paths, ProofRead(p) PROVE Moved'
    BY <1>20 DEF ProofRead, TaskTypes, StoreTypes, Locked, Moved, history
  <1>21. ASSUME NEW p \in Paths, ProofWrite(p) PROVE Moved'
    BY <1>21 DEF ProofWrite, TaskTypes, StoreTypes, Locked, Moved
  <1>22. ASSUME NEW u \in Pushers, acceptNarinfo(u) PROVE Moved'
    BY <1>22 DEF acceptNarinfo, TaskTypes, StoreTypes, Locked, Moved, history
  <1>23. ASSUME NEW u \in Pushers, PushLocks(u) PROVE Moved'
    BY <1>23 DEF PushLocks, TaskTypes, StoreTypes, Locked, Moved, history
  <1>24. ASSUME NEW u \in Pushers, Keep(u) PROVE Moved'
    BY <1>24 DEF Keep, TaskTypes, StoreTypes, Locked, Moved, history
  <1>25. ASSUME NEW u \in Pushers, Refuse(u) PROVE Moved'
    BY <1>25 DEF Refuse, TaskTypes, StoreTypes, Locked, Moved, history
  <1>26. ASSUME NEW u \in Pushers, recordNow(u) PROVE Moved'
    BY <1>26 DEF recordNow, TaskTypes, StoreTypes, Locked, Moved
  <1>27. ASSUME NEW p \in Paths, missing(p) PROVE Moved'
    BY <1>27 DEF missing, TaskTypes, StoreTypes, Locked, Moved, tasks
  <1>28. ASSUME NEW s \in Stores, migrateStore(s) PROVE Moved'
    BY <1>28 DEF migrateStore, TaskTypes, StoreTypes, Locked, Moved, history, Stopped, Movers,
        Moves
  <1>29. CASE CopyFails
    BY <1>29 DEF CopyFails, TaskTypes, StoreTypes, Locked, Moved, history, Stopped, Movers,
        Moves
  <1>30. CASE UNCHANGED vars
    BY <1>30 DEF vars, tasks, history, TaskTypes, StoreTypes, Locked, Moved, tasks, history,
       Stopped, Movers, Moves, NoMove, PassOver
  <1>. QED BY <1>1, <1>2, <1>3, <1>4, <1>5, <1>6, <1>7, <1>8, <1>9, <1>10, <1>11, <1>12, <1>13,
     <1>14, <1>15, <1>16, <1>17, <1>18, <1>19, <1>20, <1>21, <1>22, <1>23, <1>24, <1>25, <1>26,
     <1>27, <1>28, <1>29, <1>30 DEF Next, Pushing, Pinning, Evicting, Collecting, Copying,
     Purging, Moving, Proving

LEMMA BackedKept ==
    ASSUME IInv, [Next]_vars
    PROVE  Backed'
  <1>. USE DEF IInv
  <1>1. CASE Day
    BY <1>1 DEF Day, Backed, Known, Held, Whole, RowTypes, StoreTypes, TaskTypes, Locked,
        Moved, tasks, history
  <1>2. CASE Restart
    <2>1. /\ Known' = Known /\ home' = home /\ gc' = NoGc
          /\ \A u \in Pushers : push'[u].at = "idle"
          /\ \A p \in Held : rows[p].info.nar \in nars[home] => rows[p].info.nar \in nars'[home]
          /\ rows' = rows
      BY <1>2 DEF Restart, history, Known, Held, Named, NoPush, StoreTypes
    <2>2. mover'.at # "delta"
      <3>1. move.state \in {"none", "copying", "flipping", "deleting"}
        BY DEF TaskTypes, Moves
      <3>. QED BY <1>2, <3>1 DEF Restart, Stopped
    <2>3. \A u \in Pushers : push'[u].at # "records"
      BY <2>1
    <2>4. Whole'
      BY <2>1 DEF Backed, Whole, Known
    <2>. QED BY <2>1, <2>2, <2>3, <2>4 DEF Backed, NoGc
  <1>3. CASE collect
    BY <1>3 DEF collect, Backed, Known, Held, Whole, RowTypes, StoreTypes, TaskTypes, Locked,
        Moved, history, NoGc, Collections
  <1>4. CASE collectNow
    BY <1>4 DEF collectNow, Backed, Known, Held, Whole, RowTypes, StoreTypes, TaskTypes,
        Locked, Moved, Nobody, Collections
  <1>5. ASSUME NEW p \in Paths, NEW n \in Nars, Evict(p, n) PROVE Backed'
    <2>1. /\ UNCHANGED <<home, nars, push, move, mover>> /\ gc.at = "evicts"
          /\ Known' \subseteq Known /\ Held' = Held \ {p} /\ Known' = Held' \ stale'
          /\ gc'.at = "evicts" /\ gc'.store = gc.store
          /\ \A q \in Held' : rows'[q] = rows[q]
          /\ gc'.nar = {m \in {n} : \A q \in Held \ {p} : HashOf[rows[q].info.nar] # HashOf[m]}
      BY <1>5 DEF Evict, Known, Held, RowTypes, NoRow, TaskTypes, Collections
    <2>2. \A q \in Known' : rows'[q].info.nar \notin gc'.nar
      BY <2>1
    <2>3. Whole'
      BY <2>1 DEF Backed, Whole, Known
    <2>. QED BY <2>1, <2>2, <2>3 DEF Backed
  <1>6. CASE DeleteNar
    BY CacheAssumption, CacheNames, <1>6 DEF DeleteNar, Backed, Known, Held, Whole, RowTypes,
        StoreTypes, TaskTypes, Locked, Moved, tasks, history, Nobody, NoGc, NoPush, Stopped,
        Collections, Movers, Moves, Pushed
  <1>7. CASE sweepOrphans
    <2>1. /\ UNCHANGED <<home, rows, push, move, mover, stale>> /\ gc' = NoGc
          /\ gc.at = "evicts" /\ nars' = [nars EXCEPT ![gc.store] = @ \cap Named]
      BY <1>7 DEF sweepOrphans, history
    <2>2. Known' = Known /\ Held' = Held
      BY <2>1 DEF Known, Held
    <2>3. \A p \in Held : rows[p].info.nar \in nars[home] => rows[p].info.nar \in nars'[home]
      BY <2>1 DEF Named, StoreTypes
    <2>4. Whole'
      BY <2>1, <2>2, <2>3 DEF Backed, Whole, Known
    <2>5. mover.at # "delta" /\ \A u \in Pushers : push[u].at # "records"
      BY <2>1, CacheNames DEF Locked
    <2>. QED BY <2>1, <2>2, <2>4, <2>5 DEF Backed, NoGc
  <1>8. CASE CollectFails
    BY <1>8 DEF CollectFails, Backed, Known, Held, Whole, RowTypes, StoreTypes, TaskTypes,
        Locked, Moved, history, Nobody, NoGc, Collections
  <1>9. ASSUME NEW k \in Pins, pin(k) PROVE Backed'
    BY <1>9 DEF pin, Backed, Known, Held, Whole, RowTypes, StoreTypes, TaskTypes, Locked,
        Moved, tasks, history, Nobody
  <1>10. ASSUME NEW k \in Pins, pinDelete(k) PROVE Backed'
    BY <1>10 DEF pinDelete, Backed, Known, Held, Whole, RowTypes, StoreTypes, TaskTypes,
        Locked, Moved, tasks, history, Nobody
  <1>11. ASSUME NEW n \in Nars, CopyRead(n) PROVE Backed'
    BY <1>11 DEF CopyRead, Backed, Known, Held, Whole, RowTypes, StoreTypes, TaskTypes, Locked,
        Moved, history, Movers, Moves
  <1>12. ASSUME NEW n \in Nars, CopyPut(n) PROVE Backed'
    BY <1>12 DEF CopyPut, Backed, Known, Held, Whole, RowTypes, StoreTypes, TaskTypes, Locked,
        Moved, history, Movers, Moves
  <1>13. CASE NextPass
    <2>1. mover'.at # "delta" /\ UNCHANGED <<home, rows, nars, push, gc, stale>>
      BY <1>13 DEF NextPass, Stopped, TaskTypes, Movers, history
    <2>2. Known' = Known /\ Held' = Held
      BY <2>1 DEF Known, Held
    <2>. QED BY <2>1, <2>2 DEF Backed, Whole, Known
  <1>14. CASE FlipLocks
    <2>1. /\ UNCHANGED <<home, rows, nars, push, gc, move, stale>>
          /\ mover'.todo = Named
      BY <1>14 DEF FlipLocks, TaskTypes, Movers, history
    <2>2. Known' = Known /\ Held' = Held
      BY <2>1 DEF Known, Held
    <2>3. \A p \in Known : rows[p].info.nar \in mover'.todo
      BY <2>1 DEF Named, Known
    <2>. QED BY <2>1, <2>2, <2>3 DEF Backed, Whole, Known
  <1>15. CASE Flip
    <2>1. /\ UNCHANGED <<rows, nars, push, gc, move, stale>> /\ home' = move.to
          /\ mover.at = "delta" /\ mover.todo = {} /\ mover.open = {} /\ mover'.at = "flipped"
      BY <1>15 DEF Flip, PassOver, history, Stopped
    <2>2. Known' = Known /\ Held' = Held
      BY <2>1 DEF Known, Held
    <2>3. \A p \in Known : rows[p].info.nar \in nars[move.to]
      BY <2>1 DEF Backed
    <2>4. \A u \in Pushers : push[u].at # "records"
      BY <2>1, CacheNames DEF Locked
    <2>. QED BY <2>1, <2>2, <2>3, <2>4 DEF Backed, Whole, Known
  <1>16. CASE Flipped
    BY <1>16 DEF Flipped, Backed, Known, Held, Whole, RowTypes, StoreTypes, TaskTypes, Locked,
        Moved, history, Movers, Moves
  <1>17. ASSUME NEW n \in Nars, purgeKeys(n) PROVE Backed'
    BY <1>17 DEF purgeKeys, Backed, Known, Held, Whole, RowTypes, StoreTypes, TaskTypes,
        Locked, Moved, history, Movers, Moves
  <1>18. CASE MoveDone
    BY <1>18 DEF MoveDone, Backed, Known, Held, Whole, RowTypes, StoreTypes, TaskTypes, Locked,
        Moved, history, Stopped, Movers, Moves
  <1>19. CASE proveSelf
    BY <1>19 DEF proveSelf, Backed, Known, Held, Whole, RowTypes, StoreTypes, TaskTypes,
        Locked, Moved, history
  <1>20. ASSUME NEW p \in Paths, ProofRead(p) PROVE Backed'
    BY <1>20 DEF ProofRead, Backed, Known, Held, Whole, RowTypes, StoreTypes, TaskTypes,
        Locked, Moved, history
  <1>21. ASSUME NEW p \in Paths, ProofWrite(p) PROVE Backed'
    <2>1. /\ UNCHANGED <<home, nars, gc, push, mover, move>>
          /\ stale' = IF rows[p].held /\ rows[p].info = prover.seen[p].info
                      THEN stale ELSE stale \cup {p}
      BY <1>21 DEF ProofWrite
    <2>2. /\ Held' = Held \cup {p} /\ rows'[p].info = prover.seen[p].info
          /\ \A q \in Paths \ {p} : rows'[q] = rows[q]
      BY <1>21, ProofWritten
    <2>3. Known' \subseteq Known /\ \A q \in Known' : rows'[q].info = rows[q].info
      BY <2>1, <2>2 DEF Known, Held
    <2>. QED BY <2>1, <2>3 DEF Backed, Whole, Known
  <1>22. ASSUME NEW u \in Pushers, acceptNarinfo(u) PROVE Backed'
    BY <1>22 DEF acceptNarinfo, Backed, Known, Held, Whole, RowTypes, StoreTypes, TaskTypes,
        Locked, Moved, history, NoPush, Pushed
  <1>23. ASSUME NEW u \in Pushers, PushLocks(u) PROVE Backed'
    BY <1>23 DEF PushLocks, Backed, Known, Held, Whole, RowTypes, StoreTypes, TaskTypes,
        Locked, Moved, history, Nobody, NoPush, Pushed
  <1>24. ASSUME NEW u \in Pushers, Keep(u) PROVE Backed'
    BY <1>24 DEF Keep, Backed, Known, Held, Whole, RowTypes, StoreTypes, TaskTypes, Locked,
        Moved, history, NoPush, Pushed
  <1>25. ASSUME NEW u \in Pushers, Refuse(u) PROVE Backed'
    BY <1>25 DEF Refuse, Backed, Known, Held, Whole, RowTypes, StoreTypes, TaskTypes, Locked,
        Moved, history, Nobody, NoPush, Pushed
  <1>26. ASSUME NEW u \in Pushers, recordNow(u) PROVE Backed'
    <2>. DEFINE p == push[u].path
    <2>1. /\ UNCHANGED <<home, nars, gc, mover, move>> /\ stale' = stale \ {p}
          /\ push[u].at = "records" /\ push' = [push EXCEPT ![u] = NoPush]
      BY <1>26 DEF recordNow
    <2>2. /\ Held' = Held \cup {p} /\ rows'[p].info = push[u].info
          /\ \A q \in Paths \ {p} : rows'[q] = rows[q]
      BY <1>26, PushWritten
    <2>3. Known' = Known \cup {p}
      BY <2>1, <2>2 DEF Known, Held
    <2>4. push[u].info.nar \in nars[home] /\ gc.nar = {} /\ mover.at # "delta"
      BY <2>1, CacheNames DEF Backed, Locked
    <2>5. \A v \in Pushers : push'[v].at = "records" => push'[v] = push[v]
      BY <2>1 DEF TaskTypes, NoPush
    <2>6. Whole'
      BY <2>1, <2>2, <2>3, <2>4 DEF Backed, Whole, Known, Held
    <2>. QED BY <2>1, <2>4, <2>5, <2>6 DEF Backed
  <1>27. ASSUME NEW p \in Paths, missing(p) PROVE Backed'
    BY <1>27 DEF missing, Backed, Known, Held, Whole, RowTypes, StoreTypes, TaskTypes, Locked,
        Moved, tasks, Collections
  <1>28. ASSUME NEW s \in Stores, migrateStore(s) PROVE Backed'
    BY <1>28 DEF migrateStore, Backed, Known, Held, Whole, RowTypes, StoreTypes, TaskTypes,
        Locked, Moved, history, Nobody, Stopped, Movers, Moves
  <1>29. CASE CopyFails
    BY <1>29 DEF CopyFails, Backed, Known, Held, Whole, RowTypes, StoreTypes, TaskTypes,
        Locked, Moved, history, Nobody, Stopped, Movers, Moves
  <1>30. CASE UNCHANGED vars
    BY <1>30 DEF vars, tasks, history, Backed, Known, Held, Whole, RowTypes, StoreTypes,
       TaskTypes, Locked, Moved, tasks, history, Nobody, NoGc, NoPush, Stopped, Collections,
       Movers, Moves, Pushed
  <1>. QED BY <1>1, <1>2, <1>3, <1>4, <1>5, <1>6, <1>7, <1>8, <1>9, <1>10, <1>11, <1>12, <1>13,
     <1>14, <1>15, <1>16, <1>17, <1>18, <1>19, <1>20, <1>21, <1>22, <1>23, <1>24, <1>25, <1>26,
     <1>27, <1>28, <1>29, <1>30 DEF Next, Pushing, Pinning, Evicting, Collecting, Copying,
     Purging, Moving, Proving


LEMMA SnapshotKept ==
    ASSUME IInv, [Next]_vars
    PROVE  Snapshot'
  <1>. USE DEF IInv
  <1>1. CASE prover' = prover
    BY <1>1 DEF Snapshot
  <1>2. CASE prover' = NoProof
    BY <1>2 DEF Snapshot, NoProof
  <1>3. CASE proveSelf
    BY <1>3 DEF proveSelf, Snapshot, RowTypes, Held
  <1>4. ASSUME NEW p \in Paths, ProofRead(p) \/ ProofWrite(p) PROVE Snapshot'
    BY ZenonT(90), <1>4 DEF ProofRead, ProofWrite, Snapshot, TaskTypes, Provers
  <1>5. prover' \in {prover, NoProof} \/ proveSelf \/ Proving
    BY DEF Next, vars, tasks, Day, Restart, collect, Collecting, collectNow, Evicting, Evict,
           DeleteNar, sweepOrphans, CollectFails, Pinning, pin, pinDelete, Moving, Copying,
           CopyRead, CopyPut, NextPass, FlipLocks, Flip, Flipped, Purging, purgeKeys, MoveDone,
           Pushing, acceptNarinfo, PushLocks, Keep, Refuse, recordNow, missing, migrateStore,
           CopyFails
  <1>. QED BY <1>1, <1>2, <1>3, <1>4, <1>5 DEF Proving

-----------------------------------------------------------------------------
(* What a collection may take.                                             *)

\* The closure of the roots is closed, and holds them.
LEMMA ReachedClosed ==
    ASSUME RowTypes, NEW R \in SUBSET Paths, NEW K \in SUBSET Paths
    PROVE  /\ R \subseteq Reached(R, K) /\ Reached(R, K) \subseteq Paths
           /\ Closed(Reached(R, K), K)
  <1>1. R \subseteq Reached(R, K) /\ Reached(R, K) \subseteq Paths
    BY DEF Reached
  <1>2. ASSUME NEW q \in Reached(R, K) \cap K, NEW r \in rows[q].info.refs
        PROVE  r \in Reached(R, K)
    <2>1. r \in Paths
      BY <1>2 DEF RowTypes, Row
    <2>2. ASSUME NEW C \in SUBSET Paths, R \subseteq C, Closed(C, K) PROVE r \in C
      BY <2>2 DEF Reached, Closed
    <2>. QED BY <2>1, <2>2 DEF Reached
  <1>. QED BY <1>1, <1>2 DEF Closed

\* It is the least such set.
LEMMA ReachedLeast ==
    ASSUME NEW R, NEW K, NEW C \in SUBSET Paths, R \subseteq C, Closed(C, K)
    PROVE  Reached(R, K) \subseteq C
  BY DEF Reached

\* Fewer roots and fewer rows reach less: what is spared stays spared.
LEMMA SparedStays ==
    ASSUME IInv, gc'.at = "evicts" => gc.at = "evicts" /\ Doomed' \subseteq Doomed \cap Held',
           Fresh' \subseteq Fresh, Pinned' \subseteq Pinned, Known' \subseteq Known,
           \A q \in Known' : rows'[q].info = rows[q].info
    PROVE  Spared'
  <1>. SUFFICES ASSUME gc'.at = "evicts" PROVE Spared'
    BY DEF Spared
  <1>1. PICK C \in SUBSET Paths : /\ C \cap Doomed = {} /\ Fresh \cup Pinned \subseteq C
                                 /\ Closed(C, Known)
    BY DEF IInv, Spared
  <1>2. /\ C \cap Doomed' = {} /\ Fresh' \cup Pinned' \subseteq C
        /\ \A q \in C \cap Known' : rows'[q].info.refs \subseteq C
    BY <1>1 DEF Closed
  <1>. QED BY <1>2 DEF Spared, Closed

\* The plan leaves out what its two closures hold.
LEMMA PlanSpares ==
    ASSUME IInv, collectNow
    PROVE  Spared'
  <1>. USE DEF IInv
  <1>. DEFINE F == {q \in Held : ~expired(q)}
              C == closureOf(F) \cup closureOf(Pinned)
  <1>1. /\ gc'.plan = {<<p, rows[p].info.nar>> : p \in planGc} /\ asked' = {}
        /\ UNCHANGED <<rows, clock, pins, stale>>
    BY DEF collectNow, TaskTypes, Collections
  <1>2. Held' = Held /\ Known' = Known /\ Pinned' = Pinned /\ Fresh' = F
    BY <1>1 DEF Held, Known, Pinned, Fresh, expired
  <1>3. F \in SUBSET Paths /\ Pinned \in SUBSET Paths /\ Held \in SUBSET Paths /\ Known \subseteq Held
    BY DEF Held, Pinned, Known, StoreTypes
  <1>. HIDE DEF F
  <1>4. /\ F \subseteq closureOf(F) /\ Pinned \subseteq closureOf(Pinned) /\ C \in SUBSET Paths
        /\ Closed(closureOf(F), Held) /\ Closed(closureOf(Pinned), Held)
    BY <1>3, ReachedClosed DEF closureOf
  <1>5. Closed(C, Known)
    BY <1>3, <1>4 DEF Closed
  <1>6. planGc \subseteq Held /\ C \cap planGc = {}
    BY DEF planGc, F, Pinned
  <1>7. Doomed' \subseteq planGc
    BY <1>1 DEF Doomed
  <1>8. /\ C \in SUBSET Paths /\ C \cap Doomed' = {} /\ Doomed' \subseteq Held'
        /\ Fresh' \cup Pinned' \subseteq C
    BY <1>2, <1>4, <1>6, <1>7
  <1>. HIDE DEF C
  <1>9. \A q \in C \cap Known' : rows'[q].info.refs \subseteq C
    BY <1>1, <1>2, <1>5 DEF Closed
  <1>. QED BY <1>8, <1>9 DEF Spared, Closed

LEMMA PlannedKept ==
    ASSUME IInv, [Next]_vars
    PROVE  Planned'
  <1>. USE DEF IInv
  <1>1. ASSUME gc'.plan \subseteq gc.plan PROVE Planned'
    BY <1>1 DEF Planned
  <1>2. CASE collectNow
    <2>1. gc'.plan = {<<p, rows[p].info.nar>> : p \in planGc}
      BY <1>2 DEF collectNow, TaskTypes, Collections
    <2>. QED BY <2>1 DEF Planned
  <1>3. \/ gc' = gc \/ gc' = [gc EXCEPT !.nar = {}] \/ gc' = NoGc
        \/ collect \/ collectNow \/ Evicting
    BY DEF Next, vars, tasks, Day, Restart, Collecting,
           DeleteNar, sweepOrphans, CollectFails, Pinning, pin, pinDelete, Moving, Copying,
           CopyRead, CopyPut, NextPass, FlipLocks, Flip, Flipped, Purging, purgeKeys, MoveDone,
           Pushing, acceptNarinfo, PushLocks, Keep, Refuse, recordNow, missing, migrateStore,
           CopyFails, proveSelf, Proving, ProofRead, ProofWrite
  <1>4. CASE collect
    BY <1>1, <1>4 DEF collect, NoGc
  <1>5. ASSUME NEW p \in Paths, NEW n \in Nars, Evict(p, n) PROVE Planned'
    <2>1. gc'.plan = gc.plan \ {<<p, n>>}
      BY <1>5 DEF Evict, TaskTypes, Collections
    <2>. QED BY <1>1, <2>1
  <1>6. CASE gc' = gc \/ gc' = [gc EXCEPT !.nar = {}] \/ gc' = NoGc
    BY <1>1, <1>6 DEF NoGc, TaskTypes, Collections
  <1>. QED BY <1>2, <1>3, <1>4, <1>5, <1>6 DEF Evicting

LEMMA SparedKept ==
    ASSUME IInv, [Next]_vars
    PROVE  Spared'
  <1>. USE DEF IInv
  <1>1. ASSUME UNCHANGED <<rows, clock, pins, asked, stale>>,
               gc'.at = "evicts" => gc.at = "evicts" /\ gc'.plan = gc.plan
        PROVE  Spared'
    <2>1. Held' = Held /\ Known' = Known /\ Pinned' = Pinned /\ Fresh' = Fresh
      BY <1>1 DEF Held, Known, Pinned, Fresh, expired
    <2>2. gc'.at = "evicts" => Doomed' = Doomed
      BY <1>1 DEF Doomed
    <2>. QED BY <1>1, <2>1, <2>2, SparedStays DEF Spared
  <1>2. CASE gc.at # "evicts" /\ gc' = gc
    BY <1>2 DEF Spared
  <1>3. CASE collectNow
    BY <1>3, PlanSpares
  <1>4. CASE Day
    <2>1. clock' = clock + 1 /\ UNCHANGED <<rows, pins, asked, stale, gc>>
      BY <1>4 DEF Day, tasks, history
    <2>2. clock \in Nat /\ Retention \in Nat /\ \A q \in Paths : rows[q].wanted \in Nat
      BY CacheAssumption DEF RowTypes, Row
    <2>3. Fresh' \subseteq Fresh
      BY <2>1, <2>2 DEF Fresh, expired, Held
    <2>4. Held' = Held /\ Known' = Known /\ Pinned' = Pinned /\ Doomed' = Doomed
      BY <2>1 DEF Held, Known, Pinned, Doomed
    <2>. QED BY <2>1, <2>3, <2>4, SparedStays DEF Spared
  <1>5. ASSUME NEW p \in Paths, NEW n \in Nars, Evict(p, n) PROVE Spared'
    <2>1. /\ Held' = Held \ {p} /\ stale' = stale \ {p} /\ UNCHANGED <<clock, pins, asked>>
          /\ \A q \in Paths \ {p} : rows'[q] = rows[q]
          /\ gc.at = "evicts" /\ gc'.plan = gc.plan \ {<<p, n>>}
      BY <1>5 DEF Evict, Held, RowTypes, NoRow, TaskTypes, Collections
    <2>2. Fresh' \subseteq Fresh /\ Known' \subseteq Known /\ p \notin Known'
      BY <2>1 DEF Fresh, Known, expired, Held
    <2>3. Pinned' = Pinned
      BY <2>1 DEF Pinned
    <2>4. Doomed' \subseteq Doomed \cap Held'
      <3>1. p \notin Doomed'
        BY <1>5, <2>1 DEF Doomed, Planned, Evict
      <3>2. Doomed' \subseteq Doomed /\ Doomed \subseteq Held
        BY <2>1 DEF Doomed, Spared
      <3>. QED BY <2>1, <3>1, <3>2
    <2>5. \A q \in Known' : rows'[q].info = rows[q].info
      BY <2>1, <2>2 DEF Known, Held
    <2>. QED BY <2>1, <2>2, <2>3, <2>4, <2>5, SparedStays DEF Spared
  <1>6. ASSUME NEW p \in Paths, missing(p) PROVE Spared'
    <2>1. /\ Held' = Held /\ UNCHANGED <<clock, pins, stale, gc>>
          /\ \A q \in Paths \ {p} : rows'[q] = rows[q]
          /\ asked' = IF gc.at = "evicts" THEN asked \cup {p} ELSE asked
      BY <1>6 DEF missing, Held, RowTypes, tasks
    <2>2. /\ Known' = Known /\ Pinned' = Pinned /\ Doomed' = Doomed
          /\ \A q \in Known : rows'[q].info = rows[q].info
      BY <1>6, <2>1 DEF Known, Pinned, Doomed, missing, RowTypes, Row, Held
    <2>3. gc.at = "evicts" => Fresh' \subseteq Fresh
      BY <2>1 DEF Fresh, expired, Held
    <2>4. CASE gc.at = "evicts"
      BY <2>1, <2>2, <2>3, <2>4, SparedStays DEF Spared
    <2>. QED BY <1>2, <2>1, <2>4
  <1>7. ASSUME NEW p \in Paths, ProofWrite(p) PROVE Spared'
    <2>1. /\ UNCHANGED <<clock, pins, asked, gc>>
          /\ stale' = IF rows[p].held /\ rows[p].info = prover.seen[p].info
                      THEN stale ELSE stale \cup {p}
      BY <1>7 DEF ProofWrite
    <2>2. /\ Held' = Held \cup {p} /\ rows'[p].info = prover.seen[p].info
          /\ \A q \in Paths \ {p} : rows'[q] = rows[q]
          /\ rows[p].held => rows'[p].wanted = rows[p].wanted
      BY <1>7, ProofWritten
    <2>3. /\ Known' \subseteq Known /\ Pinned' = Pinned /\ Doomed' = Doomed
          /\ \A q \in Known' : rows'[q].info = rows[q].info
      BY <2>1, <2>2 DEF Known, Held, Pinned, Doomed
    <2>4. CASE rows[p].held
      <3>1. Fresh' \subseteq Fresh
        BY <2>1, <2>2, <2>4 DEF Fresh, expired, Held
      <3>. QED BY <2>1, <2>2, <2>3, <3>1, SparedStays DEF Spared
    <2>5. CASE ~rows[p].held
      <3>. SUFFICES ASSUME gc.at = "evicts" PROVE Spared'
        BY <1>2, <2>1
      <3>1. PICK C \in SUBSET Paths : /\ C \cap Doomed = {} /\ Fresh \cup Pinned \subseteq C
                                     /\ Closed(C, Known)
        BY DEF Spared
      <3>2. Fresh' \subseteq Fresh \cup {p} /\ p \notin Doomed /\ p \notin Known'
        BY <2>1, <2>2, <2>3, <2>5 DEF Fresh, expired, Held, Known, Spared
      <3>3. C \cup {p} \in SUBSET Paths
        OBVIOUS
      <3>4. /\ (C \cup {p}) \cap Doomed' = {} /\ Fresh' \cup Pinned' \subseteq C \cup {p}
            /\ \A q \in (C \cup {p}) \cap Known' : rows'[q].info.refs \subseteq C \cup {p}
        BY <2>1, <2>3, <3>1, <3>2 DEF Closed
      <3>5. Doomed' \subseteq Held'
        BY <2>2, <2>3 DEF Spared
      <3>. QED BY <3>3, <3>4, <3>5 DEF Spared, Closed
    <2>. QED BY <2>4, <2>5
  <1>8. CASE Pinning \/ \E u \in Pushers : recordNow(u)
    <2>1. gc.at # "evicts" /\ gc' = gc
      <3>1. CASE Pinning
        BY <3>1, CacheNames DEF Pinning, pin, pinDelete, Locked, Free, Nobody, tasks
      <3>2. ASSUME NEW u \in Pushers, recordNow(u) PROVE gc.at # "evicts" /\ gc' = gc
        <4>1. push[u].at = "records" /\ gc' = gc
          BY <3>2 DEF recordNow
        <4>. QED BY <4>1, CacheNames DEF Locked
      <3>. QED BY <1>8, <3>1, <3>2
    <2>. QED BY <2>1 DEF Spared
  <1>9. CASE collect \/ DeleteNar \/ sweepOrphans \/ CollectFails \/ Restart
    <2>1. UNCHANGED <<rows, clock, pins, asked, stale>>
      BY <1>9 DEF collect, DeleteNar, sweepOrphans, CollectFails, Restart, history
    <2>2. gc' = [gc EXCEPT !.nar = {}] \/ gc' = NoGc \/ gc'.at = "waits"
      BY <1>9 DEF collect, DeleteNar, sweepOrphans, CollectFails, Restart, NoGc
    <2>3. gc'.at = "evicts" => gc.at = "evicts" /\ gc'.plan = gc.plan
      BY <2>2 DEF NoGc, TaskTypes, Collections
    <2>. QED BY <1>1, <2>1, <2>3
  <1>10. CASE Moving \/ proveSelf \/ (\E s \in Stores : migrateStore(s))
    <2>1. UNCHANGED <<rows, clock, pins, asked, stale, gc>>
      BY <1>10 DEF Moving, Copying, CopyRead, CopyPut, NextPass, FlipLocks, Flip, Flipped, Purging,
                  purgeKeys, MoveDone, proveSelf, migrateStore, CopyFails, history
    <2>. QED BY <1>1, <2>1
  <1>11. CASE \/ \E p \in Paths : ProofRead(p)
              \/ \E u \in Pushers : acceptNarinfo(u) \/ PushLocks(u) \/ Keep(u) \/ Refuse(u)
              \/ UNCHANGED vars
    <2>1. UNCHANGED <<rows, clock, pins, asked, stale, gc>>
      BY <1>11 DEF ProofRead, acceptNarinfo, PushLocks, Keep, Refuse, history, vars, tasks
    <2>. QED BY <1>1, <2>1
  <1>. QED BY <1>3, <1>4, <1>5, <1>6, <1>7, <1>8, <1>9, <1>10, <1>11
           DEF Next, Collecting, Evicting, Proving, Pushing

LEMMA PinsKept ==
    ASSUME IInv, [Next]_vars
    PROVE  PinsHold'
  <1>. USE DEF IInv
  <1>1. ASSUME pins' = pins, Held \subseteq Held' PROVE PinsHold'
    BY <1>1 DEF PinsHold
  <1>2. ASSUME NEW k \in Pins, pin(k) \/ pinDelete(k) PROVE PinsHold'
    BY <1>2 DEF pin, pinDelete, PinsHold, StoreTypes, Held
  <1>3. ASSUME NEW p \in Paths, NEW n \in Nars, Evict(p, n) PROVE PinsHold'
    <2>1. pins' = pins /\ Held' = Held \ {p} /\ p \in Doomed /\ gc.at = "evicts"
      BY <1>3 DEF Evict, Held, RowTypes, NoRow, Doomed
    <2>2. \A k \in Pins : p \notin pins[k]
      BY <2>1 DEF Spared, Pinned
    <2>. QED BY <2>1, <2>2 DEF PinsHold
  <1>4. ASSUME NEW p \in Paths, ProofWrite(p) \/ missing(p) PROVE PinsHold'
    <2>1. CASE ProofWrite(p)
      BY <1>1, <2>1, ProofWritten DEF ProofWrite
    <2>2. CASE missing(p)
      BY <1>1, <2>2 DEF missing, Held, RowTypes, Row
    <2>. QED BY <1>4, <2>1, <2>2
  <1>5. ASSUME NEW u \in Pushers, recordNow(u) PROVE PinsHold'
    BY <1>1, <1>5, PushWritten DEF recordNow
  <1>6. \/ pins' = pins /\ rows' = rows
        \/ Pinning \/ Evicting \/ \E p \in Paths : ProofWrite(p) \/ missing(p)
        \/ \E u \in Pushers : recordNow(u)
    BY DEF Next, vars, tasks, Day, Restart, collect, Collecting, collectNow,
           DeleteNar, sweepOrphans, CollectFails, Moving, Copying,
           CopyRead, CopyPut, NextPass, FlipLocks, Flip, Flipped, Purging, purgeKeys, MoveDone,
           Pushing, acceptNarinfo, PushLocks, Keep, Refuse, migrateStore,
           CopyFails, proveSelf, Proving, ProofRead
  <1>7. CASE pins' = pins /\ rows' = rows
    BY <1>1, <1>7 DEF Held
  <1>. QED BY <1>2, <1>3, <1>4, <1>5, <1>6, <1>7 DEF Pinning, Evicting

-----------------------------------------------------------------------------
(* The theorems.                                                           *)

LEMMA InitIInv == Init => IInv
  <1>. SUFFICES ASSUME Init PROVE IInv
    OBVIOUS
  <1>1. home \in Stores
    BY CacheAssumption DEF Init
  <1>. DEFINE old(p) == [wanted |-> 0, held |-> TRUE, proved |-> FALSE, info |-> Old[p]]
  <1>2. /\ NoRow \in Row /\ ~NoRow.held
        /\ \A p \in DOMAIN Old : /\ p \in Paths /\ Old[p] \in Info
                               /\ old(p) \in Row /\ old(p).held /\ old(p).info = Old[p]
    <2>1. NoRow \in Row /\ ~NoRow.held
      BY CacheAssumption DEF NoRow, NoInfo, Row
    <2>2. ASSUME NEW p \in DOMAIN Old
          PROVE  /\ p \in Paths /\ Old[p] \in Info
                 /\ old(p) \in Row /\ old(p).held /\ old(p).info = Old[p]
      <3>1. p \in Paths /\ Old[p] \in Info
        BY CacheAssumption DEF Info
      <3>2. old(p) = [wanted |-> 0, held |-> TRUE, proved |-> FALSE, info |-> Old[p]]
        BY DEF old
      <3>. HIDE DEF old
      <3>. QED BY <3>1, <3>2, CacheAssumption DEF Row, Info
    <2>. QED BY <2>1, <2>2
  <1>3. /\ rows = [p \in Paths |-> IF p \in DOMAIN Old THEN old(p) ELSE NoRow]
        /\ stale = {} /\ asked = {} /\ clock = 0 /\ stored = [p \in Paths |-> 0]
    BY DEF Init
  <1>. HIDE DEF old
  <1>4. /\ rows \in [Paths -> Row] /\ Held = DOMAIN Old /\ Known = DOMAIN Old
        /\ \A p \in Held : rows[p].info = Old[p]
    BY <1>2, <1>3 DEF Held, Known
  <1>5. RowTypes
    BY <1>2, <1>3, <1>4, CacheAssumption DEF RowTypes
  <1>6. StoreTypes
    BY <1>1, <1>2 DEF Init, StoreTypes, Info
  <1>7. TaskTypes
    <2>1. [p \in {} |-> NoRow] \in [{} -> Row]
      OBVIOUS
    <2>. QED BY <2>1 DEF Init, TaskTypes, NoPush, NoGc, NoMove, Stopped, NoProof, Collections,
                         Moves, Movers, Provers
  <1>8. Locked /\ Moved /\ Snapshot /\ Planned /\ Spared /\ PinsHold
    BY CacheNames DEF Init, Locked, Moved, Snapshot, Planned, Spared, PinsHold, NoGc, NoMove, NoPush,
                      NoProof, Stopped, Nobody
  <1>9. Backed
    <2>1. nars[home] = {Old[p].nar : p \in DOMAIN Old}
      BY <1>1 DEF Init
    <2>2. Whole
      BY <1>4, <2>1 DEF Whole
    <2>3. gc = NoGc /\ mover = Stopped /\ \A u \in Pushers : push[u] = NoPush
      BY DEF Init
    <2>. QED BY <2>2, <2>3 DEF Backed, NoGc, NoPush, Stopped
  <1>. QED BY <1>5, <1>6, <1>7, <1>8, <1>9 DEF IInv

LEMMA NextIInv == IInv /\ [Next]_vars => IInv'
  BY RowTypesKept, StoreTypesKept, TaskTypesKept, LockedKept, MovedKept, BackedKept, SnapshotKept,
     PlannedKept, SparedKept, PinsKept DEF IInv

LEMMA IInvInv == IInv => Inv /\ PinsHold
  <1>. SUFFICES ASSUME IInv PROVE TypeOK /\ Whole /\ PinsHold
    BY DEF Inv
  <1>1. \A u \in Pushers : push[u].at \in {"idle", "waits", "keeps", "records"}
    BY DEF IInv, TaskTypes, NoPush, Pushed
  <1>2. TypeOK
    BY <1>1 DEF IInv, RowTypes, StoreTypes, TaskTypes, Collections, Moves, Movers, TypeOK
  <1>. QED BY <1>2 DEF IInv, Backed

\* The bytes a row names are in the store the bucket names, whatever pushes,
\* pushes of other bytes for the path, collections, twins, moves and restarts
\* interleave (gc.ts, migrateStore.ts), unless the self-proof pass wrote the
\* row back over an eviction or a later push (cache.ts 1998-2039).
THEOREM RowsCanBeServed == Spec => []Inv
  BY InitIInv, NextIInv, IInvInv, PTL DEF Spec

\* What a pin was resolved to is held as long as the pin is there (cache.ts, gc.ts).
THEOREM PinsAreHeld == Spec => []PinsHold
  BY InitIInv, NextIInv, IInvInv, PTL DEF Spec

\* A row goes only when no pin and no fresh row reaches it, by the rows as they
\* are when it goes (gc.ts): renewals since the plan, and the references of rows
\* the self-proof pass wrote back, are what the write lock does not hold off.
THEOREM OnlyUnwantedGo == Spec => EvictsOnlyUnwanted
  <1>. DEFINE fresh == {q \in Held \ asked : ~expired(q)}
              Goes == \A p \in Held : ~rows'[p].held =>
                        p \notin Reached(fresh \cup UNION {pins[k] : k \in Pins}, Held \ stale)
  <1>1. ASSUME IInv, [Next]_vars, NEW p \in Held, ~rows'[p].held
        PROVE  p \notin Reached(fresh \cup UNION {pins[k] : k \in Pins}, Held \ stale)
    <2>. USE DEF IInv
    <2>1. gc.at = "evicts" /\ p \in Doomed
      <3>1. rows' = rows \/ Evicting \/ (\E q \in Paths : missing(q) \/ ProofWrite(q))
                \/ \E u \in Pushers : recordNow(u)
        BY <1>1 DEF Next, vars, tasks, Day, Restart, collect, Collecting, collectNow, Evicting,
           DeleteNar, sweepOrphans, CollectFails, Moving, Copying, Pinning, pin, pinDelete,
           CopyRead, CopyPut, NextPass, FlipLocks, Flip, Flipped, Purging, purgeKeys, MoveDone,
           Pushing, acceptNarinfo, PushLocks, Keep, Refuse, migrateStore,
           CopyFails, proveSelf, Proving, ProofRead
      <3>2. rows' # rows
        BY <1>1 DEF Held
      <3>3. ASSUME NEW q \in Paths, missing(q) \/ ProofWrite(q) PROVE FALSE
        <4>1. CASE ProofWrite(q)
          BY <1>1, <4>1, ProofWritten DEF Held
        <4>2. CASE missing(q)
          BY <1>1, <4>2 DEF missing, Held, RowTypes, Row
        <4>. QED BY <3>3, <4>1, <4>2
      <3>4. ASSUME NEW u \in Pushers, recordNow(u) PROVE FALSE
        BY <1>1, <3>4, PushWritten DEF Held
      <3>5. ASSUME NEW q \in Paths, NEW n \in Nars, Evict(q, n) PROVE gc.at = "evicts" /\ p \in Doomed
        BY <1>1, <3>5 DEF Evict, Held, RowTypes, Doomed
      <3>. QED BY <3>1, <3>2, <3>3, <3>4, <3>5 DEF Evicting
    <2>2. PICK C \in SUBSET Paths : /\ C \cap Doomed = {} /\ Fresh \cup Pinned \subseteq C
                                   /\ Closed(C, Known)
      <3>1. Spared
        BY <1>1
      <3>. QED BY <2>1, <3>1 DEF Spared
    <2>3. Reached(Fresh \cup Pinned, Known) \subseteq C
      BY <2>2, ReachedLeast
    <2>4. Reached(fresh \cup UNION {pins[k] : k \in Pins}, Held \ stale) \subseteq C
      BY <2>3 DEF Fresh, Pinned, Known
    <2>. QED BY <2>1, <2>2, <2>4
  <1>2. IInv /\ [Next]_vars => [Goes]_vars
    BY <1>1
  <1>3. [][Goes]_vars => EvictsOnlyUnwanted
    BY PTL DEF EvictsOnlyUnwanted
  <1>. QED BY <1>2, <1>3, InitIInv, NextIInv, PTL DEF Spec
=============================================================================
