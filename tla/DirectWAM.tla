------------------------------- MODULE DirectWAM -------------------------------
(***************************************************************************)
(* The wam_h16 ChampSim prefetcher: the delayed-training front end over a  *)
(* direct-mapped table of (context key, delta, confidence) entries.        *)
(***************************************************************************)
EXTENDS WAMFrontEnd, TableReplay

VARIABLES
  table,      \* table_
  slots       \* the diagnostic counters on table slots

vars == <<pending, history, counters, events, log, shadow, fills, final, table, slots>>

Init ==
  /\ FrontInit
  /\ table = [b \in Bucket |-> EmptyEntry]
  /\ slots = [insertions |-> 0, evictions |-> 0, reused_before_eviction |-> 0,
              reuses |-> [b \in Bucket |-> 0]]

----------------------------------------------------------------------------
(* slot(key): the entry that train() goes on to update.                    *)

Claims(key) ==
  LET c == table[BucketOf[key]]
  IN  ~c.valid \/ c.key = key \/ c.age = 0

Evicts(key) ==
  LET c == table[BucketOf[key]]
  IN  c.valid /\ c.key # key /\ c.age = 0

Inserts(key) == ~table[BucketOf[key]].valid \/ Evicts(key)

Slot(key) ==
  LET c == table[BucketOf[key]]
  IN  [key |-> IF Claims(key) THEN key ELSE c.key,
       delta |-> IF Evicts(key) THEN 0 ELSE c.delta,
       age |-> IF Claims(key) THEN MAX_AGE ELSE c.age - 1,
       confidence |-> IF Evicts(key) THEN 0 ELSE c.confidence,
       valid |-> TRUE]

\* Mutation of TrainedTable: the age protects a resident entry until it runs out.
TrainedTableAging(line) ==
  IF ~Due THEN table
  ELSE LET p == Head(pending)
       IN  [table EXCEPT ![BucketOf[p.key]] =
              IF Claims(p.key) THEN Learn(Slot(p.key), p.key, line - p.line)
              ELSE Slot(p.key)]

\* table_ after train(pending_.front().key, line), when a context is due.
TrainedTable(line) ==
  IF Due
    THEN LET p == Head(pending)
         IN  [table EXCEPT ![BucketOf[p.key]] =
                Learn(Slot(p.key), p.key, line - p.line)]
    ELSE table

TrainedSlots ==
  IF ~Due THEN slots
  ELSE LET key == Head(pending).key
           b == BucketOf[key]
       IN  [insertions |-> slots.insertions + Tick(Inserts(key)),
            evictions |-> slots.evictions + Tick(Evicts(key)),
            reused_before_eviction |-> slots.reused_before_eviction +
              Tick(Evicts(key) /\ slots.reuses[b] > 0),
            reuses |-> IF Inserts(key) THEN [slots.reuses EXCEPT ![b] = 0]
                       ELSE slots.reuses]

\* The entry the lookup of a formed context sees: the table after training.
Looked(line) == IF Formed(line) THEN TrainedTable(line)[BucketOf[FormedKey(line)]]
                ELSE EmptyEntry

Access(line, useful, accepted) ==
  /\ FrontAccess(line, useful, accepted, Looked(line))
  /\ table' = TrainedTable(line)
  /\ slots' = IF ContextHit(line, Looked(line))
       THEN [TrainedSlots EXCEPT !.reuses[BucketOf[FormedKey(line)]] = @ + 1]
       ELSE TrainedSlots

Next ==
  \/ \E line \in Line, useful, accepted \in BOOLEAN : Access(line, useful, accepted)
  \/ /\ PrefetchAccess \/ CacheFill \/ FinalStats
     /\ UNCHANGED <<table, slots>>

Spec == Init /\ [][Next]_vars

----------------------------------------------------------------------------
\* Type invariant.
TypeOK ==
  /\ FrontTypeOK
  /\ table \in [Bucket -> Entry]
  /\ slots \in [insertions : Nat, evictions : Nat, reused_before_eviction : Nat,
                reuses : [Bucket -> Nat]]

\* The entry e of bucket b is no more confident than the stream s justifies.
Supported(e, s, b) ==
  e.valid => /\ BucketOf[e.key] = b
             /\ e.confidence <= Cardinality(Evidence(s, e.key, e.delta))

\* An entry is never more confident than the stream justifies: confidence c
\* in (key, delta) means that at least c accesses with that context key were
\* followed, exactly HORIZON qualifying accesses later, at that displacement.
\* Holds across slot stealing, key aliasing and the decrement path.
ConfidenceSupported == \A b \in Bucket : Supported(table[b], events, b)

\* The positions whose outcome has arrived and whose context maps to bucket b.
TrainedInto(s, b) == {i \in Outcomes(s) : BucketOf[KeyAt(s, i)] = b}

\* The entry e of bucket b belongs to the context trained into b last.
Owned(e, s, b) ==
  /\ e.valid <=> TrainedInto(s, b) # {}
  /\ \A i \in TrainedInto(s, b) :
       (\A j \in TrainedInto(s, b) : j <= i) => e.key = KeyAt(s, i)

\* The age field protects nobody: whatever its confidence, an entry is displaced
\* by the first training of another context of its bucket, so a slot always
\* belongs to the context trained into it last.
LastTrainedOwnsSlot == \A b \in Bucket : Owned(table[b], events, b)

\* The analyzer's replay of the event log rebuilds the live table, its queue and
\* history, and its replacement counters, after every access: the numbers of the report that
\* come from the replay are those of the run that was recorded.
ReplayMatches ==
  LET r == Replay(events)
  IN  /\ r.table = table /\ r.pending = pending /\ r.history = history
      /\ r.insertions = slots.insertions
      /\ r.evictions = slots.evictions
      /\ r.reused = slots.reused_before_eviction
      /\ r.reuses = slots.reuses

\* Replacing a valid entry by one of another context counts as an eviction.
\* The final diagnostic report says "insertions, evictions, and
\* reuse-before-eviction are recorded", and concludes from the counter that
\* entries are never evicted.
ReplacementsCounted ==
  [][\A b \in Bucket :
       (table[b].valid /\ table'[b].key # table[b].key)
         => slots'.evictions = slots.evictions + 1]_vars
================================================================================
