------------------------------ MODULE SetAssocWAM ------------------------------
(***************************************************************************)
(* The set_associative_wam ChampSim prefetcher: the delayed-training front *)
(* end over sets of WAYS entries, replaced in round-robin order.  With     *)
(* diagnostics on it also trains a shadow of the direct-mapped table, to   *)
(* count the hits the direct-mapped table would have lost to aliasing.     *)
(***************************************************************************)
EXTENDS WAMFrontEnd, TableReplay

CONSTANTS
  Set,         \* set indices, 0 .. SETS - 1
  SetOf,       \* mix(key) % SETS
  WAYS

ASSUME TableAssumption ==
  /\ SetOf \in [Key -> Set]
  /\ WAYS \in Nat \ {0}

Way == 0 .. WAYS - 1

VARIABLES
  table,       \* table_[set][way]
  nextWay,     \* next_way_
  direct,      \* diagnostic_direct_shadow_
  slots        \* the diagnostic counters on table slots

vars == <<pending, history, counters, events, log, shadow, fills, final,
          table, nextWay, direct, slots>>

Init ==
  /\ FrontInit
  /\ table = [s \in Set |-> [w \in Way |-> EmptyEntry]]
  /\ nextWay = [s \in Set |-> 0]
  /\ direct = [b \in Bucket |-> EmptyEntry]
  /\ slots = [empty_way |-> 0, conflict |-> 0, reused_before |-> 0, alias_equivalent |-> 0,
              reuses |-> [s \in Set |-> [w \in Way |-> 0]]]

----------------------------------------------------------------------------
Least(W) == CHOOSE w \in W : \A v \in W : w <= v

\* The ways that find_way(key) would accept, in a table tb.
Holding(tb, key) == {w \in Way : tb[SetOf[key]][w].valid /\ tb[SetOf[key]][w].key = key}

Free(key) == {w \in Way : ~table[SetOf[key]][w].valid}

\* slot(key): the matching way, else an empty one, else the one the pointer names.
Replaces(key) == Holding(table, key) = {} /\ Free(key) = {}

\* Mutation of SelectedWay: an empty way is preferred to the matching one.
SelectedWayEmptyFirst(key) ==
  IF Free(key) # {} THEN Least(Free(key))
  ELSE IF Holding(table, key) # {} THEN Least(Holding(table, key))
  ELSE nextWay[SetOf[key]] % WAYS

SelectedWay(key) ==
  IF Holding(table, key) # {} THEN Least(Holding(table, key))
  ELSE IF Free(key) # {} THEN Least(Free(key))
  ELSE nextWay[SetOf[key]] % WAYS

\* Mutation of Slot: the replaced entry is not cleared.
SlotUncleared(key) ==
  [table[SetOf[key]][SelectedWay(key)] EXCEPT !.key = key, !.valid = TRUE, !.age = MAX_AGE]

Slot(key) ==
  IF Holding(table, key) # {}
    THEN [table[SetOf[key]][SelectedWay(key)] EXCEPT !.age = MAX_AGE]
    ELSE [EmptyEntry EXCEPT !.key = key, !.valid = TRUE, !.age = MAX_AGE]

\* Mutation of ShadowSlot: the key is not compared.
ShadowSlotGreedy(key) ==
  [direct[BucketOf[key]] EXCEPT !.key = key, !.valid = TRUE, !.age = MAX_AGE]

\* direct_shadow_train(): slot() and train() of the direct-mapped table.
ShadowSlot(key) ==
  LET c == direct[BucketOf[key]]
  IN  IF ~c.valid \/ c.key = key \/ c.age = 0
        THEN [c EXCEPT !.key = key, !.valid = TRUE, !.age = MAX_AGE]
        ELSE [c EXCEPT !.age = @ - 1]

\* train(pending_.front().key, line) at an access that has a context due.
TrainedTable(line) ==
  IF ~Due THEN table
  ELSE LET p == Head(pending)
       IN  [table EXCEPT ![SetOf[p.key]][SelectedWay(p.key)] =
              Learn(Slot(p.key), p.key, line - p.line)]

\* Mutation of TrainedPointer: it also moves when the key was resident.
TrainedPointerRestless ==
  IF Due /\ Free(Head(pending).key) = {}
    THEN [nextWay EXCEPT ![SetOf[Head(pending).key]] =
            (SelectedWay(Head(pending).key) + 1) % WAYS]
    ELSE nextWay

TrainedPointer ==
  IF Due /\ Replaces(Head(pending).key)
    THEN [nextWay EXCEPT ![SetOf[Head(pending).key]] =
            (SelectedWay(Head(pending).key) + 1) % WAYS]
    ELSE nextWay

TrainedDirect(line) ==
  IF ~Due THEN direct
  ELSE LET p == Head(pending)
       IN  [direct EXCEPT ![BucketOf[p.key]] = Learn(ShadowSlot(p.key), p.key, line - p.line)]

TrainedSlots ==
  IF ~Due THEN slots
  ELSE LET key == Head(pending).key
           s == SetOf[key]
           w == SelectedWay(key)
       IN  [slots EXCEPT
              !.empty_way = @ + Tick(Holding(table, key) = {} /\ Free(key) # {}),
              !.conflict = @ + Tick(Replaces(key)),
              !.reused_before = @ + Tick(Replaces(key) /\ slots.reuses[s][w] > 0),
              !.reuses[s][w] = 0]

\* The entry the lookup of a formed context finds: find_way() after training.
Looked(line) ==
  LET key == FormedKey(line)
      found == Holding(TrainedTable(line), key)
  IN  IF Formed(line) /\ found # {} THEN TrainedTable(line)[SetOf[key]][Least(found)]
      ELSE EmptyEntry

\* After the lookup.  A hit counts twice as a reuse of its slot: where the way is
\* found, and again in diagnostic_record_lookup().
CountedSlots(line) ==
  LET key == FormedKey(line)
      d == TrainedDirect(line)[BucketOf[key]]
      w == Least(Holding(TrainedTable(line), key))
  IN  IF ~ContextHit(line, Looked(line)) THEN TrainedSlots
      ELSE [TrainedSlots EXCEPT
              !.reuses[SetOf[key]][w] = @ + 2,
              !.alias_equivalent = @ + Tick(d.valid /\ d.key # key)]

Access(line, useful, accepted) ==
  /\ FrontAccess(line, useful, accepted, Looked(line))
  /\ table' = TrainedTable(line)
  /\ nextWay' = TrainedPointer
  /\ direct' = TrainedDirect(line)
  /\ slots' = CountedSlots(line)

Next ==
  \/ \E line \in Line, useful, accepted \in BOOLEAN : Access(line, useful, accepted)
  \/ /\ PrefetchAccess \/ CacheFill \/ FinalStats
     /\ UNCHANGED <<table, nextWay, direct, slots>>

Spec == Init /\ [][Next]_vars

----------------------------------------------------------------------------
\* Type invariant.
TypeOK ==
  /\ FrontTypeOK
  /\ table \in [Set -> [Way -> Entry]]
  /\ nextWay \in [Set -> Way]
  /\ direct \in [Bucket -> Entry]
  /\ slots \in [empty_way : Nat, conflict : Nat, reused_before : Nat,
                alias_equivalent : Nat, reuses : [Set -> [Way -> Nat]]]

\* A lookup is unambiguous: no two ways of a set hold the same key, and a key
\* sits in no other set than its own, through installs, replacements and
\* retraining; find_way() may stop at the first match.
LookupUnambiguous ==
  \A s \in Set : \A v, w \in Way :
    (table[s][v].valid /\ table[s][w].valid) =>
      /\ SetOf[table[s][v].key] = s
      /\ table[s][v].key = table[s][w].key => v = w

\* Confidence c in (key, delta) means at least c accesses with that context key
\* were followed, HORIZON qualifying accesses later, at that displacement.
\* A replaced entry takes its confidence with it.
ConfidenceSupported ==
  \A s \in Set, w \in Way :
    LET e == table[s][w]
    IN  e.valid => e.confidence <= Cardinality(Evidence(events, e.key, e.delta))

\* The shadow is the table that wam_h16 would have had on the same accesses:
\* the analyzer's replay of the log, the C++ copy here and DirectWAM agree, so
\* the alias counter compares the two organisations on equal terms.
DirectShadowFaithful == Replay(events).table = direct

Occupied(s) == {w \in Way : table[s][w].valid}

\* The resident keys of a set, the first installed first: a set that is not full
\* is filled from way 0, and in a full one the pointer names the oldest.
ResidentTags ==
  [s \in Set |-> LET n == Cardinality(Occupied(s))
                 IN  [i \in 1 .. n |-> table[s][(nextWay[s] + i - 1) % WAYS].key]]

Fifo == INSTANCE FifoTags WITH tags <- ResidentTags

\* The way array with its pointer implements a FIFO of keys per set.
ImplementsFifo == Fifo!Spec
================================================================================
