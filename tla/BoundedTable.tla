------------------------------ MODULE BoundedTable ------------------------------
(***************************************************************************)
(* The context table of DeltaContextPredictor (wam/real_predictors.py): a  *)
(* dictionary of at most EntryLimit keys, each with saturating counters of *)
(* the targets that followed it, and a queue of the keys in the order in   *)
(* which they came, whose head makes room for a new key.  The dictionary   *)
(* and the queue are two structures that only the code keeps in step.      *)
(***************************************************************************)
EXTENDS Integers, Sequences, FiniteSets

CONSTANTS
  EntryLimit,     \* budget_bytes // 16, at least 1
  CounterMax      \* 2^counter_bits - 1

ASSUME BoundedTableAssumption ==
  /\ EntryLimit \in Nat \ {0}
  /\ CounterMax \in Nat \ {0}

EmptyTable == [counts |-> <<>>, order |-> <<>>]

Saturated(v) == IF v < CounterMax THEN v + 1 ELSE CounterMax

\* The counters of a key after one more observation of target.
CountedTarget(seen, target) ==
  [t \in DOMAIN seen \cup {target} |->
     IF t # target THEN seen[t]
     ELSE Saturated(IF t \in DOMAIN seen THEN seen[t] ELSE 0)]

Full(table, key) ==
  key \notin DOMAIN table.counts /\ Cardinality(DOMAIN table.counts) >= EntryLimit

\* Mutation of MadeRoom: the queue's head is dropped, the dictionary keeps the key.
MadeRoomInQueue(table, key) ==
  IF Full(table, key) THEN [table EXCEPT !.order = Tail(@)] ELSE table

MadeRoom(table, key) ==
  IF Full(table, key)
  THEN [counts |-> [k \in DOMAIN table.counts \ {Head(table.order)} |-> table.counts[k]],
        order  |-> Tail(table.order)]
  ELSE table

\* One iteration of fit() for one key.
Inserted(table, key, target) ==
  LET room  == MadeRoom(table, key)
      known == key \in DOMAIN room.counts
      seen  == IF known THEN room.counts[key] ELSE <<>>
  IN  [counts |-> [k \in DOMAIN room.counts \cup {key} |->
                     IF k = key THEN CountedTarget(seen, target) ELSE room.counts[k]],
       order  |-> IF known THEN room.order ELSE Append(room.order, key)]

\* The queue names each key of the dictionary once, and no other; there are at
\* most EntryLimit; every counter is positive and saturates.
InStep(table) ==
  /\ \A i, j \in 1 .. Len(table.order) : table.order[i] = table.order[j] => i = j
  /\ \A i \in 1 .. Len(table.order) : table.order[i] \in DOMAIN table.counts
  /\ \A k \in DOMAIN table.counts : \E i \in 1 .. Len(table.order) : table.order[i] = k
  /\ Len(table.order) <= EntryLimit
  /\ \A k \in DOMAIN table.counts : \A t \in DOMAIN table.counts[k] :
       table.counts[k][t] \in 1 .. CounterMax
================================================================================
