--------------------------- MODULE HybridSPPWAMProofs ---------------------------
(***************************************************************************)
(* Theorems about the direct-mapped prefetcher, alone (Spec) and under     *)
(* the selector of the hybrid (HybridSpec), for any table, horizon, depth, *)
(* hash, window, minimum and threshold, and whatever SPP does.             *)
(***************************************************************************)
EXTENDS HybridSPPWAM, WAMFrontEndProofs

(***************************************************************************)
(* The direct-mapped table                                                 *)
(***************************************************************************)
SlotsType == [insertions : Nat, evictions : Nat, reused_before_eviction : Nat,
              reuses : [Bucket -> Nat]]

TableTypeOK ==
  /\ table \in [Bucket -> Entry]
  /\ slots \in SlotsType

Inv == FrontInv /\ TableTypeOK

\* slot() returns an entry: an age that is decremented is above 0.
LEMMA SlotType ==
  ASSUME table \in [Bucket -> Entry], NEW key \in Key
  PROVE  Slot(key) \in Entry
<1> DEFINE c == table[BucketOf[key]]
           k == IF Claims(key) THEN key ELSE c.key
           d == IF Evicts(key) THEN 0 ELSE c.delta
           a == IF Claims(key) THEN MAX_AGE ELSE c.age - 1
           f == IF Evicts(key) THEN 0 ELSE c.confidence
<1>1. c \in Entry
  BY BucketAssumption
<1>2. ~Claims(key) => c.age # 0
  BY DEF Claims
<1>3. Slot(key) = [key |-> k, delta |-> d, age |-> a, confidence |-> f, valid |-> TRUE]
  BY DEF Slot
<1> HIDE DEF c
<1>4. k \in Key /\ d \in Int /\ f \in 0 .. CONFIDENCE_MAX
  BY <1>1, SizeAssumption DEF Entry
<1>5. a \in 0 .. MAX_AGE
  BY <1>1, <1>2, SizeAssumption DEF Entry
<1> HIDE DEF k, d, a, f
<1> QED BY <1>3, <1>4, <1>5 DEF Entry

\* The context that is trained is a waiting one.
LEMMA HeadType ==
  ASSUME FrontTypeOK, Due
  PROVE  /\ Head(pending) \in PendingContext
         /\ Head(pending).key \in Key
         /\ Head(pending).line \in Line
         /\ BucketOf[Head(pending).key] \in Bucket
<1>1. pending \in Seq(PendingContext) /\ pending # <<>>
  BY SizeAssumption DEF FrontTypeOK, Due
<1>2. Head(pending) \in PendingContext
  BY <1>1
<1> QED BY <1>2, BucketAssumption DEF PendingContext

\* Training one context leaves a table of entries.
LEMMA TrainedTableType ==
  ASSUME FrontTypeOK, table \in [Bucket -> Entry], NEW line \in Line
  PROVE  TrainedTable(line) \in [Bucket -> Entry]
<1>1. CASE ~Due
  BY <1>1 DEF TrainedTable
<1>2. CASE Due
  <2> DEFINE p == Head(pending)
             new == Learn(Slot(p.key), p.key, line - p.line)
  <2>1. p.key \in Key /\ p.line \in Line /\ BucketOf[p.key] \in Bucket
    BY <1>2, HeadType
  <2>2. line - p.line \in Int
    <3>1. \A x, y \in Line : x - y \in Int
      BY LineAssumption
    <3> QED BY <2>1, <3>1
  <2>3. Slot(p.key) \in Entry
    BY <2>1, SlotType
  <2>4. new \in Entry
    BY <2>1, <2>2, <2>3, LearnType
  <2>5. TrainedTable(line) = [table EXCEPT ![BucketOf[p.key]] = new]
    BY <1>2 DEF TrainedTable
  <2> HIDE DEF p, new
  <2> QED BY <2>1, <2>4, <2>5
<1> QED BY <1>1, <1>2

\* Every look-up finds an entry, the empty one where there is none.
LEMMA LookedType ==
  ASSUME FrontTypeOK, HistoryAligned, table \in [Bucket -> Entry], NEW line \in Line
  PROVE  Looked(line) \in Entry
<1>1. TrainedTable(line) \in [Bucket -> Entry]
  BY TrainedTableType
<1>2. Formed(line) => BucketOf[FormedKey(line)] \in Bucket
  BY FormedContext, BucketAssumption
<1> QED BY <1>1, <1>2, LEmptyEntry DEF Looked

\* Counting insertions, evictions and conflicts leaves counters.
LEMMA TrainedSlotsType ==
  ASSUME FrontTypeOK, slots \in SlotsType
  PROVE  TrainedSlots \in SlotsType
<1>1. CASE ~Due
  BY <1>1 DEF TrainedSlots
<1>2. CASE Due
  <2> DEFINE key == Head(pending).key
             b == BucketOf[key]
             i == slots.insertions + Tick(Inserts(key))
             v == slots.evictions + Tick(Evicts(key))
             u == slots.reused_before_eviction + Tick(Evicts(key) /\ slots.reuses[b] > 0)
             r == IF Inserts(key) THEN [slots.reuses EXCEPT ![b] = 0] ELSE slots.reuses
  <2>1. b \in Bucket
    BY <1>2, HeadType
  <2>2. \A c : Tick(c) \in Nat
    BY DEF Tick
  <2>3. i \in Nat /\ v \in Nat /\ u \in Nat
    <3>1. slots.insertions \in Nat /\ slots.evictions \in Nat /\ slots.reused_before_eviction \in Nat
      BY DEF SlotsType
    <3> HIDE DEF key, b
    <3> QED BY <2>2, <3>1
  <2>4. r \in [Bucket -> Nat]
    <3>1. slots.reuses \in [Bucket -> Nat]
      BY DEF SlotsType
    <3> HIDE DEF key, b
    <3> QED BY <2>1, <3>1
  <2>5. TrainedSlots = [insertions |-> i, evictions |-> v,
                        reused_before_eviction |-> u, reuses |-> r]
    BY <1>2 DEF TrainedSlots
  <2> HIDE DEF i, v, u, r
  <2> QED BY <2>3, <2>4, <2>5 DEF SlotsType
<1> QED BY <1>1, <1>2

\* One access preserves the types and the alignment of the queue.
LEMMA AccessInv ==
  ASSUME Inv, NEW line \in Line, NEW useful \in BOOLEAN, NEW accepted \in BOOLEAN,
         Access(line, useful, accepted)
  PROVE  Inv'
<1>1. FrontInv /\ FrontTypeOK /\ HistoryAligned /\ table \in [Bucket -> Entry] /\ slots \in SlotsType
  BY DEF Inv, FrontInv, TableTypeOK
<1>2. Looked(line) \in Entry
  BY <1>1, LookedType
<1>3. FrontInv'
  BY <1>1, <1>2, FrontAccessInv DEF Access
<1>4. table' \in [Bucket -> Entry]
  BY <1>1, TrainedTableType DEF Access
<1>5. slots' \in SlotsType
  <2> DEFINE s == TrainedSlots
             h == BucketOf[FormedKey(line)]
             hit == ContextHit(line, Looked(line))
  <2>1. s \in SlotsType
    BY <1>1, TrainedSlotsType
  <2>2. hit => h \in Bucket
    BY <1>1, FormedContext, BucketAssumption DEF ContextHit
  <2>3. slots' = IF hit THEN [s EXCEPT !.reuses[h] = s.reuses[h] + 1] ELSE s
    BY DEF Access
  <2> HIDE DEF s, h, hit
  <2>4. CASE hit
    <3>1. s.reuses \in [Bucket -> Nat]
      BY <2>1 DEF SlotsType
    <3>2. [s.reuses EXCEPT ![h] = s.reuses[h] + 1] \in [Bucket -> Nat]
      BY <2>2, <2>4, <3>1
    <3>3. slots' = [s EXCEPT !.reuses = [s.reuses EXCEPT ![h] = s.reuses[h] + 1]]
      BY <2>3, <2>4
    <3> QED BY <2>1, <3>2, <3>3 DEF SlotsType
  <2> QED BY <2>1, <2>3, <2>4
<1> QED BY <1>3, <1>4, <1>5 DEF Inv, TableTypeOK

\* The invariant of queue and types holds initially ...
LEMMA InitInv == Init => Inv
<1> SUFFICES ASSUME Init PROVE Inv
  OBVIOUS
<1>1. FrontInv
  BY FrontInitInv DEF Init
<1>2. table \in [Bucket -> Entry]
  BY LEmptyEntry DEF Init
<1>3. slots \in SlotsType
  BY DEF Init, SlotsType
<1> QED BY <1>1, <1>2, <1>3 DEF Inv, TableTypeOK

\* ... and every callback preserves it ...
LEMMA StepInv == Inv /\ [Next]_vars => Inv'
<1> SUFFICES ASSUME Inv, [Next]_vars PROVE Inv'
  OBVIOUS
<1>1. ASSUME NEW line \in Line, NEW useful \in BOOLEAN, NEW accepted \in BOOLEAN,
             Access(line, useful, accepted)
      PROVE  Inv'
  BY <1>1, AccessInv
<1>2. CASE (PrefetchAccess \/ CacheFill \/ FinalStats) /\ UNCHANGED <<table, slots>>
  <2>1. FrontInv'
    BY <1>2, FrontOtherInv DEF Inv
  <2>2. TableTypeOK'
    BY <1>2 DEF Inv, TableTypeOK
  <2> QED BY <2>1, <2>2 DEF Inv
<1>3. CASE UNCHANGED vars
  <2>1. UNCHANGED frontVars /\ UNCHANGED <<table, slots>>
    BY <1>3 DEF vars, frontVars
  <2>2. FrontInv'
    BY <2>1, FrontStepInv DEF Inv
  <2>3. TableTypeOK'
    BY <2>1 DEF Inv, TableTypeOK
  <2> QED BY <2>2, <2>3 DEF Inv
<1> QED BY <1>1, <1>2, <1>3 DEF Next

\* ... so it holds always.
LEMMA Invariance == Spec => []Inv
<1> QED BY InitInv, StepInv, PTL DEF Spec

\* Type correctness, for every table size, horizon, depth and hash.
THEOREM TypeCorrect == Spec => []TypeOK
<1>1. Inv => TypeOK
  BY DEF Inv, FrontInv, TableTypeOK, TypeOK, SlotsType
<1> QED BY <1>1, Invariance, PTL

\* The target of every trained context arrives exactly HORIZON qualifying
\* accesses after the context, and the leakage guard never counts.
THEOREM QueueAligned == Spec => []PendingAligned
<1>1. Inv => PendingAligned
  BY DEF Inv, FrontInv
<1> QED BY <1>1, Invariance, PTL

----------------------------------------------------------------------------
(* What the table means.                                                   *)

\* An entry that was never trained holds no confidence.
Blank(e) == ~e.valid => e.confidence = 0

TableInv ==
  /\ \A b \in Bucket : Blank(table[b])
  /\ ConfidenceSupported
  /\ LastTrainedOwnsSlot

\* The trained entry: it belongs to the trained context, and it either starts
\* over on the delta just seen, or weakens or confirms what the entry held.
LEMMA TrainedEntry ==
  ASSUME Inv, NEW key \in Key, NEW d \in Int, Blank(table[BucketOf[key]])
  PROVE  LET c == table[BucketOf[key]]
             new == Learn(Slot(key), key, d)
         IN  /\ new.key = key
             /\ new.valid
             /\ new.confidence \in Nat
             /\ \/ new.delta = d /\ new.confidence <= 1
                \/ /\ c.valid /\ c.key = key /\ new.delta = c.delta
                   /\ \/ new.confidence <= c.confidence
                      \/ c.delta = d /\ new.confidence <= c.confidence + 1
<1> DEFINE c == table[BucketOf[key]]
           s == Slot(key)
           new == Learn(Slot(key), key, d)
<1>1. table \in [Bucket -> Entry]
  BY DEF Inv, TableTypeOK
<1>2. c \in Entry /\ s \in Entry /\ new \in Entry
  <2>1. s \in Entry
    BY <1>1, SlotType
  <2> QED BY <1>1, <2>1, BucketAssumption, LearnType
<1>3. /\ new.key = key
      /\ new.valid = IF (s.key = key /\ s.delta = d) \/ (s.key = key /\ s.confidence > 0)
                       THEN s.valid ELSE TRUE
      /\ new.delta = IF s.key = key /\ s.delta # d /\ s.confidence > 0 THEN s.delta ELSE d
      /\ new.confidence = IF s.key = key /\ s.delta = d /\ s.confidence = CONFIDENCE_MAX
                            THEN CONFIDENCE_MAX
                          ELSE IF s.key = key /\ s.delta = d THEN s.confidence + 1
                          ELSE IF s.key = key /\ s.confidence > 0 THEN s.confidence - 1
                          ELSE 1
  <2> HIDE DEF s
  <2> QED BY DEF Learn, s
<1>4. /\ s.key = IF Claims(key) THEN key ELSE c.key
      /\ s.delta = IF Evicts(key) THEN 0 ELSE c.delta
      /\ s.confidence = IF Evicts(key) THEN 0 ELSE c.confidence
      /\ s.valid = TRUE
  BY DEF Slot
<1>5. /\ Claims(key) <=> (~c.valid \/ c.key = key \/ c.age = 0)
      /\ Evicts(key) <=> (c.valid /\ c.key # key /\ c.age = 0)
  BY DEF Claims, Evicts
<1>6. /\ c.confidence \in Nat /\ s.confidence \in Nat /\ new.confidence \in Nat
      /\ s.delta \in Int /\ c.valid \in BOOLEAN
  <2> HIDE DEF c, s, new
  <2> QED BY <1>2, SizeAssumption DEF Entry
<1>7. ~c.valid => c.confidence = 0
  BY DEF Blank
<1> HIDE DEF c, s, new
<1>8. new.valid
  BY <1>3, <1>4
<1>9. CASE s.key # key
  BY <1>3, <1>6, <1>8, <1>9 DEF c, new
<1>10. CASE s.key = key /\ s.confidence = 0
  <2>1. new.delta = d /\ new.confidence <= 1
    BY <1>3, <1>6, <1>10, SizeAssumption
  <2> QED BY <1>3, <1>6, <1>8, <2>1 DEF c, new
<1>11. CASE s.key = key /\ s.confidence # 0
  <2>1. c.valid /\ c.key = key /\ s.delta = c.delta /\ s.confidence = c.confidence
    BY <1>4, <1>5, <1>7, <1>11
  <2>2. CASE s.delta = d
    <3>1. new.delta = c.delta /\ c.delta = d /\ new.confidence <= c.confidence + 1
      BY <1>3, <1>6, <1>11, <2>1, <2>2, SizeAssumption
    <3> QED BY <1>3, <1>6, <1>8, <2>1, <3>1 DEF c, new
  <2>3. CASE s.delta # d
    <3>1. new.delta = c.delta /\ new.confidence <= c.confidence
      BY <1>3, <1>6, <1>11, <2>1, <2>3
    <3> QED BY <1>3, <1>6, <1>8, <2>1, <3>1 DEF c, new
  <2> QED BY <2>2, <2>3
<1> QED BY <1>9, <1>10, <1>11

\* Evidence that grew by one covers a confidence that grew by one.
LEMMA TrainedSupported ==
  ASSUME Inv, NEW line \in Line, Due,
         Blank(table[BucketOf[Head(pending).key]]),
         Supported(table[BucketOf[Head(pending).key]], events, BucketOf[Head(pending).key])
  PROVE  LET p == Head(pending)
         IN  Supported(Learn(Slot(p.key), p.key, line - p.line),
                       Append(events, line), BucketOf[p.key])
<1> DEFINE p == Head(pending)
           key == p.key
           d == line - p.line
           c == table[BucketOf[key]]
           new == Learn(Slot(key), key, d)
           t == Append(events, line)
           Card(s, x) == Cardinality(Evidence(s, key, x))
<1>1. FrontInv /\ FrontTypeOK /\ events \in Seq(Line) /\ t \in Seq(Line)
  BY DEF Inv, FrontInv, FrontTypeOK
<1>2. key \in Key /\ d \in Int
  <2>1. \A x, y \in Line : x - y \in Int
    BY LineAssumption
  <2> QED BY <1>1, <2>1, HeadType
<1>3. \A x : Card(events, x) \in Nat /\ Card(t, x) \in Nat /\ Card(events, x) <= Card(t, x)
  BY <1>1, EvidenceFinite, EvidenceGrows
<1>4. Card(events, d) + 1 <= Card(t, d)
  BY <1>1, EvidenceTrained
<1>5. c.valid /\ c.key = key => c.confidence <= Card(events, c.delta)
  BY DEF Supported
<1>6. c.confidence \in Nat
  <2>1. c \in Entry
    BY <1>2, BucketAssumption DEF Inv, TableTypeOK
  <2> HIDE DEF c
  <2> QED BY <2>1, SizeAssumption DEF Entry
<1>7. /\ new.key = key
      /\ new.valid
      /\ new.confidence \in Nat
      /\ \/ new.delta = d /\ new.confidence <= 1
         \/ /\ c.valid /\ c.key = key /\ new.delta = c.delta
            /\ \/ new.confidence <= c.confidence
               \/ c.delta = d /\ new.confidence <= c.confidence + 1
  <2> HIDE DEF key, d
  <2> QED BY <1>2, TrainedEntry DEF key
<1>8. new.confidence <= Card(t, new.delta)
  <2> HIDE DEF c, new, Card, d, key
  <2> QED BY <1>3, <1>4, <1>5, <1>6, <1>7
<1> HIDE DEF c, new, d, key, t
<1>9. Supported(new, t, BucketOf[key])
  BY <1>7, <1>8 DEF Supported
<1> QED BY <1>9 DEF new, d, key, t

\* Training makes the trained context the owner of its slot.
LEMMA TrainedOwned ==
  ASSUME Inv, NEW line \in Line, Due, NEW e,
         e.key = Head(pending).key, e.valid \in BOOLEAN, e.valid
  PROVE  Owned(e, Append(events, line), BucketOf[Head(pending).key])
<1> DEFINE p == Head(pending)
           t == Append(events, line)
           i == Len(events) + 1 - HORIZON
           b == BucketOf[p.key]
           into == TrainedInto(t, b)
<1>1. FrontInv
  BY DEF Inv
<1>2. /\ i \in CONTEXT_DEPTH .. Len(events)
      /\ Outcomes(t) = Outcomes(events) \cup {i}
      /\ \A j \in Outcomes(events) : j < i
      /\ p = Waiting(t, i)
  BY <1>1, TrainStep
<1>3. p.key = KeyAt(t, i)
  BY <1>2 DEF Waiting
<1>4. \A j \in Outcomes(events) : j \in Int
  BY <1>1, SizeAssumption DEF Outcomes, FrontInv, FrontTypeOK
<1> HIDE DEF t, i, p
<1>5. i \in into
  BY <1>2, <1>3 DEF TrainedInto
<1>6. \A j \in into : j = i \/ j < i
  BY <1>2 DEF TrainedInto
<1>7. ASSUME NEW j \in into, \A m \in into : m <= j
      PROVE  e.key = KeyAt(t, j)
  <2>1. i <= j
    BY <1>5, <1>7
  <2>2. i \in Int
    BY <1>1, SizeAssumption DEF i, FrontInv, FrontTypeOK
  <2>3. j \in Int
    BY <1>2, <1>4, <1>7, <2>2 DEF TrainedInto
  <2>4. j = i
    BY <1>6, <1>7, <2>1, <2>2, <2>3
  <2> QED BY <1>3, <2>4 DEF p
<1> QED BY <1>5, <1>7 DEF Owned, t, p

\* A slot that is not trained keeps what it means while the stream grows.
LEMMA UntrainedStable ==
  ASSUME Inv, NEW line \in Line, NEW b \in Bucket,
         ~Due \/ BucketOf[Head(pending).key] # b
  PROVE  /\ Supported(table[b], events, b) => Supported(table[b], Append(events, line), b)
         /\ Owned(table[b], events, b) => Owned(table[b], Append(events, line), b)
<1> DEFINE t == Append(events, line)
           i == Len(events) + 1 - HORIZON
           e == table[b]
           old == TrainedInto(events, b)
           new == TrainedInto(t, b)
<1>1. FrontInv /\ events \in Seq(Line)
  BY DEF Inv, FrontInv, FrontTypeOK
<1>2. Supported(e, events, b) => Supported(e, t, b)
  <2>1. /\ Cardinality(Evidence(events, e.key, e.delta)) \in Nat
        /\ Cardinality(Evidence(t, e.key, e.delta)) \in Nat
        /\ Cardinality(Evidence(events, e.key, e.delta)) <= Cardinality(Evidence(t, e.key, e.delta))
    <3>1. \A k, d : /\ Cardinality(Evidence(events, k, d)) \in Nat
                    /\ Cardinality(Evidence(t, k, d)) \in Nat
                    /\ Cardinality(Evidence(events, k, d)) <= Cardinality(Evidence(t, k, d))
      <4>1. t \in Seq(Line)
        BY <1>1
      <4> QED BY <1>1, <4>1, EvidenceFinite, EvidenceGrows
    <3> HIDE DEF e, t
    <3> QED BY <3>1
  <2>2. e.confidence \in Nat
    <3>1. e \in Entry
      BY DEF Inv, TableTypeOK
    <3> HIDE DEF e
    <3> QED BY <3>1, SizeAssumption DEF Entry
  <2> HIDE DEF e, t
  <2> QED BY <2>1, <2>2 DEF Supported
<1>3. \A j \in Outcomes(events) : KeyAt(t, j) = KeyAt(events, j)
  BY <1>1, OutcomeStable
<1>4. new = old
  <2>1. CASE ~Due
    <3>1. Outcomes(t) = Outcomes(events)
      BY <1>1, <2>1, TrainStep
    <3> QED BY <1>3, <3>1 DEF TrainedInto
  <2>2. CASE Due
    <3>1. Outcomes(t) = Outcomes(events) \cup {i} /\ Head(pending).key = KeyAt(t, i)
      BY <1>1, <2>2, TrainStep DEF Waiting
    <3>2. BucketOf[KeyAt(t, i)] # b
      BY <2>2, <3>1
    <3> QED BY <1>3, <3>1, <3>2 DEF TrainedInto
  <2> QED BY <2>1, <2>2
<1>5. \A j \in old : KeyAt(t, j) = KeyAt(events, j)
  BY <1>3 DEF TrainedInto
<1>6. Owned(e, events, b) => Owned(e, t, b)
  <2> HIDE DEF e, t
  <2> QED BY <1>4, <1>5 DEF Owned
<1> QED BY <1>2, <1>6

\* Whatever the access trains, the table afterwards means what it says.
LEMMA TrainedMeaning ==
  ASSUME Inv, TableInv, NEW line \in Line, NEW b \in Bucket
  PROVE  /\ Blank(TrainedTable(line)[b])
         /\ Supported(TrainedTable(line)[b], Append(events, line), b)
         /\ Owned(TrainedTable(line)[b], Append(events, line), b)
<1> DEFINE p == Head(pending)
           new == Learn(Slot(p.key), p.key, line - p.line)
<1>1. table \in [Bucket -> Entry] /\ FrontTypeOK
  BY DEF Inv, FrontInv, TableTypeOK
<1>2. Blank(table[b]) /\ Supported(table[b], events, b) /\ Owned(table[b], events, b)
  BY DEF TableInv, ConfidenceSupported, LastTrainedOwnsSlot
<1>3. CASE ~Due \/ BucketOf[p.key] # b
  <2>1. TrainedTable(line)[b] = table[b]
    BY <1>1, <1>3 DEF TrainedTable
  <2> QED BY <1>2, <1>3, <2>1, UntrainedStable
<1>4. CASE Due /\ BucketOf[p.key] = b
  <2>1. TrainedTable(line)[b] = new
    BY <1>1, <1>4 DEF TrainedTable
  <2>2. p.key \in Key /\ line - p.line \in Int
    <3>1. \A x, y \in Line : x - y \in Int
      BY LineAssumption
    <3> QED BY <1>1, <1>4, <3>1, HeadType
  <2>3. Supported(new, Append(events, line), b)
    BY <1>2, <1>4, TrainedSupported
  <2>4. new.key = p.key /\ new.valid
    BY <1>2, <1>4, <2>2, TrainedEntry
  <2>5. new.valid \in BOOLEAN
    <3>1. new \in Entry
      BY <1>1, <2>2, SlotType, LearnType
    <3> HIDE DEF new
    <3> QED BY <3>1 DEF Entry
  <2> HIDE DEF new
  <2>6. Owned(new, Append(events, line), b)
    BY <1>4, <2>4, <2>5, TrainedOwned
  <2>7. Blank(new)
    BY <2>4 DEF Blank
  <2> QED BY <2>1, <2>3, <2>6, <2>7
<1> QED BY <1>3, <1>4

\* The invariant of the table holds initially ...
LEMMA TableInitInv == Init => TableInv
<1> SUFFICES ASSUME Init, NEW b \in Bucket
    PROVE  Blank(table[b]) /\ Supported(table[b], events, b) /\ Owned(table[b], events, b)
  BY DEF TableInv, ConfidenceSupported, LastTrainedOwnsSlot
<1>1. table[b] = EmptyEntry /\ events = <<>>
  BY DEF Init, FrontInit
<1>2. Outcomes(<<>>) = {}
  BY SizeAssumption DEF Outcomes
<1>3. TrainedInto(events, b) = {}
  BY <1>1, <1>2 DEF TrainedInto
<1> QED BY <1>1, <1>3 DEF Blank, Supported, Owned, EmptyEntry

\* ... every callback preserves it, where queue and types are right ...
LEMMA TableStepInv == Inv /\ TableInv /\ [Next]_vars => TableInv'
<1> SUFFICES ASSUME Inv, TableInv, [Next]_vars, NEW b \in Bucket
    PROVE  Blank(table'[b]) /\ Supported(table'[b], events', b) /\ Owned(table'[b], events', b)
  BY DEF TableInv, ConfidenceSupported, LastTrainedOwnsSlot
<1>1. ASSUME NEW line \in Line, NEW useful \in BOOLEAN, NEW accepted \in BOOLEAN,
             Access(line, useful, accepted)
      PROVE  Blank(table'[b]) /\ Supported(table'[b], events', b) /\ Owned(table'[b], events', b)
  <2>1. table' = TrainedTable(line) /\ events' = Append(events, line)
    BY <1>1 DEF Access, FrontAccess
  <2> QED BY <2>1, TrainedMeaning
<1>2. CASE UNCHANGED <<table, events>>
  BY <1>2 DEF TableInv, ConfidenceSupported, LastTrainedOwnsSlot
<1>3. (PrefetchAccess \/ CacheFill \/ FinalStats) /\ UNCHANGED <<table, slots>>
        => UNCHANGED <<table, events>>
  BY DEF PrefetchAccess, CacheFill, FinalStats
<1>4. UNCHANGED vars => UNCHANGED <<table, events>>
  BY DEF vars
<1> QED BY <1>1, <1>2, <1>3, <1>4 DEF Next

\* ... so both hold always.
LEMMA TableInvariance == Spec => [](Inv /\ TableInv)
<1>1. Init => Inv /\ TableInv
  BY InitInv, TableInitInv
<1>2. Inv /\ TableInv /\ [Next]_vars => (Inv /\ TableInv)'
  BY StepInv, TableStepInv
<1> QED BY <1>1, <1>2, PTL DEF Spec

\* No entry is ever more confident than the accesses so far justify.
THEOREM ConfidenceIsEvidence == Spec => []ConfidenceSupported
<1>1. TableInv => ConfidenceSupported
  BY DEF TableInv
<1> QED BY <1>1, TableInvariance, PTL

\* A slot belongs to the context trained into it last: age protects nobody.
THEOREM LastTrainedOwns == Spec => []LastTrainedOwnsSlot
<1>1. TableInv => LastTrainedOwnsSlot
  BY DEF TableInv
<1> QED BY <1>1, TableInvariance, PTL

----------------------------------------------------------------------------
(* The shadow accounting.                                                  *)

\* Every callback keeps the accounting, where queue and types are right ...
LEMMA ShadowStepInv == Inv /\ ShadowInv /\ [Next]_vars => ShadowInv'
<1> SUFFICES ASSUME Inv, ShadowInv, [Next]_vars PROVE ShadowInv'
  OBVIOUS
<1>1. FrontInv /\ FrontTypeOK'
  BY StepInv DEF Inv, FrontInv
<1>2. ASSUME NEW line \in Line, NEW useful \in BOOLEAN, NEW accepted \in BOOLEAN,
             Access(line, useful, accepted)
      PROVE  ShadowInv'
  <2> DEFINE e == Looked(line)
  <2>1. e \in Entry
    BY <1>1, LookedType DEF Inv, FrontInv, TableTypeOK
  <2>2. FrontAccess(line, useful, accepted, e)
    BY <1>2 DEF Access
  <2> HIDE DEF e
  <2> QED BY <1>1, <2>1, <2>2, ShadowAccess
<1>3. CASE PrefetchAccess \/ CacheFill \/ FinalStats
  BY <1>1, <1>3, ShadowOther
<1>4. CASE UNCHANGED vars
  <2>1. UNCHANGED <<events, log, shadow, counters, final>>
    BY <1>4 DEF vars
  <2> QED BY <1>1, <2>1, ShadowOther
<1> QED BY <1>2, <1>3, <1>4 DEF Next

\* ... so it is exact: every prediction is compared with the one access HORIZON
\* accesses after it, and none is lost or counted twice.
THEOREM ShadowCountsExact == Spec => []ShadowExact
<1>1. Init => Inv /\ ShadowInv
  BY InitInv, ShadowInit DEF Init
<1>2. Inv /\ ShadowInv /\ [Next]_vars => (Inv /\ ShadowInv)'
  BY StepInv, ShadowStepInv
<1>3. Inv /\ ShadowInv => ShadowExact
  BY ShadowInvExact DEF Inv
<1> QED BY <1>1, <1>2, <1>3, PTL DEF Spec

----------------------------------------------------------------------------
(* The analyzer's replay.                                                  *)

\* The replay is the live state.  A valid entry is never about to expire, so none
\* is evicted, and an entry that was never trained was never reused.
ReplayInv ==
  /\ Replay(events) = Replaying(table, slots.reuses, slots.insertions, slots.evictions,
                                slots.reused_before_eviction)
  /\ \A b \in Bucket : table[b].valid => table[b].age = MAX_AGE
  /\ \A b \in Bucket : ~table[b].valid => slots.reuses[b] = 0

\* slot() and the age test of the analyzer hand out the same entry.
LEMMA SlotReplayed ==
  ASSUME table \in [Bucket -> Entry], NEW key \in Key, NEW d \in Int
  PROVE  LET old == table[BucketOf[key]]
         IN  ReplayLearnt(ReplayClaimed(old, key), key, d) = Learn(Slot(key), key, d)
<1> DEFINE old == table[BucketOf[key]]
           c == ReplayClaimed(old, key)
<1>1. old \in Entry
  BY BucketAssumption
<1>2. Evicts(key) = ReplayEvicts(old, key) /\ Inserts(key) = ReplayInserts(old, key)
  BY DEF Evicts, Inserts, ReplayEvicts, ReplayInserts
<1>3. Claims(key) = (ReplayInserts(old, key) \/ old.key = key)
  BY DEF Claims, ReplayEvicts, ReplayInserts
<1>4. c = Slot(key)
  <2>1. old = [key |-> old.key, delta |-> old.delta, age |-> old.age,
               confidence |-> old.confidence, valid |-> old.valid]
    BY <1>1 DEF Entry
  <2>2. Slot(key) = [key |-> IF Claims(key) THEN key ELSE old.key,
                     delta |-> IF Evicts(key) THEN 0 ELSE old.delta,
                     age |-> IF Claims(key) THEN MAX_AGE ELSE old.age - 1,
                     confidence |-> IF Evicts(key) THEN 0 ELSE old.confidence,
                     valid |-> TRUE]
    BY DEF Slot
  <2>3. CASE Evicts(key)
    <3>1. c = [EmptyEntry EXCEPT !.key = key, !.age = MAX_AGE, !.valid = TRUE]
      BY <1>2, <2>3 DEF ReplayClaimed, ReplayInserts
    <3> QED BY <1>2, <1>3, <2>2, <2>3, <3>1 DEF EmptyEntry, ReplayInserts
  <2>4. CASE ~Evicts(key) /\ Claims(key)
    <3>1. c = [old EXCEPT !.key = key, !.age = MAX_AGE, !.valid = TRUE]
      BY <1>2, <1>3, <2>4 DEF ReplayClaimed
    <3> HIDE DEF old
    <3> QED BY <2>1, <2>2, <2>4, <3>1
  <2>5. CASE ~Claims(key)
    <3>1. c = [old EXCEPT !.age = old.age - 1]
      BY <1>3, <2>5 DEF ReplayClaimed
    <3>2. old.valid = TRUE /\ ~Evicts(key)
      BY <1>1, <1>2, <1>3, <2>5 DEF ReplayInserts, Entry
    <3> HIDE DEF old
    <3> QED BY <2>1, <2>2, <2>5, <3>1, <3>2
  <2> QED BY <2>3, <2>4, <2>5
<1>5. c \in Entry /\ c.valid
  <2>1. Slot(key).valid
    BY DEF Slot
  <2> QED BY <1>4, <2>1, SlotType
<1> QED BY <1>4, <1>5, ReplayLearns

\* Every access keeps replay and table equal.
LEMMA ReplayAccessInv ==
  ASSUME Inv, ReplayInv, NEW line \in Line, NEW useful, NEW accepted,
         Access(line, useful, accepted)
  PROVE  ReplayInv'
<1> DEFINE p == Head(pending)
           pk == p.key
           b == BucketOf[pk]
           old == table[b]
           key == FormedKey(line)
           k == BucketOf[key]
           e == ReplayTable(table, line)[k]
           hit == Formed(line) /\ e.valid /\ e.key = key
           new == Learn(Slot(pk), pk, line - p.line)
           S == TrainedSlots
<1>1. /\ FrontTypeOK /\ HistoryAligned /\ events \in Seq(Line)
      /\ table \in [Bucket -> Entry] /\ slots \in SlotsType
  BY DEF Inv, FrontInv, FrontTypeOK, TableTypeOK
<1>2. /\ events' = Append(events, line) /\ pending' = NextPending(line)
      /\ history' = NextHistory(line) /\ table' = TrainedTable(line)
  BY DEF Access, FrontAccess
<1>3. Due => pk \in Key /\ b \in Bucket /\ line - p.line \in Int
  <2>1. Due => pk \in Key /\ b \in Bucket /\ p.line \in Line
    BY <1>1, HeadType
  <2>2. \A x, y \in Line : x - y \in Int
    BY LineAssumption
  <2> HIDE DEF p
  <2> QED BY <2>1, <2>2
<1>4. TrainedTable(line) = ReplayTable(table, line)
  <2>1. CASE Due
    <3>1. ReplayLearnt(ReplayClaimed(old, pk), pk, line - p.line) = new
      <4> HIDE DEF pk, p
      <4> QED BY <1>1, <1>3, <2>1, SlotReplayed
    <3> QED BY <2>1, <3>1 DEF TrainedTable, ReplayTable
  <2>2. CASE ~Due
    BY <2>2 DEF TrainedTable, ReplayTable
  <2> QED BY <2>1, <2>2
<1>5. hit <=> ContextHit(line, Looked(line))
  BY <1>4 DEF ContextHit, Looked
<1>6. Due => /\ Inserts(pk) = ReplayInserts(old, pk) /\ Evicts(pk) = ReplayEvicts(old, pk)
             /\ ~Evicts(pk) /\ (Inserts(pk) => slots.reuses[b] = 0)
  <2>1. Due => (old.valid => old.age = MAX_AGE) /\ (~old.valid => slots.reuses[b] = 0)
    BY <1>3 DEF ReplayInv
  <2> QED BY <2>1, SizeAssumption DEF Inserts, Evicts, ReplayEvicts, ReplayInserts
<1>7. Formed(line) => key \in Key /\ k \in Bucket
  BY <1>1, FormedContext, BucketAssumption
<1>8. S = [insertions |-> IF Due /\ ReplayInserts(old, pk) THEN slots.insertions + 1
                          ELSE slots.insertions,
           evictions |-> slots.evictions,
           reused_before_eviction |-> slots.reused_before_eviction,
           reuses |-> slots.reuses]
  <2>1. /\ slots.reuses \in [Bucket -> Nat] /\ slots.insertions \in Nat
        /\ slots.evictions \in Nat /\ slots.reused_before_eviction \in Nat
        /\ slots = [insertions |-> slots.insertions, evictions |-> slots.evictions,
                    reused_before_eviction |-> slots.reused_before_eviction,
                    reuses |-> slots.reuses]
    BY <1>1 DEF SlotsType
  <2>2. CASE Due
    <3> DEFINE x == IF Inserts(pk) THEN [slots.reuses EXCEPT ![b] = 0] ELSE slots.reuses
    <3>1. x = slots.reuses
      <4> HIDE DEF b
      <4> QED BY <1>3, <1>6, <2>1, <2>2
    <3>2. S = [insertions |-> slots.insertions + Tick(Inserts(pk)),
               evictions |-> slots.evictions + Tick(Evicts(pk)),
               reused_before_eviction |-> slots.reused_before_eviction +
                 Tick(Evicts(pk) /\ slots.reuses[b] > 0),
               reuses |-> x]
      BY <2>2 DEF TrainedSlots
    <3> HIDE DEF x
    <3>3. slots.evictions + Tick(Evicts(pk)) = slots.evictions
      BY <1>6, <2>1, <2>2 DEF Tick
    <3>4. slots.reused_before_eviction + Tick(Evicts(pk) /\ slots.reuses[b] > 0)
            = slots.reused_before_eviction
      BY <1>6, <2>1, <2>2 DEF Tick
    <3>5. slots.insertions + Tick(Inserts(pk)) =
            IF Due /\ ReplayInserts(old, pk) THEN slots.insertions + 1 ELSE slots.insertions
      <4>1. Inserts(pk) <=> ReplayInserts(old, pk)
        BY <1>6, <2>2
      <4> HIDE DEF old, pk
      <4> QED BY <2>1, <2>2, <4>1 DEF Tick
    <3> QED BY <3>1, <3>2, <3>3, <3>4, <3>5
  <2>3. CASE ~Due
    <3>1. S = slots
      BY <2>3 DEF TrainedSlots
    <3> QED BY <2>1, <2>3, <3>1
  <2> QED BY <2>2, <2>3
<1>9. slots' = [insertions |-> S.insertions, evictions |-> S.evictions,
                reused_before_eviction |-> S.reused_before_eviction,
                reuses |-> IF hit THEN [slots.reuses EXCEPT ![k] = @ + 1] ELSE slots.reuses]
  <2>1. slots' = IF hit THEN [S EXCEPT !.reuses[k] = @ + 1] ELSE S
    BY <1>5 DEF Access
  <2> HIDE DEF S, hit, k
  <2> QED BY <1>8, <2>1
<1>10. Replay(Append(events, line)) = ReplayEvent(Replay(events), line)
  BY <1>1, ReplayGrows
<1>11. Replay(events') =
         [table |-> ReplayTable(table, line),
          reuses |-> IF hit THEN [slots.reuses EXCEPT ![k] = @ + 1] ELSE slots.reuses,
          pending |-> NextPending(line), history |-> NextHistory(line),
          insertions |-> S.insertions, evictions |-> S.evictions,
          reused |-> S.reused_before_eviction]
  <2>1. slots.reuses \in [Bucket -> Nat]
    BY <1>1 DEF SlotsType
  <2>2. ~(Due /\ ReplayEvicts(old, pk))
    BY <1>6
  <2>3. Replay(events) = Replaying(table, slots.reuses, slots.insertions, slots.evictions,
                                   slots.reused_before_eviction)
    BY DEF ReplayInv
  <2>4. ReplayEvent(Replay(events), line) =
          Replayed(table, slots.reuses, slots.insertions, slots.evictions,
                   slots.reused_before_eviction, line)
    BY <2>1, <2>3, ReplayAccess
  <2>5. Replayed(table, slots.reuses, slots.insertions, slots.evictions,
                 slots.reused_before_eviction, line) =
          [table |-> ReplayTable(table, line),
           reuses |-> IF hit THEN [slots.reuses EXCEPT ![k] = @ + 1] ELSE slots.reuses,
           pending |-> NextPending(line), history |-> NextHistory(line),
           insertions |-> IF Due /\ ReplayInserts(old, pk) THEN slots.insertions + 1
                          ELSE slots.insertions,
           evictions |-> slots.evictions, reused |-> slots.reused_before_eviction]
    BY <2>2 DEF Replayed
  <2> QED BY <1>2, <1>8, <1>10, <2>4, <2>5
<1>12. Replay(events') = Replaying(table, slots.reuses, slots.insertions, slots.evictions,
                                   slots.reused_before_eviction)'
  <2> HIDE DEF S, hit, k
  <2> QED BY <1>2, <1>4, <1>9, <1>11 DEF Replaying
<1>13. ASSUME NEW x \in Bucket
       PROVE  /\ table'[x].valid => table'[x].age = MAX_AGE
              /\ ~table'[x].valid => slots'.reuses[x] = 0
  <2>1. /\ table[x].valid => table[x].age = MAX_AGE
        /\ ~table[x].valid => slots.reuses[x] = 0
    BY DEF ReplayInv
  <2>2. new.age = MAX_AGE
    BY DEF Learn
  <2>3. Due => new.valid
    <3>1. Slot(pk).valid = TRUE
      BY DEF Slot
    <3> HIDE DEF pk, p
    <3> QED BY <3>1 DEF Learn, new
  <2>4. table'[x] = table[x] \/ (Due /\ table'[x] = new)
    <3>1. table' = IF Due THEN [table EXCEPT ![b] = new] ELSE table
      BY <1>2 DEF TrainedTable
    <3> HIDE DEF new, b
    <3> QED BY <1>1, <3>1
  <2>5. slots.reuses \in [Bucket -> Nat]
    BY <1>1 DEF SlotsType
  <2>6. table'[x].valid \/ ~(hit /\ k = x)
    BY <1>2, <1>4
  <2>7. slots'.reuses[x] = slots.reuses[x] \/ (hit /\ k = x)
    <3> HIDE DEF hit, k, S
    <3> QED BY <1>9, <2>5
  <2>8. ~table'[x].valid => ~table[x].valid
    <3> HIDE DEF new
    <3>1. CASE Due /\ table'[x] = new
      BY <2>3, <3>1
    <3> QED BY <2>4, <3>1
  <2> HIDE DEF new, hit, k
  <2> QED BY <2>1, <2>2, <2>3, <2>4, <2>6, <2>7, <2>8
<1> QED BY <1>12, <1>13 DEF ReplayInv

\* The analyzer's replay of the event log rebuilds the live table, its counters,
\* its queue and its history after every access, although it is another implementation.
THEOREM ReplayRebuilds == Spec => []ReplayMatches
<1>1. Init => ReplayInv
  <2> SUFFICES ASSUME Init PROVE ReplayInv
    OBVIOUS
  <2>1. events = <<>> /\ pending = <<>> /\ history = <<>>
    BY DEF Init, FrontInit
  <2>2. \A b \in Bucket : ~table[b].valid /\ slots.reuses[b] = 0
    BY DEF Init, EmptyEntry
  <2>3. Replaying(table, slots.reuses, slots.insertions, slots.evictions,
                  slots.reused_before_eviction) = ReplayStart
    BY <2>1 DEF Replaying, ReplayStart, Init
  <2> QED BY <2>1, <2>2, <2>3, ReplayOfNothing DEF ReplayInv
<1>2. Inv /\ ReplayInv /\ [Next]_vars => ReplayInv'
  <2> SUFFICES ASSUME Inv, ReplayInv, [Next]_vars PROVE ReplayInv'
    OBVIOUS
  <2>1. ASSUME NEW line \in Line, NEW useful \in BOOLEAN, NEW accepted \in BOOLEAN,
               Access(line, useful, accepted)
        PROVE  ReplayInv'
    BY <2>1, ReplayAccessInv
  <2>2. CASE UNCHANGED <<events, pending, history, table, slots>>
    BY <2>2 DEF ReplayInv, Replaying
  <2>3. (PrefetchAccess \/ CacheFill \/ FinalStats) /\ UNCHANGED <<table, slots>>
          => UNCHANGED <<events, pending, history, table, slots>>
    BY DEF PrefetchAccess, CacheFill, FinalStats
  <2>4. UNCHANGED vars => UNCHANGED <<events, pending, history, table, slots>>
    BY DEF vars
  <2> QED BY <2>1, <2>2, <2>3, <2>4 DEF Next
<1>3. ReplayInv => ReplayMatches
  BY DEF ReplayInv, ReplayMatches, Replaying
<1>4. Init => Inv
  BY InitInv
<1>5. Inv /\ [Next]_vars => Inv'
  BY StepInv
<1> QED BY <1>1, <1>2, <1>3, <1>4, <1>5, PTL DEF Spec

----------------------------------------------------------------------------
(* DirectWAM implements CausalPrefetcher.                                  *)

\* A step of the prefetcher is a step of the causal prefetcher, or leaves it alone.
LEMMA CausalStep == Inv /\ TableInv /\ [Next]_vars => [Causal!Next]_(Causal!cvars)
<1> SUFFICES ASSUME Inv, TableInv, [Next]_vars
    PROVE  Causal!Next \/ UNCHANGED Causal!cvars
  OBVIOUS
<1>1. ASSUME NEW line \in Line, NEW useful \in BOOLEAN, NEW accepted \in BOOLEAN,
             Access(line, useful, accepted)
      PROVE  Causal!Next
  <2> DEFINE e == Looked(line)
             b == BucketOf[FormedKey(line)]
  <2>1. FrontInv /\ e \in Entry
    BY LookedType DEF Inv, FrontInv, TableTypeOK
  <2>2. Backed(e, Append(events, line))
    <3>1. CASE Formed(line)
      <4>1. b \in Bucket /\ e = TrainedTable(line)[b]
        BY <2>1, <3>1, FormedContext, BucketAssumption DEF FrontInv, Looked
      <4>2. Supported(TrainedTable(line)[b], Append(events, line), b)
        BY <4>1, TrainedMeaning
      <4> HIDE DEF b, e
      <4> QED BY <4>1, <4>2 DEF Supported, Backed
    <3>2. CASE ~Formed(line)
      BY <3>2 DEF Looked, EmptyEntry, Backed
    <3> QED BY <3>1, <3>2
  <2>3. Causal!Access(line)
    <3> HIDE DEF e
    <3>1. FrontAccess(line, useful, accepted, e)
      BY <1>1 DEF Access, e
    <3> QED BY <2>1, <2>2, <3>1, AccessImplements
  <2> QED BY <2>3 DEF Causal!Next
<1>2. UNCHANGED <<events, log>> => UNCHANGED Causal!cvars
  BY DEF Causal!cvars, predicted, Generated
<1>3. PrefetchAccess \/ CacheFill \/ FinalStats => UNCHANGED <<events, log>>
  BY DEF PrefetchAccess, CacheFill, FinalStats
<1>4. UNCHANGED vars => UNCHANGED <<events, log>>
  BY DEF vars
<1> QED BY <1>1, <1>2, <1>3, <1>4 DEF Next

\* Initial states map to initial states, steps to steps or stutters: every
\* prediction rests on outcomes that had arrived when it was made.
THEOREM DirectIsCausal == Spec => ImplementsCausal
<1>1. Init => Causal!Init
  BY DEF Init, FrontInit, Causal!Init, predicted, Generated
<1> QED BY <1>1, CausalStep, TableInvariance, PTL DEF Spec, ImplementsCausal, Causal!Spec

(***************************************************************************)
(* The selector and the sidecar under it                                   *)
(*                                                                         *)
(* SidecarNeverStarves is not inductive: where the window began, and that  *)
(* the minimum of the window before it was kept, must be known as well.    *)
(***************************************************************************)
SelectorTypeOK ==
  /\ selector \in [accesses : Nat, useful : Nat, enabled : Nat, abstains : Nat]
  /\ credited \in Nat
  /\ seen \in Seq(SeenRecord)

HybridInv == Inv /\ TableInv /\ SelectorTypeOK

\* A fill of SPP's shows in the fill counter of the sidecar only.
LEMMA FillInv ==
  ASSUME HybridInv, HybridFill
  PROVE  HybridInv'
<1>1. UNCHANGED <<pending, history, counters, events, log, shadow, final, table, slots>>
  BY DEF HybridFill
<1>2. fills \in Nat /\ fills' \in Nat
  BY DEF HybridInv, Inv, FrontInv, FrontTypeOK, HybridFill
<1>3. FrontTypeOK'
  BY <1>1, <1>2 DEF HybridInv, Inv, FrontInv, FrontTypeOK
<1>4. HistoryAligned' /\ PendingAligned'
  BY <1>1 DEF HybridInv, Inv, FrontInv, HistoryAligned, PendingAligned
<1>5. TableTypeOK' /\ TableInv'
  BY <1>1 DEF HybridInv, Inv, TableTypeOK, TableInv, ConfidenceSupported, LastTrainedOwnsSlot
<1>6. SelectorTypeOK'
  BY DEF HybridInv, SelectorTypeOK, HybridFill
<1> QED BY <1>3, <1>4, <1>5, <1>6 DEF HybridInv, Inv, FrontInv

\* The sidecar takes a step of its own, or none.
LEMMA SidecarInv ==
  ASSUME HybridInv, [Next]_vars
  PROVE  Inv' /\ TableInv'
<1>1. Inv /\ TableInv
  BY DEF HybridInv
<1> QED BY <1>1, StepInv, TableStepInv

\* What the selector adds to its counts and to the history.
LEMMA HybridAccessInv ==
  ASSUME HybridInv, NEW line \in Line, NEW useful \in BOOLEAN, NEW accepted \in BOOLEAN,
         HybridAccess(line, useful, accepted)
  PROVE  HybridInv'
<1> DEFINE w == NextWindow(useful)
           abstains == Confident(w)
<1>1. [Next]_vars
  BY DEF HybridAccess, Next
<1>2. Inv' /\ TableInv'
  BY <1>1, SidecarInv
<1>3. \A c : Tick(c) \in Nat
  BY DEF Tick
<1>4. /\ selector.accesses \in Nat /\ selector.useful \in Nat /\ selector.enabled \in Nat
      /\ selector.abstains \in Nat /\ credited \in Nat /\ seen \in Seq(SeenRecord)
  BY DEF HybridInv, SelectorTypeOK
<1>5. w.accesses \in Nat /\ w.useful \in Nat
  BY <1>3, <1>4 DEF NextWindow
<1>6. /\ selector' = [accesses |-> w.accesses, useful |-> w.useful,
                      enabled |-> selector.enabled + Tick(~abstains),
                      abstains |-> selector.abstains + Tick(abstains)]
      /\ credited' = credited + Tick(useful)
      /\ seen' = Append(seen, [line |-> line, useful |-> useful, sidecar |-> ~abstains])
  BY DEF HybridAccess
<1>7. abstains \in BOOLEAN
  BY DEF Confident
<1> HIDE DEF w, abstains
<1>8. [line |-> line, useful |-> useful, sidecar |-> ~abstains] \in SeenRecord
  BY <1>7 DEF SeenRecord
<1>9. SelectorTypeOK'
  <2>1. selector' \in [accesses : Nat, useful : Nat, enabled : Nat, abstains : Nat]
    <3>1. /\ selector.enabled + Tick(~abstains) \in Nat
          /\ selector.abstains + Tick(abstains) \in Nat
      BY <1>3, <1>4
    <3> QED BY <1>5, <1>6, <3>1
  <2>2. credited' \in Nat /\ seen' \in Seq(SeenRecord)
    BY <1>3, <1>4, <1>6, <1>8
  <2> QED BY <2>1, <2>2 DEF SelectorTypeOK
<1> QED BY <1>2, <1>9 DEF HybridInv

\* Initially the sidecar is a fresh prefetcher and nothing was seen.
LEMMA HybridInitInv == HybridInit => HybridInv
<1> SUFFICES ASSUME HybridInit PROVE HybridInv
  OBVIOUS
<1>1. Inv /\ TableInv
  BY InitInv, TableInitInv DEF HybridInit
<1>2. SelectorTypeOK
  BY DEF HybridInit, SelectorTypeOK
<1> QED BY <1>1, <1>2 DEF HybridInv

\* Accesses shown to the sidecar are its own steps; the others leave it alone.
LEMMA HybridStepInv == HybridInv /\ [HybridNext]_hybridVars => HybridInv'
<1> SUFFICES ASSUME HybridInv, [HybridNext]_hybridVars PROVE HybridInv'
  OBVIOUS
<1>1. ASSUME NEW line \in Line, NEW useful \in BOOLEAN, NEW accepted \in BOOLEAN,
             HybridAccess(line, useful, accepted)
      PROVE  HybridInv'
  BY <1>1, HybridAccessInv
<1>2. CASE HybridPrefetchAccess
  <2>1. Inv' /\ TableInv'
    BY <1>2, SidecarInv DEF HybridPrefetchAccess
  <2>2. SelectorTypeOK'
    BY <1>2 DEF HybridInv, SelectorTypeOK, HybridPrefetchAccess
  <2> QED BY <2>1, <2>2 DEF HybridInv
<1>3. CASE HybridFill
  BY <1>3, FillInv
<1>4. CASE HybridFinalStats
  <2>1. Inv' /\ TableInv'
    BY <1>4, SidecarInv DEF HybridFinalStats, Next
  <2>2. SelectorTypeOK'
    BY <1>4 DEF HybridInv, SelectorTypeOK, HybridFinalStats
  <2> QED BY <2>1, <2>2 DEF HybridInv
<1>5. CASE UNCHANGED hybridVars
  <2>1. UNCHANGED vars /\ UNCHANGED <<selector, credited, seen>>
    BY <1>5 DEF hybridVars
  <2>2. Inv' /\ TableInv'
    BY <2>1, SidecarInv
  <2>3. SelectorTypeOK'
    BY <2>1 DEF HybridInv, SelectorTypeOK
  <2> QED BY <2>2, <2>3 DEF HybridInv
<1> QED BY <1>1, <1>2, <1>3, <1>4, <1>5 DEF HybridNext

\* The selector and the sidecar under it keep their invariant.
LEMMA HybridInvariance == HybridSpec => []HybridInv
<1> QED BY HybridInitInv, HybridStepInv, PTL DEF HybridSpec

\* Type correctness of the selector and of the sidecar under it.
THEOREM HybridTypeCorrect == HybridSpec => []HybridTypeOK
<1>1. HybridInv => HybridTypeOK
  BY DEF HybridInv, SelectorTypeOK, HybridTypeOK, Inv, FrontInv, TableTypeOK, TypeOK, SlotsType
<1> QED BY <1>1, HybridInvariance, PTL

\* Switching the sidecar off and on never misaligns it: its queue is that of the
\* accesses it was shown, and its confidence is backed by them.
THEOREM SidecarKeepsItsWord == HybridSpec => [](PendingAligned /\ ConfidenceSupported)
<1>1. HybridInv => PendingAligned /\ ConfidenceSupported
  BY DEF HybridInv, Inv, FrontInv, TableInv
<1> QED BY <1>1, HybridInvariance, PTL

\* Seen through the selector, the sidecar is still a causal prefetcher: whatever
\* SPP does, it predicts from outcomes that had arrived.
THEOREM HybridIsCausal == HybridSpec => ImplementsCausal
<1>1. HybridInit => Causal!Init
  BY DEF HybridInit, Init, FrontInit, Causal!Init, predicted, Generated
<1>2. HybridInv /\ [HybridNext]_hybridVars => [Causal!Next]_(Causal!cvars)
  <2> SUFFICES ASSUME HybridInv, [HybridNext]_hybridVars
      PROVE  [Causal!Next]_(Causal!cvars)
    OBVIOUS
  <2>1. [Next]_vars => [Causal!Next]_(Causal!cvars)
    BY CausalStep DEF HybridInv
  <2>2. HybridFill => UNCHANGED Causal!cvars
    BY DEF HybridFill, Causal!cvars, predicted, Generated
  <2>3. (\E line \in Line, useful, accepted \in BOOLEAN : HybridAccess(line, useful, accepted))
          => [Next]_vars
    BY DEF HybridAccess, Next
  <2>4. HybridPrefetchAccess \/ HybridFinalStats => [Next]_vars
    BY DEF HybridPrefetchAccess, HybridFinalStats, Next
  <2>5. UNCHANGED hybridVars => UNCHANGED vars
    BY DEF hybridVars
  <2> QED BY <2>1, <2>2, <2>3, <2>4, <2>5 DEF HybridNext
<1> QED BY <1>1, <1>2, HybridInvariance, PTL DEF HybridSpec, ImplementsCausal, Causal!Spec

\* The sidecar's predictions are compared with the accesses it was shown, exactly.
THEOREM SidecarShadowExact == HybridSpec => []ShadowExact
<1>1. HybridInit => ShadowInv
  BY ShadowInit DEF HybridInit, Init
<1>2. HybridInv /\ ShadowInv /\ [HybridNext]_hybridVars => ShadowInv'
  <2> SUFFICES ASSUME HybridInv, ShadowInv, [HybridNext]_hybridVars PROVE ShadowInv'
    OBVIOUS
  <2>1. [Next]_vars => ShadowInv'
    BY ShadowStepInv DEF HybridInv
  <2>2. HybridFill => ShadowInv'
    <3>1. HybridFill => UNCHANGED <<events, log, shadow, counters, final>>
      BY DEF HybridFill
    <3> QED BY <3>1, ShadowOther DEF HybridInv, Inv
  <2>3. (\E line \in Line, useful, accepted \in BOOLEAN : HybridAccess(line, useful, accepted))
          => [Next]_vars
    BY DEF HybridAccess, Next
  <2>4. HybridPrefetchAccess \/ HybridFinalStats => [Next]_vars
    BY DEF HybridPrefetchAccess, HybridFinalStats, Next
  <2>5. UNCHANGED hybridVars => UNCHANGED vars
    BY DEF hybridVars
  <2> QED BY <2>1, <2>2, <2>3, <2>4, <2>5 DEF HybridNext
<1>3. HybridInv /\ ShadowInv => ShadowExact
  BY ShadowInvExact DEF HybridInv, Inv
<1> QED BY <1>1, <1>2, <1>3, HybridInvariance, PTL DEF HybridSpec

----------------------------------------------------------------------------
(* The sidecar never starves.                                              *)

\* After the accesses s, the last a of them in the window that is open: the first
\* MINIMUM accesses of that window and of the one before were the sidecar's.  A
\* window's first access is the one that closes its predecessor.
WindowKept(s, a) ==
  LET began == Len(s) - a
  IN  /\ a < WINDOW
      /\ \A j \in 1 .. Len(s) :
           (began <= j /\ j < began + MINIMUM) => s[j].sidecar
      /\ \A j \in 1 .. Len(s) :
           (began - WINDOW <= j /\ j < began - WINDOW + MINIMUM) => s[j].sidecar

\* The last WINDOW accesses overlap two windows: the start of the open one, and
\* of the one before what the open one has not reached yet.
LEMMA EnoughOfBoth ==
  ASSUME NEW s \in Seq(SeenRecord), NEW a \in Nat, WindowKept(s, a), Len(s) >= WINDOW
  PROVE  Cardinality({j \in Len(s) - WINDOW + 1 .. Len(s) : s[j].sidecar}) >= MINIMUM
<1> DEFINE n == Len(s)
           began == n - a
           D == {j \in n - WINDOW + 1 .. n : s[j].sidecar}
<1>1. n \in Nat /\ WINDOW \in Nat /\ MINIMUM \in Nat /\ MINIMUM > 0 /\ MINIMUM <= WINDOW
  BY SelectorAssumption
<1>2. a < WINDOW /\ n >= WINDOW
  BY DEF WindowKept
<1>3. \A j \in 1 .. n : /\ (began <= j /\ j < began + MINIMUM) => s[j].sidecar
                        /\ (began - WINDOW <= j /\ j < began - WINDOW + MINIMUM) => s[j].sidecar
  BY DEF WindowKept
<1> HIDE DEF n
<1>4. IsFiniteSet(D) /\ Cardinality(D) \in Nat
  <2>1. IsFiniteSet(n - WINDOW + 1 .. n)
    BY <1>1, FS_Interval
  <2> QED BY <2>1, FS_Subset, FS_CardinalityType
<1>5. CASE a >= MINIMUM - 1
  <2> DEFINE I == began .. began + MINIMUM - 1
  <2>1. Cardinality(I) = MINIMUM
    <3>1. began \in Int /\ began + MINIMUM - 1 \in Int
      BY <1>1
    <3>2. Cardinality(I) = IF began > began + MINIMUM - 1 THEN 0
                           ELSE (began + MINIMUM - 1) - began + 1
      BY <3>1, FS_Interval
    <3> QED BY <1>1, <3>2
  <2>2. I \subseteq D
    BY <1>1, <1>2, <1>3, <1>5
  <2>3. Cardinality(I) <= Cardinality(D)
    BY <1>4, <2>2, FS_Subset
  <2> QED BY <2>1, <2>3 DEF n
<1>6. CASE a < MINIMUM - 1
  <2> DEFINE I == began .. n
             lo == n - WINDOW + 1
             hi == began - WINDOW + MINIMUM - 1
             J == lo .. hi
  <2>1. Cardinality(I) = a + 1 /\ IsFiniteSet(I)
    <3>1. began \in Int /\ n \in Int
      BY <1>1
    <3>2. IsFiniteSet(I) /\ Cardinality(I) = IF began > n THEN 0 ELSE n - began + 1
      BY <3>1, FS_Interval
    <3> QED BY <1>1, <3>2
  <2>2. Cardinality(J) = MINIMUM - 1 - a /\ IsFiniteSet(J)
    <3>1. lo \in Int /\ hi \in Int
      BY <1>1
    <3>2. IsFiniteSet(J) /\ Cardinality(J) = IF lo > hi THEN 0 ELSE hi - lo + 1
      BY <3>1, FS_Interval
    <3>3. hi - lo + 1 = MINIMUM - 1 - a
      BY <1>1
    <3> QED BY <1>1, <1>6, <3>2, <3>3
  <2>3. I \cap J = {}
    BY <1>1
  <2>4. Cardinality(I \cup J) = MINIMUM
    <3>1. Cardinality(I \cup J) = Cardinality(I) + Cardinality(J) - Cardinality(I \cap J)
      BY <2>1, <2>2, FS_Union
    <3>2. Cardinality(I \cap J) = 0
      BY <2>3, FS_EmptySet
    <3> HIDE DEF I, J
    <3> QED BY <1>1, <2>1, <2>2, <3>1, <3>2
  <2>5. I \cup J \subseteq D
    BY <1>1, <1>2, <1>3, <1>6
  <2>6. Cardinality(I \cup J) <= Cardinality(D)
    BY <1>4, <2>5, FS_Subset
  <2> QED BY <2>4, <2>6 DEF n
<1> QED BY <1>1, <1>5, <1>6

StarveInv == WindowKept(seen, selector.accesses) /\ SidecarNeverStarves

\* One more access, which the sidecar gets if it is among the first MINIMUM of its
\* window or opens one.
LEMMA WindowKeptStep ==
  ASSUME NEW s \in Seq(SeenRecord), NEW a \in Nat, WindowKept(s, a),
         NEW r \in SeenRecord,
         NEW b, b = IF a + 1 >= WINDOW THEN 0 ELSE a + 1,
         b < MINIMUM => r.sidecar
  PROVE  b \in Nat /\ WindowKept(Append(s, r), b)
<1> DEFINE n == Len(s)
           t == Append(s, r)
<1>1. n \in Nat /\ WINDOW \in Nat /\ MINIMUM \in Nat /\ MINIMUM > 0 /\ MINIMUM <= WINDOW
  BY SelectorAssumption
<1>2. /\ a < WINDOW
      /\ \A j \in 1 .. n : (n - a <= j /\ j < n - a + MINIMUM) => s[j].sidecar
      /\ \A j \in 1 .. n :
           (n - a - WINDOW <= j /\ j < n - a - WINDOW + MINIMUM) => s[j].sidecar
  BY DEF WindowKept
<1>3. Len(t) = n + 1 /\ \A j \in 1 .. n + 1 : t[j] = IF j = n + 1 THEN r ELSE s[j]
  OBVIOUS
<1> HIDE DEF n, t
<1>4. CASE a + 1 >= WINDOW
  <2>1. b = 0 /\ a + 1 = WINDOW /\ r.sidecar
    BY <1>1, <1>2, <1>4
  <2>2. ASSUME NEW j \in 1 .. n + 1, (n + 1) - b <= j
        PROVE  t[j].sidecar
    BY <1>1, <1>3, <2>1, <2>2
  <2>3. ASSUME NEW j \in 1 .. n + 1,
               (n + 1) - b - WINDOW <= j, j < (n + 1) - b - WINDOW + MINIMUM
        PROVE  t[j].sidecar
    <3>1. n - a <= j /\ j < n - a + MINIMUM
      BY <1>1, <2>1, <2>3
    <3> QED BY <1>1, <1>2, <1>3, <2>1, <3>1
  <2>4. b \in Nat /\ b < WINDOW
    BY <1>1, <2>1
  <2> QED BY <1>3, <2>2, <2>3, <2>4 DEF WindowKept, t
<1>5. CASE a + 1 < WINDOW
  <2>1. b = a + 1 /\ (n + 1) - b = n - a
    BY <1>1, <1>5
  <2>2. ASSUME NEW j \in 1 .. n + 1, (n + 1) - b <= j, j < (n + 1) - b + MINIMUM
        PROVE  t[j].sidecar
    <3>1. CASE j = n + 1
      BY <1>1, <1>3, <2>1, <2>2, <3>1
    <3>2. CASE j # n + 1
      BY <1>1, <1>2, <1>3, <2>1, <2>2, <3>2
    <3> QED BY <3>1, <3>2
  <2>3. ASSUME NEW j \in 1 .. n + 1,
               (n + 1) - b - WINDOW <= j, j < (n + 1) - b - WINDOW + MINIMUM
        PROVE  t[j].sidecar
    BY <1>1, <1>2, <1>3, <2>1, <2>3
  <2>4. b \in Nat /\ b < WINDOW
    BY <1>1, <1>5, <2>1
  <2> QED BY <1>3, <2>1, <2>2, <2>3, <2>4 DEF WindowKept, t
<1> QED BY <1>1, <1>4, <1>5

\* A demand access leaves every stretch of WINDOW accesses with its MINIMUM.
LEMMA StarveAccess ==
  ASSUME SelectorTypeOK, StarveInv, NEW line \in Line, NEW useful \in BOOLEAN,
         NEW accepted \in BOOLEAN, HybridAccess(line, useful, accepted)
  PROVE  StarveInv'
<1> DEFINE w == NextWindow(useful)
           r == [line |-> line, useful |-> useful, sidecar |-> ~Confident(w)]
           a == selector.accesses
           n == Len(seen)
<1>1. seen \in Seq(SeenRecord) /\ a \in Nat /\ n \in Nat
  BY DEF SelectorTypeOK
<1>2. w.accesses = IF a + 1 >= WINDOW THEN 0 ELSE a + 1
  BY DEF NextWindow
<1>3. w.accesses < MINIMUM => r.sidecar
  <2>1. w.accesses \in Nat
    BY <1>1, <1>2
  <2>2. r.sidecar <=> ~Confident(w)
    OBVIOUS
  <2>3. Confident(w) => w.accesses >= MINIMUM
    BY DEF Confident
  <2> HIDE DEF w, r
  <2> QED BY <2>1, <2>2, <2>3, SelectorAssumption
<1>4. r \in SeenRecord
  BY DEF SeenRecord, Confident
<1>5. seen' = Append(seen, r) /\ selector'.accesses = w.accesses
  BY DEF HybridAccess
<1> HIDE DEF w, r
<1>6. w.accesses \in Nat /\ WindowKept(seen', w.accesses)
  BY <1>1, <1>2, <1>3, <1>4, <1>5, WindowKeptStep DEF StarveInv
<1>7. seen' \in Seq(SeenRecord) /\ Len(seen') = n + 1
      /\ \A j \in 1 .. n : seen'[j] = seen[j]
  BY <1>1, <1>4, <1>5
<1> HIDE DEF n
<1>8. ASSUME NEW i \in 1 .. n + 1, i >= WINDOW
      PROVE  Cardinality({j \in i - WINDOW + 1 .. i : seen'[j].sidecar}) >= MINIMUM
  <2>1. CASE i = n + 1
    BY <1>6, <1>7, <1>8, <2>1, EnoughOfBoth
  <2>2. CASE i # n + 1
    <3>1. i \in 1 .. n
      BY <1>1, <2>2 DEF n
    <3>2. \A j \in i - WINDOW + 1 .. i : j \in 1 .. n
      BY <1>1, <1>8, <3>1, SelectorAssumption DEF n
    <3>3. {j \in i - WINDOW + 1 .. i : seen'[j].sidecar}
            = {j \in i - WINDOW + 1 .. i : seen[j].sidecar}
      BY <1>7, <3>2
    <3>4. Cardinality({j \in i - WINDOW + 1 .. i : seen[j].sidecar}) >= MINIMUM
      BY <1>8, <3>1 DEF StarveInv, SidecarNeverStarves, Positions, n
    <3> QED BY <3>3, <3>4
  <2> QED BY <2>1, <2>2
<1>9. SidecarNeverStarves'
  BY <1>7, <1>8 DEF SidecarNeverStarves, Positions
<1> QED BY <1>5, <1>6, <1>9 DEF StarveInv

\* However useful SPP's prefetches are, the sidecar sees at least MINIMUM of any
\* WINDOW consecutive accesses, so it never stops training.
THEOREM SidecarIsFed == HybridSpec => []SidecarNeverStarves
<1>1. HybridInit => StarveInv
  <2> SUFFICES ASSUME HybridInit PROVE StarveInv
    OBVIOUS
  <2>1. seen = <<>> /\ selector.accesses = 0
    BY DEF HybridInit
  <2>2. WindowKept(<<>>, 0)
    BY SelectorAssumption DEF WindowKept
  <2>3. SidecarNeverStarves
    BY <2>1 DEF SidecarNeverStarves, Positions
  <2> QED BY <2>1, <2>2, <2>3 DEF StarveInv
<1>2. HybridInv /\ StarveInv /\ [HybridNext]_hybridVars => StarveInv'
  <2> SUFFICES ASSUME SelectorTypeOK, StarveInv, [HybridNext]_hybridVars PROVE StarveInv'
    BY DEF HybridInv
  <2>1. ASSUME NEW line \in Line, NEW useful \in BOOLEAN, NEW accepted \in BOOLEAN,
               HybridAccess(line, useful, accepted)
        PROVE  StarveInv'
    BY <2>1, StarveAccess
  <2>2. CASE UNCHANGED <<selector, seen>>
    BY <2>2 DEF StarveInv, WindowKept, SidecarNeverStarves, Positions
  <2>3. HybridPrefetchAccess \/ HybridFill \/ HybridFinalStats \/ UNCHANGED hybridVars
          => UNCHANGED <<selector, seen>>
    BY DEF HybridPrefetchAccess, HybridFill, HybridFinalStats, hybridVars
  <2> QED BY <2>1, <2>2, <2>3 DEF HybridNext
<1>3. StarveInv => SidecarNeverStarves
  BY DEF StarveInv
<1> QED BY <1>1, <1>2, <1>3, HybridInvariance, PTL DEF HybridSpec

----------------------------------------------------------------------------
(* The selector, recounted from the accesses.                              *)

\* The remainder goes up by one, and starts again at the divisor.
LEMMA NextRemainder ==
  ASSUME NEW n \in Nat, NEW w \in Nat \ {0}
  PROVE  /\ n % w \in 0 .. w - 1
         /\ (n + 1) % w = IF (n % w) + 1 >= w THEN 0 ELSE (n % w) + 1
<1> DEFINE q == n \div w
           r == n % w
           p == (n + 1) \div w
           u == (n + 1) % w
<1>1. n = w * q + r /\ q \in Int /\ r \in 0 .. w - 1
  OBVIOUS
<1>2. n + 1 = w * p + u /\ p \in Int /\ u \in 0 .. w - 1
  OBVIOUS
<1> HIDE DEF q, r, p, u
<1>3. w * (p - q) = r + 1 - u
  BY <1>1, <1>2
<1>4. p - q \in {0, 1}
  <2>1. p - q < 0 => w * (p - q) <= -w
    BY <1>1, <1>2
  <2>2. p - q > 1 => w * (p - q) >= w + w
    BY <1>1, <1>2
  <2> QED BY <1>1, <1>2, <1>3, <2>1, <2>2
<1>5. u = r + 1 \/ u = r + 1 - w
  <2>1. w * 0 = 0 /\ w * 1 = w
    OBVIOUS
  <2> QED BY <1>1, <1>2, <1>3, <1>4, <2>1
<1> QED BY <1>1, <1>2, <1>5 DEF r, u

\* The positions of the window that i closes or belongs to lie before i.
LEMMA WindowFinite ==
  ASSUME SelectorTypeOK, NEW i \in Nat
  PROVE  /\ WindowTo(i) \subseteq Positions
         /\ IsFiniteSet(WindowTo(i))
         /\ Useful(WindowTo(i)) \in Nat
<1>1. Len(seen) \in Int
  BY DEF SelectorTypeOK
<1>2. IsFiniteSet(Positions)
  BY <1>1, FS_Interval DEF Positions
<1>3. WindowTo(i) \subseteq Positions
  BY DEF WindowTo
<1>4. {j \in WindowTo(i) : seen[j].useful} \subseteq Positions
  BY <1>3
<1> QED BY <1>2, <1>3, <1>4, FS_Subset, FS_CardinalityType DEF Useful

\* One more access leaves the windows of the accesses before it alone, and counts
\* in its own unless it closes one.
LEMMA WindowGrows ==
  ASSUME SelectorTypeOK, NEW r \in SeenRecord, seen' = Append(seen, r)
  PROVE  LET n == Len(seen)
         IN  /\ \A i \in 1 .. n : Useful(WindowTo(i))' = Useful(WindowTo(i))
             /\ Useful(WindowTo(Len(seen)))'
                  = IF (n % WINDOW) + 1 >= WINDOW THEN 0
                    ELSE Useful(WindowTo(n)) + Tick(r.useful)
<1> DEFINE n == Len(seen)
           t == Append(seen, r)
           Of(s, i) == {j \in 1 .. Len(s) : j <= i /\ i - j < i % WINDOW}
           Hits(s, i) == {j \in Of(s, i) : s[j].useful}
<1>1. /\ n \in Nat /\ WINDOW \in Nat \ {0} /\ t \in Seq(SeenRecord) /\ Len(t) = n + 1
      /\ t[n + 1] = r /\ \A j \in 1 .. n : t[j] = seen[j]
  BY SelectorAssumption DEF SelectorTypeOK
<1>2. \A i : /\ Useful(WindowTo(i)) = Cardinality(Hits(seen, i))
             /\ Useful(WindowTo(i))' = Cardinality(Hits(t, i'))
  BY DEF Useful, WindowTo, Positions
<1>3. ASSUME NEW i \in 1 .. n PROVE Hits(t, i) = Hits(seen, i)
  <2>1. Of(t, i) = Of(seen, i) /\ Of(seen, i) \subseteq 1 .. n
    BY <1>1
  <2> HIDE DEF Of, t, n
  <2> QED BY <1>1, <2>1
<1>4. Hits(t, n + 1) = IF (n % WINDOW) + 1 >= WINDOW THEN {}
                       ELSE IF r.useful THEN Hits(seen, n) \cup {n + 1} ELSE Hits(seen, n)
  <2>1. /\ n % WINDOW \in 0 .. WINDOW - 1
        /\ (n + 1) % WINDOW = IF (n % WINDOW) + 1 >= WINDOW THEN 0 ELSE (n % WINDOW) + 1
    BY <1>1, NextRemainder
  <2> DEFINE k == n % WINDOW
             l == (n + 1) % WINDOW
  <2> HIDE DEF k, l
  <2>2. Of(t, n + 1) = {j \in 1 .. n + 1 : j <= n + 1 /\ n + 1 - j < l}
        /\ Of(seen, n) = {j \in 1 .. n : j <= n /\ n - j < k}
    BY <1>1 DEF k, l
  <2>3. k \in 0 .. WINDOW - 1 /\ l = IF k + 1 >= WINDOW THEN 0 ELSE k + 1
    BY <2>1 DEF k, l
  <2> HIDE DEF n, t, Of
  <2>4. CASE k + 1 >= WINDOW
    <3>1. Of(t, n + 1) = {}
      BY <1>1, <2>2, <2>3, <2>4
    <3> QED BY <2>4, <3>1 DEF k
  <2>5. CASE ~ (k + 1 >= WINDOW)
    <3>1. Of(t, n + 1) = Of(seen, n) \cup {n + 1} /\ Of(seen, n) \subseteq 1 .. n
      BY <1>1, <2>2, <2>3, <2>5
    <3>2. Hits(t, n + 1) = {j \in Of(seen, n) : seen[j].useful} \cup {j \in {n + 1} : r.useful}
      BY <1>1, <3>1
    <3> QED BY <2>5, <3>2 DEF k
  <2> QED BY <2>4, <2>5
<1>5. Cardinality(Hits(seen, n) \cup {n + 1}) = Cardinality(Hits(seen, n)) + 1
      /\ Cardinality(Hits(seen, n)) \in Nat
  <2>1. IsFiniteSet(Hits(seen, n)) /\ n + 1 \notin Hits(seen, n)
    <3>1. Hits(seen, n) \subseteq 1 .. n
      OBVIOUS
    <3>2. IsFiniteSet(1 .. n)
      BY <1>1, FS_Interval
    <3> QED BY <1>1, <3>1, <3>2, FS_Subset
  <2> HIDE DEF Hits
  <2> QED BY <2>1, FS_AddElement, FS_CardinalityType
<1>6. Useful(WindowTo(Len(seen)))' = Cardinality(Hits(t, n + 1))
  <2>1. Len(seen)' = n + 1
    BY <1>1
  <2> QED BY <1>2, <2>1
<1>7. Cardinality({}) = 0
  BY FS_EmptySet
<1>8. \A i \in 1 .. n : Useful(WindowTo(i))' = Useful(WindowTo(i))
  BY <1>2, <1>3
<1>9. Useful(WindowTo(n)) = Cardinality(Hits(seen, n))
  BY <1>2
<1> HIDE DEF Hits, Of
<1> QED BY <1>4, <1>5, <1>6, <1>7, <1>8, <1>9 DEF Tick

\* One more access of the selector keeps its counts exact.
LEMMA SelectorAccess ==
  ASSUME SelectorTypeOK, SelectorExact, NEW line \in Line, NEW useful \in BOOLEAN,
         NEW accepted \in BOOLEAN, HybridAccess(line, useful, accepted)
  PROVE  SelectorExact'
<1> DEFINE w == NextWindow(useful)
           r == [line |-> line, useful |-> useful, sidecar |-> ~Confident(w)]
           n == Len(seen)
<1>1. /\ seen \in Seq(SeenRecord) /\ n \in Nat /\ WINDOW \in Nat \ {0} /\ MINIMUM \in Nat
      /\ selector.accesses = n % WINDOW /\ selector.useful = Useful(WindowTo(n))
  BY SelectorAssumption DEF SelectorTypeOK, SelectorExact
<1>2. /\ w.accesses = IF (n % WINDOW) + 1 >= WINDOW THEN 0 ELSE (n % WINDOW) + 1
      /\ w.useful = IF (n % WINDOW) + 1 >= WINDOW THEN 0 ELSE Useful(WindowTo(n)) + Tick(useful)
  BY <1>1 DEF NextWindow
<1>3. r \in SeenRecord /\ r.useful = useful /\ (~ r.sidecar <=> Confident(w))
  BY DEF SeenRecord, Confident
<1>4. seen' = Append(seen, r) /\ selector'.accesses = w.accesses /\ selector'.useful = w.useful
  BY DEF HybridAccess
<1>5. Confident(w) <=> w.accesses >= MINIMUM /\ w.useful * RATE_DEN >= w.accesses * RATE_NUM
  BY DEF Confident
<1> HIDE DEF w, r
<1>6. /\ Len(seen') = n + 1 /\ seen'[n + 1] = r
      /\ \A j \in 1 .. n : seen'[j] = seen[j]
  BY <1>1, <1>3, <1>4
<1>7. w.accesses = (n + 1) % WINDOW
  BY <1>1, <1>2, NextRemainder
<1>8. /\ \A i \in 1 .. n : Useful(WindowTo(i))' = Useful(WindowTo(i))
      /\ Useful(WindowTo(Len(seen)))' = w.useful
  BY <1>2, <1>3, <1>4, WindowGrows
<1>9. ASSUME NEW i \in 1 .. n + 1
      PROVE  ~ seen'[i].sidecar <=>
               /\ i % WINDOW >= MINIMUM
               /\ Useful(WindowTo(i))' * RATE_DEN >= (i % WINDOW) * RATE_NUM
  <2>1. CASE i = n + 1
    <3>1. Useful(WindowTo(i))' = w.useful
      BY <1>6, <1>8, <2>1 DEF Useful, WindowTo, Positions
    <3> QED BY <1>3, <1>5, <1>6, <1>7, <2>1, <3>1
  <2>2. CASE i # n + 1
    <3>1. i \in 1 .. n
      BY <1>1, <2>2
    <3> QED BY <1>6, <1>8, <3>1 DEF SelectorExact, Positions
  <2> QED BY <2>1, <2>2
<1> QED BY <1>4, <1>6, <1>7, <1>8, <1>9 DEF SelectorExact, Positions

\* The selector's window is the one recounted from the accesses, and it abstains at
\* exactly those that find the window long and useful enough.
THEOREM SelectorRecounted == HybridSpec => []SelectorExact
<1>1. HybridInit => SelectorExact
  <2> SUFFICES ASSUME HybridInit PROVE SelectorExact
    OBVIOUS
  <2>1. seen = <<>> /\ selector.accesses = 0 /\ selector.useful = 0 /\ Len(seen) = 0
    BY DEF HybridInit
  <2>2. 0 % WINDOW = 0
    BY SelectorAssumption
  <2>3. Useful(WindowTo(0)) = 0
    <3>1. {j \in WindowTo(0) : seen[j].useful} = {}
      BY <2>1 DEF WindowTo, Positions
    <3> QED BY <3>1, FS_EmptySet DEF Useful
  <2> QED BY <2>1, <2>2, <2>3 DEF SelectorExact, Positions
<1>2. HybridInv /\ SelectorExact /\ [HybridNext]_hybridVars => SelectorExact'
  <2> SUFFICES ASSUME SelectorTypeOK, SelectorExact, [HybridNext]_hybridVars PROVE SelectorExact'
    BY DEF HybridInv
  <2>1. ASSUME NEW line \in Line, NEW useful \in BOOLEAN, NEW accepted \in BOOLEAN,
               HybridAccess(line, useful, accepted)
        PROVE  SelectorExact'
    BY <2>1, SelectorAccess
  <2>2. CASE UNCHANGED <<selector, seen>>
    BY <2>2 DEF SelectorExact, Useful, WindowTo, Positions
  <2>3. HybridPrefetchAccess \/ HybridFill \/ HybridFinalStats \/ UNCHANGED hybridVars
          => UNCHANGED <<selector, seen>>
    BY DEF HybridPrefetchAccess, HybridFill, HybridFinalStats, hybridVars
  <2> QED BY <2>1, <2>2, <2>3 DEF HybridNext
<1> QED BY <1>1, <1>2, HybridInvariance, PTL DEF HybridSpec

----------------------------------------------------------------------------
(* The stream of the sidecar.                                              *)

\* The accesses up to a position are finitely many; those up to an earlier one
\* are no more.
LEMMA EnabledFinite ==
  ASSUME NEW n \in Nat
  PROVE  /\ IsFiniteSet(Enabled(n)) /\ Cardinality(Enabled(n)) \in Nat
         /\ \A i \in Enabled(n) : Cardinality(Enabled(i)) \in 1 .. Cardinality(Enabled(n))
<1>1. ASSUME NEW m \in Nat
      PROVE  IsFiniteSet(Enabled(m)) /\ Cardinality(Enabled(m)) \in Nat
  <2>1. IsFiniteSet(1 .. m)
    BY FS_Interval
  <2> QED BY <2>1, FS_Subset, FS_CardinalityType DEF Enabled
<1>2. ASSUME NEW i \in Enabled(n)
      PROVE  Cardinality(Enabled(i)) \in 1 .. Cardinality(Enabled(n))
  <2>1. i \in Nat /\ i \in 1 .. n /\ i \in Enabled(i) /\ Enabled(i) \subseteq Enabled(n)
    BY DEF Enabled
  <2>2. Cardinality(Enabled(i)) <= Cardinality(Enabled(n))
    BY <1>1, <2>1, FS_Subset
  <2>3. Cardinality(Enabled(i)) # 0
    BY <1>1, <2>1, FS_EmptySet
  <2> QED BY <1>1, <2>1, <2>2, <2>3
<1> QED BY <1>1, <1>2

\* An access reaches the sidecar's stream if and only if it is enabled.
LEMMA StreamAccess ==
  ASSUME HybridInv, SidecarStream, NEW line \in Line, NEW useful \in BOOLEAN,
         NEW accepted \in BOOLEAN, HybridAccess(line, useful, accepted)
  PROVE  SidecarStream'
<1> DEFINE c == Confident(NextWindow(useful))
           r == [line |-> line, useful |-> useful, sidecar |-> ~ c]
           n == Len(seen)
           On(s, i) == {j \in 1 .. i : s[j].sidecar}
<1>1. /\ seen \in Seq(SeenRecord) /\ n \in Nat /\ events \in Seq(Line)
      /\ Len(events) = Cardinality(On(seen, n))
      /\ \A i \in On(seen, n) : events[Cardinality(On(seen, i))] = seen[i].line
  <2>1. \A i : On(seen, i) = Enabled(i)
    BY DEF Enabled
  <2>2. seen \in Seq(SeenRecord) /\ n \in Nat /\ events \in Seq(Line)
    BY DEF HybridInv, SelectorTypeOK, Inv, FrontInv, FrontTypeOK
  <2> HIDE DEF On
  <2>3. Len(events) = Cardinality(On(seen, n))
    BY <2>1 DEF SidecarStream
  <2>4. \A i \in On(seen, n) : events[Cardinality(On(seen, i))] = seen[i].line
    BY <2>1, Zenon DEF SidecarStream
  <2> QED BY <2>2, <2>3, <2>4
<1>2. seen' = Append(seen, r) /\ r \in SeenRecord /\ r.line = line /\ (r.sidecar <=> ~ c)
  BY DEF HybridAccess, SeenRecord, Confident
<1>3. events' = IF c THEN events ELSE Append(events, line)
  BY DEF HybridAccess, Access, FrontAccess, vars
<1> HIDE DEF c, r
<1>4. /\ Len(seen') = n + 1 /\ seen'[n + 1] = r
      /\ \A j \in 1 .. n : seen'[j] = seen[j]
  BY <1>1, <1>2
<1>5. \A i \in 1 .. n : On(seen', i) = On(seen, i)
  BY <1>1, <1>4
<1>6. On(seen', n) = On(seen, n)
  BY <1>1, <1>4
<1>7. On(seen', n + 1) = IF c THEN On(seen, n) ELSE On(seen, n) \cup {n + 1}
  BY <1>1, <1>2, <1>4
<1>8. /\ IsFiniteSet(On(seen, n)) /\ Cardinality(On(seen, n)) \in Nat
      /\ \A i \in On(seen, n) : Cardinality(On(seen, i)) \in 1 .. Cardinality(On(seen, n))
  BY <1>1, EnabledFinite DEF Enabled
<1>9. n + 1 \notin On(seen, n) /\ On(seen, n) \subseteq 1 .. n
  BY <1>1
<1> HIDE DEF On, n
<1>10. Cardinality(On(seen, n) \cup {n + 1}) = Cardinality(On(seen, n)) + 1
  BY <1>8, <1>9, FS_AddElement
<1>11. Len(events') = Cardinality(On(seen', n + 1))
  BY <1>1, <1>3, <1>7, <1>10
<1>12. ASSUME NEW i \in On(seen', n + 1)
       PROVE  events'[Cardinality(On(seen', i))] = seen'[i].line
  <2>1. CASE i \in On(seen, n)
    <3>1. i \in 1 .. n /\ On(seen', i) = On(seen, i) /\ seen'[i] = seen[i]
      BY <1>4, <1>5, <1>9, <2>1
    <3>2. Cardinality(On(seen, i)) \in 1 .. Len(events)
      BY <1>1, <1>8, <2>1
    <3>3. events'[Cardinality(On(seen, i))] = events[Cardinality(On(seen, i))]
      BY <1>1, <1>3, <3>2
    <3> QED BY <1>1, <2>1, <3>1, <3>3
  <2>2. CASE i \notin On(seen, n)
    <3>1. ~ c /\ i = n + 1
      BY <1>7, <2>2
    <3>2. Cardinality(On(seen', i)) = Len(events) + 1
      BY <1>1, <1>7, <1>10, <3>1
    <3>3. events'[Len(events) + 1] = line
      BY <1>1, <1>3, <3>1
    <3> QED BY <1>2, <1>4, <3>1, <3>2, <3>3
  <2> QED BY <2>1, <2>2
<1> QED BY <1>4, <1>11, <1>12 DEF SidecarStream, Enabled, On

\* The sidecar learns from exactly the accesses at which it is enabled, in order.
THEOREM SidecarSeesEnabled == HybridSpec => []SidecarStream
<1>1. HybridInit => SidecarStream
  <2> SUFFICES ASSUME HybridInit PROVE SidecarStream
    OBVIOUS
  <2>1. seen = <<>> /\ events = <<>> /\ Len(seen) = 0 /\ Len(events) = 0
    BY DEF HybridInit, Init, FrontInit
  <2>2. Enabled(0) = {}
    BY DEF Enabled
  <2> QED BY <2>1, <2>2, FS_EmptySet DEF SidecarStream
<1>2. HybridInv /\ SidecarStream /\ [HybridNext]_hybridVars => SidecarStream'
  <2> SUFFICES ASSUME HybridInv, SidecarStream, [HybridNext]_hybridVars PROVE SidecarStream'
    OBVIOUS
  <2>1. ASSUME NEW line \in Line, NEW useful \in BOOLEAN, NEW accepted \in BOOLEAN,
               HybridAccess(line, useful, accepted)
        PROVE  SidecarStream'
    BY <2>1, StreamAccess
  <2>2. CASE UNCHANGED <<events, seen>>
    BY <2>2 DEF SidecarStream, Enabled
  <2>3. HybridPrefetchAccess \/ HybridFill \/ HybridFinalStats \/ UNCHANGED hybridVars
          => UNCHANGED <<events, seen>>
    BY DEF HybridPrefetchAccess, HybridFill, HybridFinalStats, FinalStats, hybridVars, vars
  <2> QED BY <2>1, <2>2, <2>3 DEF HybridNext
<1> QED BY <1>1, <1>2, HybridInvariance, PTL DEF HybridSpec
=================================================================================
