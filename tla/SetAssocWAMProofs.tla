--------------------------- MODULE SetAssocWAMProofs ---------------------------
(***************************************************************************)
(* Theorems about the set-associative prefetcher, for any number of sets   *)
(* and ways and any hashes.                                                *)
(***************************************************************************)
EXTENDS SetAssocWAM, WAMFrontEndProofs, SequenceTheorems, WellFoundedInduction

SlotsType == [empty_way : Nat, conflict : Nat, reused_before : Nat,
              alias_equivalent : Nat, reuses : [Set -> [Way -> Nat]]]

TableTypeOK ==
  /\ table \in [Set -> [Way -> Entry]]
  /\ nextWay \in [Set -> Way]
  /\ direct \in [Bucket -> Entry]
  /\ slots \in SlotsType

Inv == FrontInv /\ TableTypeOK

\* The least of some ways is one of them.
LEMMA LeastWay ==
  ASSUME NEW W, W \subseteq Way, W # {}
  PROVE  Least(W) \in W /\ \A w \in W : Least(W) <= w
<1> DEFINE R == OpToRel(<, Nat)
<1>1. W \subseteq Nat
  BY TableAssumption DEF Way
<1>2. \A x, y \in Nat : x < y => <<x, y>> \in R
  BY DEF OpToRel
<1>3. IsWellFoundedOn(R, Nat)
  BY NatLessThanWellFounded, Zenon
<1> HIDE DEF R
<1>4. \E x \in W : \A y \in W : ~ (<<y, x>> \in R)
  BY <1>1, <1>3, WFMin
<1>5. PICK x \in W : \A y \in W : ~ (y < x)
  BY <1>1, <1>2, <1>4
<1>6. \A y \in W : x <= y
  BY <1>1, <1>5
<1> QED BY <1>6 DEF Least

\* The pointer wraps around.
LEMMA PointerType == \A x \in Nat : x % WAYS \in Way
BY TableAssumption DEF Way

\* slot() returns a way of the key's set: one that holds the key, if any does.
LEMMA SelectedWayType ==
  ASSUME nextWay \in [Set -> Way], NEW key \in Key
  PROVE  /\ SetOf[key] \in Set
         /\ SelectedWay(key) \in Way
         /\ Holding(table, key) # {} => SelectedWay(key) \in Holding(table, key)
<1>1. SetOf[key] \in Set
  BY TableAssumption
<1>2. Holding(table, key) \subseteq Way /\ Free(key) \subseteq Way
  BY DEF Holding, Free
<1>3. nextWay[SetOf[key]] % WAYS \in Way
  <2>1. nextWay[SetOf[key]] \in Nat
    BY <1>1, TableAssumption DEF Way
  <2> QED BY <2>1, PointerType
<1> QED BY <1>1, <1>2, <1>3, LeastWay DEF SelectedWay

\* The entry that is trained: the one that holds the key, or a cleared one.
LEMMA SlotType ==
  ASSUME table \in [Set -> [Way -> Entry]], nextWay \in [Set -> Way], NEW key \in Key
  PROVE  Slot(key) \in Entry
<1> DEFINE c == table[SetOf[key]][SelectedWay(key)]
<1>1. c \in Entry /\ EmptyEntry \in Entry
  BY SelectedWayType, LEmptyEntry
<1>2. MAX_AGE \in 0 .. MAX_AGE
  BY SizeAssumption
<1>3. Slot(key) = IF Holding(table, key) # {} THEN [c EXCEPT !.age = MAX_AGE]
                  ELSE [EmptyEntry EXCEPT !.key = key, !.valid = TRUE, !.age = MAX_AGE]
  BY DEF Slot
<1> HIDE DEF c
<1>4. \A e \in Entry : /\ [e EXCEPT !.age = MAX_AGE] \in Entry
                       /\ [e EXCEPT !.key = key, !.valid = TRUE, !.age = MAX_AGE] \in Entry
  BY <1>2 DEF Entry
<1> QED BY <1>1, <1>3, <1>4

\* The same of the direct-mapped shadow.
LEMMA ShadowSlotType ==
  ASSUME direct \in [Bucket -> Entry], NEW key \in Key
  PROVE  BucketOf[key] \in Bucket /\ ShadowSlot(key) \in Entry
<1> DEFINE c == direct[BucketOf[key]]
<1>1. BucketOf[key] \in Bucket /\ c \in Entry
  BY BucketAssumption
<1>2. MAX_AGE \in 0 .. MAX_AGE /\ \A a \in 0 .. MAX_AGE : a # 0 => a - 1 \in 0 .. MAX_AGE
  BY SizeAssumption
<1>3. ShadowSlot(key) = IF ~c.valid \/ c.key = key \/ c.age = 0
                          THEN [c EXCEPT !.key = key, !.valid = TRUE, !.age = MAX_AGE]
                          ELSE [c EXCEPT !.age = c.age - 1]
  BY DEF ShadowSlot
<1> HIDE DEF c
<1>4. [c EXCEPT !.key = key, !.valid = TRUE, !.age = MAX_AGE] \in Entry
  BY <1>1, <1>2 DEF Entry
<1>5. c.age # 0 => [c EXCEPT !.age = c.age - 1] \in Entry
  BY <1>1, <1>2 DEF Entry
<1> QED BY <1>1, <1>3, <1>4, <1>5

\* The context that is trained is a waiting one, and its outcome is a displacement.
LEMMA HeadType ==
  ASSUME FrontTypeOK, Due, NEW line \in Line
  PROVE  /\ Head(pending).key \in Key
         /\ line - Head(pending).line \in Int
<1>1. pending \in Seq(PendingContext) /\ pending # <<>>
  BY SizeAssumption DEF FrontTypeOK, Due
<1>2. Head(pending) \in PendingContext
  BY <1>1
<1>3. \A x, y \in Line : x - y \in Int
  BY LineAssumption
<1> QED BY <1>2, <1>3 DEF PendingContext

\* Training changes one entry, to an entry.
LEMMA TrainedTableType ==
  ASSUME FrontTypeOK, table \in [Set -> [Way -> Entry]], nextWay \in [Set -> Way],
         NEW line \in Line
  PROVE  TrainedTable(line) \in [Set -> [Way -> Entry]]
<1>1. CASE ~Due
  BY <1>1 DEF TrainedTable
<1>2. CASE Due
  <2> DEFINE p == Head(pending)
             new == Learn(Slot(p.key), p.key, line - p.line)
             s == SetOf[p.key]
             w == SelectedWay(p.key)
  <2>1. p.key \in Key /\ line - p.line \in Int
    BY <1>2, HeadType
  <2>2. new \in Entry /\ s \in Set /\ w \in Way
    BY <2>1, SlotType, LearnType, SelectedWayType
  <2>3. TrainedTable(line) = [table EXCEPT ![s][w] = new]
    BY <1>2 DEF TrainedTable
  <2> HIDE DEF p, new, s, w
  <2> QED BY <2>2, <2>3
<1> QED BY <1>1, <1>2

\* A pointer that moves on still names a way.
LEMMA TrainedPointerType ==
  ASSUME FrontTypeOK, nextWay \in [Set -> Way], NEW line \in Line
  PROVE  TrainedPointer \in [Set -> Way]
<1>1. CASE ~(Due /\ Replaces(Head(pending).key))
  BY <1>1 DEF TrainedPointer
<1>2. CASE Due /\ Replaces(Head(pending).key)
  <2> DEFINE key == Head(pending).key
             s == SetOf[key]
             x == (SelectedWay(key) + 1) % WAYS
  <2>1. key \in Key
    BY <1>2, HeadType
  <2>2. s \in Set /\ SelectedWay(key) + 1 \in Nat
    BY <2>1, SelectedWayType, TableAssumption DEF Way
  <2>3. x \in Way
    BY <2>2, PointerType
  <2>4. TrainedPointer = [nextWay EXCEPT ![s] = x]
    BY <1>2 DEF TrainedPointer
  <2> HIDE DEF key, s, x
  <2> QED BY <2>2, <2>3, <2>4
<1> QED BY <1>1, <1>2

\* Training the shadow leaves a direct-mapped table of entries.
LEMMA TrainedDirectType ==
  ASSUME FrontTypeOK, direct \in [Bucket -> Entry], NEW line \in Line
  PROVE  TrainedDirect(line) \in [Bucket -> Entry]
<1>1. CASE ~Due
  BY <1>1 DEF TrainedDirect
<1>2. CASE Due
  <2> DEFINE p == Head(pending)
             new == Learn(ShadowSlot(p.key), p.key, line - p.line)
             b == BucketOf[p.key]
  <2>1. p.key \in Key /\ line - p.line \in Int
    BY <1>2, HeadType
  <2>2. new \in Entry /\ b \in Bucket
    BY <2>1, ShadowSlotType, LearnType
  <2>3. TrainedDirect(line) = [direct EXCEPT ![b] = new]
    BY <1>2 DEF TrainedDirect
  <2> HIDE DEF p, new, b
  <2> QED BY <2>2, <2>3
<1> QED BY <1>1, <1>2

\* The way a look-up finds holds the key that was looked up.
LEMMA LookedType ==
  ASSUME FrontTypeOK, HistoryAligned, table \in [Set -> [Way -> Entry]],
         nextWay \in [Set -> Way], NEW line \in Line
  PROVE  LET key == FormedKey(line)
             w == Least(Holding(TrainedTable(line), key))
         IN  /\ Looked(line) \in Entry
             /\ Looked(line).valid =>
                  /\ key \in Key /\ SetOf[key] \in Set /\ w \in Way
                  /\ Looked(line) = TrainedTable(line)[SetOf[key]][w]
<1> DEFINE key == FormedKey(line)
           T == TrainedTable(line)
           found == Holding(T, key)
           w == Least(found)
<1>1. T \in [Set -> [Way -> Entry]]
  BY TrainedTableType
<1>2. Looked(line) = IF Formed(line) /\ found # {} THEN T[SetOf[key]][w] ELSE EmptyEntry
  BY DEF Looked
<1>3. Formed(line) => key \in Key /\ SetOf[key] \in Set
  BY FormedContext, TableAssumption
<1>4. found # {} => w \in Way
  <2>1. found \subseteq Way
    BY DEF Holding
  <2> QED BY <2>1, LeastWay
<1>5. ~EmptyEntry.valid /\ EmptyEntry \in Entry
  BY LEmptyEntry DEF EmptyEntry
<1> HIDE DEF key, T, w
<1> QED BY <1>1, <1>2, <1>3, <1>4, <1>5 DEF key, T, w

\* Training leaves sets of ways, each with an entry.
LEMMA TrainedSlotsType ==
  ASSUME FrontTypeOK, slots \in SlotsType, nextWay \in [Set -> Way], NEW line \in Line
  PROVE  TrainedSlots \in SlotsType
<1>1. CASE ~Due
  BY <1>1 DEF TrainedSlots
<1>2. CASE Due
  <2> DEFINE key == Head(pending).key
             s == SetOf[key]
             w == SelectedWay(key)
             i == slots.empty_way + Tick(Holding(table, key) = {} /\ Free(key) # {})
             v == slots.conflict + Tick(Replaces(key))
             u == slots.reused_before + Tick(Replaces(key) /\ slots.reuses[s][w] > 0)
  <2>1. s \in Set /\ w \in Way
    BY <1>2, HeadType, SelectedWayType
  <2>2. \A c : Tick(c) \in Nat
    BY DEF Tick
  <2>3. i \in Nat /\ v \in Nat /\ u \in Nat
    <3>1. slots.empty_way \in Nat /\ slots.conflict \in Nat /\ slots.reused_before \in Nat
      BY DEF SlotsType
    <3> HIDE DEF key, s, w
    <3> QED BY <2>2, <3>1
  <2>4. TrainedSlots = [slots EXCEPT !.empty_way = i, !.conflict = v, !.reused_before = u,
                                     !.reuses[s][w] = 0]
    BY <1>2 DEF TrainedSlots
  <2> HIDE DEF i, v, u, s, w
  <2> QED BY <2>1, <2>3, <2>4 DEF SlotsType
<1> QED BY <1>1, <1>2

\* Counting a look-up or a training leaves counters.
LEMMA CountedSlotsType ==
  ASSUME Inv, NEW line \in Line
  PROVE  CountedSlots(line) \in SlotsType
<1> DEFINE key == FormedKey(line)
           d == TrainedDirect(line)[BucketOf[key]]
           w == Least(Holding(TrainedTable(line), key))
           s == SetOf[key]
           S == TrainedSlots
           a == S.alias_equivalent + Tick(d.valid /\ d.key # key)
           r == S.reuses[s][w] + 2
<1>1. /\ FrontTypeOK /\ HistoryAligned /\ slots \in SlotsType
      /\ table \in [Set -> [Way -> Entry]] /\ nextWay \in [Set -> Way]
  BY DEF Inv, FrontInv, TableTypeOK
<1>2. S \in SlotsType
  BY <1>1, TrainedSlotsType
<1>3. CASE ~ContextHit(line, Looked(line))
  BY <1>2, <1>3 DEF CountedSlots
<1>4. CASE ContextHit(line, Looked(line))
  <2>1. s \in Set /\ w \in Way
    BY <1>1, <1>4, LookedType DEF ContextHit
  <2>2. CountedSlots(line) = [S EXCEPT !.reuses[s][w] = r, !.alias_equivalent = a]
    BY <1>4 DEF CountedSlots
  <2>3. \A c : Tick(c) \in Nat
    BY DEF Tick
  <2> HIDE DEF S, s, w, d
  <2>4. a \in Nat /\ r \in Nat
    BY <1>2, <2>1, <2>3 DEF SlotsType
  <2> HIDE DEF a, r
  <2> DEFINE R == [S.reuses EXCEPT ![s][w] = r]
  <2>5. R \in [Set -> [Way -> Nat]]
    BY <1>2, <2>1, <2>4 DEF SlotsType
  <2>6. CountedSlots(line) = [S EXCEPT !.reuses = R, !.alias_equivalent = a]
    BY <2>2
  <2> HIDE DEF R
  <2> QED BY <1>2, <2>4, <2>5, <2>6 DEF SlotsType
<1> QED BY <1>3, <1>4

\* A qualifying access keeps the queue aligned and everything in its type.
LEMMA AccessInv ==
  ASSUME Inv, NEW line \in Line, NEW useful \in BOOLEAN, NEW accepted \in BOOLEAN,
         Access(line, useful, accepted)
  PROVE  Inv'
<1>1. /\ FrontInv /\ FrontTypeOK /\ HistoryAligned /\ direct \in [Bucket -> Entry]
      /\ table \in [Set -> [Way -> Entry]] /\ nextWay \in [Set -> Way]
  BY DEF Inv, FrontInv, TableTypeOK
<1>2. Looked(line) \in Entry
  BY <1>1, LookedType
<1>3. FrontInv'
  BY <1>1, <1>2, FrontAccessInv DEF Access
<1>4. TableTypeOK'
  BY <1>1, TrainedTableType, TrainedPointerType, TrainedDirectType, CountedSlotsType
     DEF Access, TableTypeOK
<1> QED BY <1>3, <1>4 DEF Inv

\* The invariant of queue and types holds initially ...
LEMMA InitInv == Init => Inv
<1> SUFFICES ASSUME Init PROVE Inv
  OBVIOUS
<1>1. FrontInv
  BY FrontInitInv DEF Init
<1>2. table \in [Set -> [Way -> Entry]] /\ direct \in [Bucket -> Entry]
  BY LEmptyEntry DEF Init
<1>3. nextWay \in [Set -> Way]
  BY TableAssumption DEF Init, Way
<1>4. slots \in SlotsType
  BY DEF Init, SlotsType
<1> QED BY <1>1, <1>2, <1>3, <1>4 DEF Inv, TableTypeOK

\* ... and every callback preserves it ...
LEMMA StepInv == Inv /\ [Next]_vars => Inv'
<1> SUFFICES ASSUME Inv, [Next]_vars PROVE Inv'
  OBVIOUS
<1>1. ASSUME NEW line \in Line, NEW useful \in BOOLEAN, NEW accepted \in BOOLEAN,
             Access(line, useful, accepted)
      PROVE  Inv'
  BY <1>1, AccessInv
<1>2. CASE (PrefetchAccess \/ CacheFill \/ FinalStats)
           /\ UNCHANGED <<table, nextWay, direct, slots>>
  <2>1. FrontInv'
    BY <1>2, FrontOtherInv DEF Inv
  <2>2. TableTypeOK'
    BY <1>2 DEF Inv, TableTypeOK
  <2> QED BY <2>1, <2>2 DEF Inv
<1>3. CASE UNCHANGED vars
  <2>1. UNCHANGED frontVars /\ UNCHANGED <<table, nextWay, direct, slots>>
    BY <1>3 DEF vars, frontVars
  <2>2. FrontInv'
    BY <2>1, FrontStepInv DEF Inv
  <2>3. TableTypeOK'
    BY <2>1 DEF Inv, TableTypeOK
  <2> QED BY <2>2, <2>3 DEF Inv
<1> QED BY <1>1, <1>2, <1>3 DEF Next

\* ... so it holds always.
LEMMA Invariance == Spec => []Inv
<1> QED BY InitInv, StepInv, PTL DEF Spec

\* Type correctness: the pointer names a way, whatever the number of ways.
THEOREM TypeCorrect == Spec => []TypeOK
<1>1. Inv => TypeOK
  BY DEF Inv, FrontInv, TableTypeOK, TypeOK, SlotsType
<1> QED BY <1>1, Invariance, PTL

\* The queue in front of the ways is aligned with the stream, as in wam_h16.
THEOREM QueueAligned == Spec => []PendingAligned
<1>1. Inv => PendingAligned
  BY DEF Inv, FrontInv
<1> QED BY <1>1, Invariance, PTL

----------------------------------------------------------------------------
(* What the table means.                                                   *)

TableInv == LookupUnambiguous /\ ConfidenceSupported

\* The trained entry: it belongs to the trained context, and it either starts
\* over on the delta just seen, or weakens or confirms what a matching way held.
LEMMA TrainedEntry ==
  ASSUME Inv, NEW key \in Key, NEW d \in Int
  PROVE  LET c == table[SetOf[key]][SelectedWay(key)]
             new == Learn(Slot(key), key, d)
         IN  /\ new.key = key
             /\ new.valid
             /\ new.confidence \in Nat
             /\ \/ new.delta = d /\ new.confidence <= 1
                \/ /\ c.valid /\ c.key = key /\ new.delta = c.delta
                   /\ \/ new.confidence <= c.confidence
                      \/ c.delta = d /\ new.confidence <= c.confidence + 1
<1> DEFINE c == table[SetOf[key]][SelectedWay(key)]
           s == Slot(key)
           new == Learn(Slot(key), key, d)
           resident == Holding(table, key) # {}
<1>1. table \in [Set -> [Way -> Entry]] /\ nextWay \in [Set -> Way]
  BY DEF Inv, TableTypeOK
<1>2. c \in Entry /\ s \in Entry /\ new \in Entry
  <2>1. s \in Entry
    BY <1>1, SlotType
  <2> QED BY <1>1, <2>1, SelectedWayType, LearnType
<1>3. resident => c.valid /\ c.key = key
  <2>1. resident => SelectedWay(key) \in Holding(table, key)
    BY <1>1, SelectedWayType
  <2> QED BY <2>1 DEF Holding
<1>4. s = IF resident THEN [c EXCEPT !.age = MAX_AGE]
          ELSE [EmptyEntry EXCEPT !.key = key, !.valid = TRUE, !.age = MAX_AGE]
  BY DEF Slot
<1> HIDE DEF c, resident
<1>5. CASE resident
  <2>1. s.key = key /\ s.delta = c.delta /\ s.confidence = c.confidence /\ s.valid = c.valid
    <3>1. \A e \in Entry : LET f == [e EXCEPT !.age = MAX_AGE]
                           IN  /\ f.key = e.key /\ f.delta = e.delta
                               /\ f.confidence = e.confidence /\ f.valid = e.valid
      BY DEF Entry
    <3>2. c \in Entry /\ s = [c EXCEPT !.age = MAX_AGE]
      BY <1>2, <1>4, <1>5
    <3> QED BY <1>3, <1>5, <3>1, <3>2
  <2>2. c.confidence \in Nat /\ c.delta \in Int /\ new.confidence \in Nat
    <3> HIDE DEF s, new
    <3> QED BY <1>2, SizeAssumption DEF Entry
  <2>3. /\ new.key = key
        /\ new.valid = IF c.delta = d \/ c.confidence > 0 THEN c.valid ELSE TRUE
        /\ new.delta = IF c.delta # d /\ c.confidence > 0 THEN c.delta ELSE d
        /\ new.confidence = IF c.delta = d /\ c.confidence = CONFIDENCE_MAX THEN CONFIDENCE_MAX
                            ELSE IF c.delta = d THEN c.confidence + 1
                            ELSE IF c.confidence > 0 THEN c.confidence - 1
                            ELSE 1
    <3> HIDE DEF s
    <3> QED BY <2>1 DEF Learn, s
  <2> HIDE DEF s, new
  <2>4. new.valid
    BY <1>3, <1>5, <2>3
  <2>5. CASE c.delta = d
    <3>1. new.delta = c.delta /\ new.confidence <= c.confidence + 1
      BY <2>2, <2>3, <2>5, SizeAssumption
    <3> QED BY <1>3, <1>5, <2>2, <2>3, <2>4, <2>5, <3>1 DEF c, new
  <2>6. CASE c.delta # d /\ c.confidence > 0
    <3>1. new.delta = c.delta /\ new.confidence <= c.confidence
      BY <2>2, <2>3, <2>6
    <3> QED BY <1>3, <1>5, <2>2, <2>3, <2>4, <3>1 DEF c, new
  <2>7. CASE c.delta # d /\ ~(c.confidence > 0)
    <3>1. new.delta = d /\ new.confidence <= 1
      BY <2>3, <2>7
    <3> QED BY <2>2, <2>3, <2>4, <3>1 DEF c, new
  <2> QED BY <2>5, <2>6, <2>7
<1>6. CASE ~resident
  <2>1. s.key = key /\ s.confidence = 0 /\ s.valid = TRUE
    BY <1>4, <1>6 DEF EmptyEntry
  <2>2. new.confidence \in Nat
    <3> HIDE DEF s, new
    <3> QED BY <1>2, SizeAssumption DEF Entry
  <2>3. new.key = key /\ new.valid /\ new.delta = d /\ new.confidence <= 1
    <3> HIDE DEF s
    <3> QED BY <2>1, SizeAssumption DEF Learn, s
  <2> QED BY <2>2, <2>3 DEF c, new
<1> QED BY <1>5, <1>6

\* An entry that is not trained stays supported while the stream grows.
LEMMA UntrainedSupported ==
  ASSUME NEW s \in Seq(Line), NEW line \in Line, NEW e \in Entry, Backed(e, s)
  PROVE  Backed(e, Append(s, line))
<1>1. /\ Cardinality(Evidence(s, e.key, e.delta)) \in Nat
      /\ Cardinality(Evidence(Append(s, line), e.key, e.delta)) \in Nat
      /\ Cardinality(Evidence(s, e.key, e.delta))
           <= Cardinality(Evidence(Append(s, line), e.key, e.delta))
  <2>1. Append(s, line) \in Seq(Line)
    OBVIOUS
  <2> QED BY <2>1, EvidenceFinite, EvidenceGrows
<1>2. e.confidence \in Nat
  BY SizeAssumption DEF Entry
<1> QED BY <1>1, <1>2 DEF Backed

\* Evidence that grew by one covers a confidence that grew by one.
LEMMA TrainedSupported ==
  ASSUME Inv, ConfidenceSupported, NEW line \in Line, Due
  PROVE  LET p == Head(pending)
         IN  Backed(Learn(Slot(p.key), p.key, line - p.line), Append(events, line))
<1> DEFINE p == Head(pending)
           key == p.key
           d == line - p.line
           c == table[SetOf[key]][SelectedWay(key)]
           new == Learn(Slot(key), key, d)
           t == Append(events, line)
           Card(s, x) == Cardinality(Evidence(s, key, x))
<1>1. /\ FrontInv /\ FrontTypeOK /\ events \in Seq(Line) /\ t \in Seq(Line)
      /\ table \in [Set -> [Way -> Entry]] /\ nextWay \in [Set -> Way]
  BY DEF Inv, FrontInv, FrontTypeOK, TableTypeOK
<1>2. key \in Key /\ d \in Int
  BY <1>1, HeadType
<1>3. \A x : Card(events, x) \in Nat /\ Card(t, x) \in Nat /\ Card(events, x) <= Card(t, x)
  BY <1>1, EvidenceFinite, EvidenceGrows
<1>4. Card(events, d) + 1 <= Card(t, d)
  BY <1>1, EvidenceTrained
<1>5. SetOf[key] \in Set /\ SelectedWay(key) \in Way
  BY <1>1, <1>2, SelectedWayType
<1>6. c.valid /\ c.key = key => c.confidence <= Card(events, c.delta)
  BY <1>5 DEF ConfidenceSupported
<1>7. c.confidence \in Nat
  <2>1. c \in Entry
    BY <1>1, <1>5
  <2> HIDE DEF c
  <2> QED BY <2>1, SizeAssumption DEF Entry
<1>8. /\ new.key = key
      /\ new.valid
      /\ new.confidence \in Nat
      /\ \/ new.delta = d /\ new.confidence <= 1
         \/ /\ c.valid /\ c.key = key /\ new.delta = c.delta
            /\ \/ new.confidence <= c.confidence
               \/ c.delta = d /\ new.confidence <= c.confidence + 1
  <2> HIDE DEF key, d
  <2> QED BY <1>2, TrainedEntry DEF key
<1>9. new.confidence <= Card(t, new.delta)
  <2> HIDE DEF c, new, Card, d, key
  <2> QED BY <1>3, <1>4, <1>6, <1>7, <1>8
<1> HIDE DEF new, d, key, t
<1>10. Backed(new, t)
  BY <1>8, <1>9 DEF Backed
<1> QED BY <1>10 DEF new, d, key, t

\* Whatever an access trains, every entry is supported afterwards.
LEMMA TrainedMeaning ==
  ASSUME Inv, ConfidenceSupported, NEW line \in Line, NEW s \in Set, NEW w \in Way
  PROVE  Backed(TrainedTable(line)[s][w], Append(events, line))
<1> DEFINE p == Head(pending)
           new == Learn(Slot(p.key), p.key, line - p.line)
<1>1. /\ table \in [Set -> [Way -> Entry]] /\ nextWay \in [Set -> Way]
      /\ FrontTypeOK /\ events \in Seq(Line) /\ table[s][w] \in Entry
  BY DEF Inv, FrontInv, FrontTypeOK, TableTypeOK
<1>2. Backed(table[s][w], Append(events, line))
  <2>1. Backed(table[s][w], events)
    BY DEF ConfidenceSupported, Backed
  <2> QED BY <1>1, <2>1, UntrainedSupported
<1>3. CASE ~Due
  BY <1>2, <1>3 DEF TrainedTable
<1>4. CASE Due
  <2>1. p.key \in Key
    BY <1>1, <1>4, HeadType
  <2>2. SetOf[p.key] \in Set /\ SelectedWay(p.key) \in Way
    BY <1>1, <2>1, SelectedWayType
  <2>3. TrainedTable(line) = [table EXCEPT ![SetOf[p.key]][SelectedWay(p.key)] = new]
    BY <1>4 DEF TrainedTable
  <2>4. Backed(new, Append(events, line))
    BY <1>4, TrainedSupported
  <2> HIDE DEF p, new
  <2>5. TrainedTable(line)[s][w] \in {table[s][w], new}
    BY <1>1, <2>2, <2>3
  <2> QED BY <1>2, <2>4, <2>5
<1> QED BY <1>3, <1>4

\* An install goes to a way of the key's own set, and only when no way of it
\* holds the key: the trained table is unambiguous if the table was.
LEMMA TrainedUnambiguous ==
  ASSUME Inv, LookupUnambiguous, NEW line \in Line, Due,
         NEW s \in Set, NEW v \in Way, NEW w \in Way,
         TrainedTable(line)[s][v].valid, TrainedTable(line)[s][w].valid
  PROVE  /\ SetOf[TrainedTable(line)[s][v].key] = s
         /\ TrainedTable(line)[s][v].key = TrainedTable(line)[s][w].key => v = w
<1> DEFINE p == Head(pending)
           key == p.key
           d == line - p.line
           new == Learn(Slot(key), key, d)
           x == SelectedWay(key)
           T == TrainedTable(line)
<1>1. table \in [Set -> [Way -> Entry]] /\ nextWay \in [Set -> Way] /\ FrontTypeOK
  BY DEF Inv, FrontInv, TableTypeOK
<1>2. key \in Key /\ d \in Int
  BY <1>1, HeadType
<1>3. /\ SetOf[key] \in Set /\ x \in Way
      /\ Holding(table, key) # {} => x \in Holding(table, key)
  BY <1>1, <1>2, SelectedWayType
<1>4. new.key = key
  <2> HIDE DEF key, d
  <2> QED BY <1>2, TrainedEntry
<1>5. T = [table EXCEPT ![SetOf[key]][x] = new]
  BY DEF TrainedTable
<1>6. \A u \in Way : T[s][u] = IF s = SetOf[key] /\ u = x THEN new ELSE table[s][u]
  <2> HIDE DEF key, new, x, T
  <2> QED BY <1>1, <1>3, <1>5
<1>7. ASSUME NEW u \in Way, s = SetOf[key], table[s][u].valid, table[s][u].key = key
      PROVE  u = x
  <2>1. u \in Holding(table, key)
    BY <1>7 DEF Holding
  <2>2. x \in Way /\ table[s][x].valid /\ table[s][x].key = key
    BY <1>3, <1>7, <2>1 DEF Holding
  <2> QED BY <1>7, <2>2 DEF LookupUnambiguous
<1>8. \A u, y \in Way : table[s][u].valid /\ table[s][y].valid =>
        SetOf[table[s][u].key] = s /\ (table[s][u].key = table[s][y].key => u = y)
  BY DEF LookupUnambiguous
<1> HIDE DEF key, new, x, T
<1>9. T[s][v].valid /\ T[s][w].valid
  BY DEF T
<1>10. SetOf[T[s][v].key] = s
  BY <1>4, <1>6, <1>8, <1>9
<1>11. ASSUME T[s][v].key = T[s][w].key PROVE v = w
  <2>1. CASE s = SetOf[key] /\ v = x
    BY <1>4, <1>6, <1>7, <1>9, <1>11, <2>1
  <2>2. CASE s = SetOf[key] /\ w = x
    BY <1>4, <1>6, <1>7, <1>9, <1>11, <2>2
  <2>3. CASE ~(s = SetOf[key] /\ v = x) /\ ~(s = SetOf[key] /\ w = x)
    BY <1>6, <1>8, <1>9, <1>11, <2>3
  <2> QED BY <2>1, <2>2, <2>3
<1> QED BY <1>10, <1>11 DEF T

\* The invariant of the table holds initially ...
LEMMA TableInitInv == Init => TableInv
<1> SUFFICES ASSUME Init PROVE TableInv
  OBVIOUS
<1>1. \A s \in Set, w \in Way : ~table[s][w].valid
  BY DEF Init, EmptyEntry
<1> QED BY <1>1 DEF TableInv, LookupUnambiguous, ConfidenceSupported

\* ... every callback preserves it, where queue and types are right ...
LEMMA TableStepInv == Inv /\ TableInv /\ [Next]_vars => TableInv'
<1> SUFFICES ASSUME Inv, LookupUnambiguous, ConfidenceSupported, [Next]_vars
    PROVE  LookupUnambiguous' /\ ConfidenceSupported'
  BY DEF TableInv
<1>1. ASSUME NEW line \in Line, NEW useful \in BOOLEAN, NEW accepted \in BOOLEAN,
             Access(line, useful, accepted)
      PROVE  LookupUnambiguous' /\ ConfidenceSupported'
  <2>1. table' = TrainedTable(line) /\ events' = Append(events, line)
    BY <1>1 DEF Access, FrontAccess
  <2>2. LookupUnambiguous'
    <3>1. CASE Due
      BY <2>1, <3>1, TrainedUnambiguous DEF LookupUnambiguous
    <3>2. CASE ~Due
      BY <2>1, <3>2 DEF LookupUnambiguous, TrainedTable
    <3> QED BY <3>1, <3>2
  <2>3. ConfidenceSupported'
    BY <2>1, TrainedMeaning DEF ConfidenceSupported, Backed
  <2> QED BY <2>2, <2>3
<1>2. CASE UNCHANGED <<table, events>>
  BY <1>2 DEF LookupUnambiguous, ConfidenceSupported
<1>3. (PrefetchAccess \/ CacheFill \/ FinalStats) /\ UNCHANGED <<table, nextWay, direct, slots>>
        => UNCHANGED <<table, events>>
  BY DEF PrefetchAccess, CacheFill, FinalStats
<1>4. UNCHANGED vars => UNCHANGED <<table, events>>
  BY DEF vars
<1> QED BY <1>1, <1>2, <1>3, <1>4 DEF Next

\* ... so both hold always.
LEMMA TableInvariance == Spec => [](Inv /\ TableInv)
<1>1. Init => Inv /\ TableInv
  BY InitInv, TableInitInv
<1>2. Inv /\ TableInv /\ [Next]_vars => (Inv /\ TableInv)'
  BY StepInv, TableStepInv
<1> QED BY <1>1, <1>2, PTL DEF Spec

\* No two ways of a set hold the same key, and a key sits in its own set only:
\* find_way() may stop at the first match.
THEOREM KeysAreUnique == Spec => []LookupUnambiguous
<1>1. TableInv => LookupUnambiguous
  BY DEF TableInv
<1> QED BY <1>1, TableInvariance, PTL

\* No entry is more confident than the accesses so far justify: a way that is
\* replaced, or trained again after it was, inherits nothing.
THEOREM ConfidenceIsEvidence == Spec => []ConfidenceSupported
<1>1. TableInv => ConfidenceSupported
  BY DEF TableInv
<1> QED BY <1>1, TableInvariance, PTL

----------------------------------------------------------------------------
(* The shadow accounting.                                                  *)

\* Every callback keeps the accounting, where queue and types are right ...
LEMMA ShadowStepInv == Inv /\ ShadowInv /\ [Next]_vars => ShadowInv'
<1> SUFFICES ASSUME Inv, ShadowInv, [Next]_vars PROVE ShadowInv'
  OBVIOUS
<1>1. FrontInv /\ FrontTypeOK'
  BY StepInv DEF Inv, FrontInv
<1>2. ASSUME NEW line \in Line, NEW useful \in BOOLEAN, NEW accepted \in BOOLEAN,
             Access(line, useful, accepted)
      PROVE  ShadowInv'
  <2> DEFINE e == Looked(line)
  <2>1. e \in Entry
    BY <1>1, LookedType DEF Inv, FrontInv, TableTypeOK
  <2>2. FrontAccess(line, useful, accepted, e)
    BY <1>2 DEF Access
  <2> HIDE DEF e
  <2> QED BY <1>1, <2>1, <2>2, ShadowAccess
<1>3. CASE PrefetchAccess \/ CacheFill \/ FinalStats
  BY <1>1, <1>3, ShadowOther
<1>4. CASE UNCHANGED vars
  <2>1. UNCHANGED <<events, log, shadow, counters, final>>
    BY <1>4 DEF vars
  <2> QED BY <1>1, <2>1, ShadowOther
<1> QED BY <1>2, <1>3, <1>4 DEF Next

\* ... so it is exact: every prediction is compared with the one access HORIZON
\* accesses after it, and none is lost or counted twice.
THEOREM ShadowCountsExact == Spec => []ShadowExact
<1>1. Init => Inv /\ ShadowInv
  BY InitInv, ShadowInit DEF Init
<1>2. Inv /\ ShadowInv /\ [Next]_vars => (Inv /\ ShadowInv)'
  BY StepInv, ShadowStepInv
<1>3. Inv /\ ShadowInv => ShadowExact
  BY ShadowInvExact DEF Inv
<1> QED BY <1>1, <1>2, <1>3, PTL DEF Spec

----------------------------------------------------------------------------
(* The shadow of the direct-mapped table.                                  *)

\* The replay has the shadow for its table, whatever it counts.  A valid entry of
\* the shadow is never about to expire: the shadow, unlike the other two copies,
\* would not clear it.
DirectInv ==
  /\ \E reuses \in [Bucket -> Nat], i, v, u \in Nat :
       Replay(events) = Replaying(direct, reuses, i, v, u)
  /\ \A b \in Bucket : direct[b].valid => direct[b].age = MAX_AGE

\* The shadow trains an entry as the analyzer does.
LEMMA ShadowSlotReplayed ==
  ASSUME direct \in [Bucket -> Entry], NEW key \in Key, NEW d \in Int,
         direct[BucketOf[key]].valid => direct[BucketOf[key]].age = MAX_AGE
  PROVE  LET old == direct[BucketOf[key]]
             new == Learn(ShadowSlot(key), key, d)
         IN  /\ ReplayLearnt(ReplayClaimed(old, key), key, d) = new
             /\ new.valid /\ new.age = MAX_AGE
<1> DEFINE old == direct[BucketOf[key]]
           c == ReplayClaimed(old, key)
           new == Learn(ShadowSlot(key), key, d)
<1>1. old \in Entry
  BY BucketAssumption
<1>2. ~ReplayEvicts(old, key)
  BY SizeAssumption DEF ReplayEvicts
<1>3. ShadowSlot(key) = IF ~old.valid \/ old.key = key \/ old.age = 0
                          THEN [old EXCEPT !.key = key, !.valid = TRUE, !.age = MAX_AGE]
                          ELSE [old EXCEPT !.age = old.age - 1]
  BY DEF ShadowSlot
<1>4. c = IF ~old.valid \/ old.key = key
            THEN [old EXCEPT !.key = key, !.age = MAX_AGE, !.valid = TRUE]
            ELSE [old EXCEPT !.age = old.age - 1]
  BY <1>2 DEF ReplayClaimed, ReplayInserts
<1>5. old.valid => old.age # 0
  BY SizeAssumption
<1>6. c = ShadowSlot(key) /\ c.valid
  <2> HIDE DEF old, c
  <2>1. [old EXCEPT !.key = key, !.valid = TRUE, !.age = MAX_AGE]
          = [old EXCEPT !.key = key, !.age = MAX_AGE, !.valid = TRUE]
    BY <1>1 DEF Entry
  <2>2. c = ShadowSlot(key)
    BY <1>3, <1>4, <1>5, <2>1
  <2>3. ASSUME ~old.valid \/ old.key = key PROVE c.valid
    BY <1>1, <1>4, <2>3 DEF Entry
  <2>4. ASSUME old.valid, old.key # key PROVE c.valid
    BY <1>1, <1>4, <2>4 DEF Entry
  <2> QED BY <2>2, <2>3, <2>4
<1>7. c \in Entry
  BY <1>6, ShadowSlotType
<1> HIDE DEF c
<1>8. ReplayLearnt(c, key, d) = Learn(c, key, d)
  BY <1>6, <1>7, ReplayLearns
<1>9. Learn(c, key, d).valid /\ Learn(c, key, d).age = MAX_AGE
  BY <1>6 DEF Learn
<1> QED BY <1>6, <1>8, <1>9 DEF c

\* Every access keeps replay and shadow equal.
LEMMA DirectAccessInv ==
  ASSUME Inv, DirectInv, NEW line \in Line, NEW useful, NEW accepted,
         Access(line, useful, accepted)
  PROVE  DirectInv'
<1> DEFINE p == Head(pending)
           pk == p.key
           b == BucketOf[pk]
           old == direct[b]
           new == Learn(ShadowSlot(pk), pk, line - p.line)
           T == ReplayTable(direct, line)
<1>1. FrontTypeOK /\ HistoryAligned /\ events \in Seq(Line) /\ direct \in [Bucket -> Entry]
  BY DEF Inv, FrontInv, FrontTypeOK, TableTypeOK
<1>2. /\ events' = Append(events, line) /\ pending' = NextPending(line)
      /\ history' = NextHistory(line) /\ direct' = TrainedDirect(line)
  BY DEF Access, FrontAccess
<1>3. Due => pk \in Key /\ b \in Bucket /\ line - p.line \in Int
  BY <1>1, HeadType, BucketAssumption
<1>4. Due => /\ ReplayLearnt(ReplayClaimed(old, pk), pk, line - p.line) = new
             /\ new.valid /\ new.age = MAX_AGE
  <2>1. Due => (old.valid => old.age = MAX_AGE)
    BY <1>3 DEF DirectInv
  <2> HIDE DEF pk, p
  <2> QED BY <1>1, <1>3, <2>1, ShadowSlotReplayed
<1>5. T = IF Due THEN [direct EXCEPT ![b] = new] ELSE direct
  BY <1>4 DEF ReplayTable
<1>6. direct' = T
  BY <1>2, <1>5 DEF TrainedDirect
<1>7. ASSUME NEW x \in Bucket PROVE direct'[x].valid => direct'[x].age = MAX_AGE
  <2>1. direct[x].valid => direct[x].age = MAX_AGE
    BY DEF DirectInv
  <2>2. direct'[x] = direct[x] \/ (Due /\ direct'[x] = new)
    <3> HIDE DEF new, b, T
    <3> QED BY <1>1, <1>5, <1>6
  <2> HIDE DEF new
  <2> QED BY <1>4, <2>1, <2>2
<1>8. PICK reuses \in [Bucket -> Nat], i \in Nat, v \in Nat, u \in Nat :
        Replay(events) = Replaying(direct, reuses, i, v, u)
  BY DEF DirectInv
<1> DEFINE evicts == Due /\ ReplayEvicts(old, pk)
           key == FormedKey(line)
           k == BucketOf[key]
           hit == Formed(line) /\ T[k].valid /\ T[k].key = key
           r1 == IF hit THEN [reuses EXCEPT ![k] = @ + 1] ELSE reuses
           i1 == IF Due /\ ReplayInserts(old, pk) THEN i + 1 ELSE i
           v1 == IF evicts THEN v + 1 ELSE v
           u1 == IF evicts /\ reuses[b] > 0 THEN u + 1 ELSE u
<1>9. ReplayEvent(Replay(events), line) =
        [table |-> T, reuses |-> r1, pending |-> NextPending(line),
         history |-> NextHistory(line), insertions |-> i1, evictions |-> v1, reused |-> u1]
  <2>1. ReplayEvent(Replay(events), line) = Replayed(direct, reuses, i, v, u, line)
    BY <1>8, ReplayAccess
  <2> QED BY <2>1 DEF Replayed
<1>10. r1 \in [Bucket -> Nat] /\ i1 \in Nat /\ v1 \in Nat /\ u1 \in Nat
  <2>1. Formed(line) => k \in Bucket
    BY <1>1, FormedContext, BucketAssumption
  <2>2. r1 \in [Bucket -> Nat]
    <3> HIDE DEF k, T, key
    <3> QED BY <1>8, <2>1
  <2> HIDE DEF evicts, r1
  <2>3. i1 \in Nat /\ v1 \in Nat /\ u1 \in Nat
    BY <1>8
  <2> QED BY <2>2, <2>3
<1>11. Replay(events') = ReplayEvent(Replay(events), line)
  BY <1>1, <1>2, ReplayGrows
<1> HIDE DEF r1, i1, v1, u1, T
<1>12. \E r2 \in [Bucket -> Nat], i2, v2, u2 \in Nat :
         Replay(events') = [table |-> direct', reuses |-> r2, pending |-> pending',
                            history |-> history', insertions |-> i2, evictions |-> v2,
                            reused |-> u2]
  BY <1>2, <1>6, <1>9, <1>10, <1>11
<1> QED BY <1>7, <1>12 DEF DirectInv, Replaying

\* The shadow that the alias counter compares with is the table that the
\* direct-mapped prefetcher would have had on the same accesses.
THEOREM ShadowIsDirect == Spec => []DirectShadowFaithful
<1>1. Init => DirectInv
  <2> SUFFICES ASSUME Init PROVE DirectInv
    OBVIOUS
  <2>1. events = <<>> /\ pending = <<>> /\ history = <<>>
    BY DEF Init, FrontInit
  <2>2. \A b \in Bucket : ~direct[b].valid
    BY DEF Init, EmptyEntry
  <2> DEFINE none == [b \in Bucket |-> 0]
  <2>3. none \in [Bucket -> Nat]
    OBVIOUS
  <2>4. Replaying(direct, none, 0, 0, 0) = ReplayStart
    BY <2>1 DEF Replaying, ReplayStart, Init
  <2> HIDE DEF none
  <2>5. Replay(events) = Replaying(direct, none, 0, 0, 0)
    BY <2>1, <2>4, ReplayOfNothing
  <2> QED BY <2>2, <2>3, <2>5 DEF DirectInv
<1>2. Inv /\ DirectInv /\ [Next]_vars => DirectInv'
  <2> SUFFICES ASSUME Inv, DirectInv, [Next]_vars PROVE DirectInv'
    OBVIOUS
  <2>1. ASSUME NEW line \in Line, NEW useful \in BOOLEAN, NEW accepted \in BOOLEAN,
               Access(line, useful, accepted)
        PROVE  DirectInv'
    BY <2>1, DirectAccessInv
  <2>2. CASE UNCHANGED <<events, pending, history, direct>>
    BY <2>2 DEF DirectInv, Replaying
  <2>3. (PrefetchAccess \/ CacheFill \/ FinalStats) /\ UNCHANGED <<table, nextWay, direct, slots>>
          => UNCHANGED <<events, pending, history, direct>>
    BY DEF PrefetchAccess, CacheFill, FinalStats
  <2>4. UNCHANGED vars => UNCHANGED <<events, pending, history, direct>>
    BY DEF vars
  <2> QED BY <2>1, <2>2, <2>3, <2>4 DEF Next
<1>3. DirectInv => DirectShadowFaithful
  BY DEF DirectInv, DirectShadowFaithful, Replaying
<1>4. Init => Inv
  BY InitInv
<1>5. Inv /\ [Next]_vars => Inv'
  BY StepInv
<1> QED BY <1>1, <1>2, <1>3, <1>4, <1>5, PTL DEF Spec

----------------------------------------------------------------------------
(* SetAssociativeWAM implements CausalPrefetcher.                          *)

\* The entry a look-up finds is no more confident than the stream justifies.
LEMMA LookedBacked ==
  ASSUME Inv, TableInv, NEW line \in Line
  PROVE  FrontInv /\ Looked(line) \in Entry /\ Backed(Looked(line), Append(events, line))
<1> DEFINE e == Looked(line)
           key == FormedKey(line)
           w == Least(Holding(TrainedTable(line), key))
           t == Append(events, line)
<1>1. FrontInv /\ e \in Entry
  BY LookedType DEF Inv, FrontInv, TableTypeOK
<1>2. e.valid => /\ SetOf[key] \in Set /\ w \in Way
                 /\ e = TrainedTable(line)[SetOf[key]][w]
  BY LookedType DEF Inv, FrontInv, TableTypeOK
<1>3. e.valid => Backed(e, t)
  <2> HIDE DEF e, w, key
  <2> QED BY <1>2, TrainedMeaning DEF TableInv, t
<1>4. Backed(e, t)
  <2> HIDE DEF e, t
  <2> QED BY <1>3 DEF Backed
<1> QED BY <1>1, <1>4

\* Initial states map to initial states, steps to steps or stutters: every
\* prediction rests on outcomes that had arrived when it was made.
THEOREM SetAssociativeIsCausal == Spec => ImplementsCausal
<1>1. Init => Causal!Init
  BY DEF Init, FrontInit, Causal!Init, predicted, Generated
<1>2. Inv /\ TableInv /\ [Next]_vars => [Causal!Next]_(Causal!cvars)
  <2> SUFFICES ASSUME Inv, TableInv, [Next]_vars
      PROVE  Causal!Next \/ UNCHANGED Causal!cvars
    OBVIOUS
  <2>1. ASSUME NEW line \in Line, NEW useful \in BOOLEAN, NEW accepted \in BOOLEAN,
               Access(line, useful, accepted)
        PROVE  Causal!Next
    <3> DEFINE e == Looked(line)
    <3>1. FrontInv /\ e \in Entry /\ Backed(e, Append(events, line))
      BY LookedBacked
    <3>2. FrontAccess(line, useful, accepted, e)
      BY <2>1 DEF Access
    <3> HIDE DEF e
    <3>3. Causal!Access(line)
      BY <3>1, <3>2, AccessImplements
    <3> QED BY <3>3 DEF Causal!Next
  <2>2. UNCHANGED <<events, log>> => UNCHANGED Causal!cvars
    BY DEF Causal!cvars, predicted, Generated
  <2>3. PrefetchAccess \/ CacheFill \/ FinalStats => UNCHANGED <<events, log>>
    BY DEF PrefetchAccess, CacheFill, FinalStats
  <2>4. UNCHANGED vars => UNCHANGED <<events, log>>
    BY DEF vars
  <2> QED BY <2>1, <2>2, <2>3, <2>4 DEF Next
<1> QED BY <1>1, <1>2, TableInvariance, PTL DEF Spec, ImplementsCausal, Causal!Spec

----------------------------------------------------------------------------
(* The ways of a set with their pointer are a FIFO of keys.                *)

\* The ways tb of a set are filled from the first one on, and the pointer p stays
\* at the first until all n are.
Filled(tb, p, n) ==
  /\ n \in 0 .. WAYS
  /\ \A w \in Way : tb[w].valid <=> w < n
  /\ n < WAYS => p = 0

\* The keys of a set, the first installed first.
Tags(tb, p) ==
  [i \in 1 .. Cardinality({w \in Way : tb[w].valid}) |-> tb[(p + i - 1) % WAYS].key]

\* The way of the i-th of them.
WayOf(p, i) == IF p + i - 1 < WAYS THEN p + i - 1 ELSE p + i - 1 - WAYS

\* The pointer goes round once at most.
LEMMA WrapIs ==
  ASSUME NEW x \in 0 .. WAYS + WAYS - 1
  PROVE  x % WAYS = IF x < WAYS THEN x ELSE x - WAYS
<1> DEFINE q == x \div WAYS
           r == x % WAYS
<1>1. WAYS \in Nat \ {0}
  BY TableAssumption
<1>2. x = WAYS * q + r /\ q \in Int /\ r \in 0 .. WAYS - 1
  BY <1>1
<1> HIDE DEF q, r
<1>3. q \in {0, 1}
  <2>1. q < 0 => WAYS * q <= -WAYS
    BY <1>1, <1>2
  <2>2. q > 1 => WAYS * q >= WAYS + WAYS
    BY <1>1, <1>2
  <2> QED BY <1>1, <1>2, <2>1, <2>2
<1>4. WAYS * 0 = 0 /\ WAYS * 1 = WAYS
  BY <1>1
<1> QED BY <1>1, <1>2, <1>3, <1>4 DEF r

\* The keys of a filled set, one by one.
LEMMA TagsAre ==
  ASSUME NEW tb \in [Way -> Entry], NEW p \in Way, NEW n, Filled(tb, p, n)
  PROVE  /\ Tags(tb, p) \in Seq(Key) /\ Len(Tags(tb, p)) = n
         /\ \A i \in 1 .. n : /\ WayOf(p, i) \in Way /\ tb[WayOf(p, i)].valid
                              /\ Tags(tb, p)[i] = tb[WayOf(p, i)].key
<1> DEFINE O == {w \in Way : tb[w].valid}
           k == Cardinality(O)
<1>1. WAYS \in Nat \ {0} /\ n \in Nat /\ n <= WAYS /\ Way = 0 .. WAYS - 1
  BY TableAssumption DEF Way, Filled
<1>2. O = 0 .. n - 1
  BY <1>1 DEF Filled
<1>3. k = n
  <2> HIDE DEF O
  <2>1. 0 \in Int /\ n - 1 \in Int
    BY <1>1
  <2>2. Cardinality(0 .. n - 1) = IF 0 > n - 1 THEN 0 ELSE (n - 1) - 0 + 1
    BY <2>1, FS_Interval
  <2>3. Cardinality(O) = IF 0 > n - 1 THEN 0 ELSE (n - 1) - 0 + 1
    BY <1>2, <2>2
  <2> QED BY <1>1, <2>3
<1>4. ASSUME NEW i \in 1 .. n
      PROVE  /\ WayOf(p, i) \in Way /\ tb[WayOf(p, i)].valid
             /\ (p + i - 1) % WAYS = WayOf(p, i)
  <2>1. p \in 0 .. WAYS - 1 /\ p + i - 1 \in 0 .. WAYS + WAYS - 1
    BY <1>1
  <2>2. (p + i - 1) % WAYS = WayOf(p, i)
    <3> DEFINE x == p + i - 1
    <3>1. x \in 0 .. WAYS + WAYS - 1
      BY <2>1
    <3>2. WayOf(p, i) = IF x < WAYS THEN x ELSE x - WAYS
      BY <1>1, <2>1 DEF WayOf
    <3> HIDE DEF x
    <3>3. x % WAYS = WayOf(p, i)
      BY <3>1, <3>2, WrapIs
    <3> QED BY <3>3 DEF x
  <2>3. WayOf(p, i) \in Way
    BY <1>1, <2>1 DEF WayOf
  <2>4. WayOf(p, i) < n
    BY <1>1, <2>1 DEF WayOf, Filled
  <2> QED BY <2>2, <2>3, <2>4 DEF Filled
<1>5. Tags(tb, p) = [i \in 1 .. n |-> tb[(p + i - 1) % WAYS].key]
  BY <1>3 DEF Tags
<1> HIDE DEF O, k
<1>6. \A i \in 1 .. n : tb[(p + i - 1) % WAYS].key = tb[WayOf(p, i)].key
  BY <1>4
<1>7. \A i \in 1 .. n : tb[WayOf(p, i)].key \in Key
  BY <1>4 DEF Entry
<1>8. Tags(tb, p) = [i \in 1 .. n |-> tb[WayOf(p, i)].key]
  BY <1>5, <1>6
<1> QED BY <1>1, <1>4, <1>7, <1>8

\* Sequences of keys are equal when they are so place by place.
LEMMA TagsEqual ==
  ASSUME NEW q \in Seq(Key), NEW r \in Seq(Key), Len(q) = Len(r),
         \A i \in 1 .. Len(q) : q[i] = r[i]
  PROVE  q = r
BY SeqEqual

\* From the ways tb with pointer p to the ways after with pointer next, key was
\* installed as in a FIFO.
Installs(tb, p, key, after, next) ==
  /\ \E n \in 0 .. WAYS : Filled(after, next, n)
  /\ Tags(after, next) = Fifo!Installed(Tags(tb, p), key)

\* A resident key moves nothing.
LEMMA ResidentTrained ==
  ASSUME NEW tb \in [Way -> Entry], NEW p \in Way, NEW n, Filled(tb, p, n), NEW key \in Key,
         NEW w \in Way, tb[w].valid, tb[w].key = key,
         NEW new \in Entry, new.key = key, new.valid
  PROVE  Installs(tb, p, key, [tb EXCEPT ![w] = new], p)
<1> DEFINE after == [tb EXCEPT ![w] = new]
<1>1. after \in [Way -> Entry] /\ \A v \in Way : after[v].valid = tb[v].valid /\ after[v].key = tb[v].key
  <2>1. \A v \in Way : tb[v].valid \in BOOLEAN
    BY DEF Entry
  <2>2. \A v \in Way : after[v] = IF v = w THEN new ELSE tb[v]
    OBVIOUS
  <2>3. new.valid = TRUE /\ tb[w].valid = TRUE
    BY <2>1 DEF Entry
  <2> QED BY <2>2, <2>3
<1> HIDE DEF after
<1>2. Filled(after, p, n)
  BY <1>1 DEF Filled
<1>3. Tags(after, p) = Tags(tb, p)
  <2>1. /\ Tags(tb, p) \in Seq(Key) /\ Len(Tags(tb, p)) = n
        /\ \A i \in 1 .. n : WayOf(p, i) \in Way /\ Tags(tb, p)[i] = tb[WayOf(p, i)].key
    BY TagsAre
  <2>2. /\ Tags(after, p) \in Seq(Key) /\ Len(Tags(after, p)) = n
        /\ \A i \in 1 .. n : Tags(after, p)[i] = after[WayOf(p, i)].key
    BY <1>1, <1>2, TagsAre
  <2> QED BY <1>1, <2>1, <2>2, TagsEqual
<1>4. Fifo!Resident(Tags(tb, p), key)
  <2> DEFINE i == IF w >= p THEN w - p + 1 ELSE w - p + 1 + WAYS
  <2>1. WAYS \in Nat \ {0} /\ n \in Nat /\ n <= WAYS /\ Way = 0 .. WAYS - 1 /\ w < n
        /\ (n < WAYS => p = 0)
    BY TableAssumption DEF Way, Filled
  <2>2. i \in 1 .. n /\ WayOf(p, i) = w
    BY <2>1 DEF WayOf
  <2> HIDE DEF i
  <2>3. Tags(tb, p)[i] = key /\ i \in 1 .. Len(Tags(tb, p)) /\ Tags(tb, p) \in Seq(Key)
    BY <2>2, TagsAre
  <2> QED BY <2>3 DEF Fifo!Resident
<1>5. n \in 0 .. WAYS
  BY DEF Filled
<1> QED BY <1>2, <1>3, <1>4, <1>5 DEF Fifo!Installed, Installs, after

\* A set that is not full takes another key into its next way.
LEMMA FreeTrained ==
  ASSUME NEW tb \in [Way -> Entry], NEW p \in Way, NEW n, Filled(tb, p, n), n < WAYS,
         NEW key \in Key, \A w \in Way : tb[w].valid => tb[w].key # key,
         NEW new \in Entry, new.key = key, new.valid
  PROVE  Installs(tb, p, key, [tb EXCEPT ![n] = new], p)
<1> DEFINE after == [tb EXCEPT ![n] = new]
           q == Tags(tb, p)
<1>1. WAYS \in Nat \ {0} /\ n \in Nat /\ Way = 0 .. WAYS - 1 /\ p = 0 /\ n \in Way
      /\ \A v \in Way : tb[v].valid <=> v < n
  BY TableAssumption DEF Way, Filled
<1>2. after \in [Way -> Entry] /\ \A v \in Way : after[v] = IF v = n THEN new ELSE tb[v]
  BY <1>1
<1> HIDE DEF after
<1>3. Filled(after, p, n + 1)
  <2>1. \A v \in Way : after[v].valid <=> v < n + 1
    BY <1>1, <1>2
  <2> QED BY <1>1, <2>1 DEF Filled
<1>4. /\ q \in Seq(Key) /\ Len(q) = n
      /\ \A i \in 1 .. n : WayOf(p, i) \in Way /\ tb[WayOf(p, i)].valid /\ q[i] = tb[WayOf(p, i)].key
  BY TagsAre
<1>5. /\ Tags(after, p) \in Seq(Key) /\ Len(Tags(after, p)) = n + 1
      /\ \A i \in 1 .. n + 1 : Tags(after, p)[i] = after[WayOf(p, i)].key
  BY <1>2, <1>3, TagsAre
<1>6. \A i \in 1 .. n + 1 : WayOf(p, i) = i - 1
  BY <1>1 DEF WayOf
<1> HIDE DEF q
<1>7. Tags(after, p) = Append(q, key)
  <2>1. /\ Append(q, key) \in Seq(Key) /\ Len(Append(q, key)) = n + 1
        /\ \A i \in 1 .. n + 1 : Append(q, key)[i] = IF i = n + 1 THEN key ELSE q[i]
    BY <1>1, <1>4
  <2>2. \A i \in 1 .. n + 1 : Tags(after, p)[i] = Append(q, key)[i]
    <3> SUFFICES ASSUME NEW i \in 1 .. n + 1 PROVE Tags(after, p)[i] = Append(q, key)[i]
      OBVIOUS
    <3>1. i - 1 \in Way /\ Tags(after, p)[i] = after[i - 1].key
      BY <1>1, <1>5, <1>6
    <3>2. CASE i = n + 1
      BY <1>1, <1>2, <2>1, <3>1, <3>2
    <3>3. CASE i # n + 1
      <4>1. i \in 1 .. n /\ i - 1 # n
        BY <1>1, <3>3
      <4> QED BY <1>2, <1>4, <1>6, <2>1, <3>1, <4>1
    <3> QED BY <3>2, <3>3
  <2> QED BY <1>5, <2>1, <2>2, TagsEqual
<1>8. ~ Fifo!Resident(q, key)
  <2>1. DOMAIN q = 1 .. n
    BY <1>4
  <2> QED BY <1>4, <2>1 DEF Fifo!Resident
<1>9. Fifo!Installed(q, key) = Append(q, key)
  BY <1>4, <1>8 DEF Fifo!Installed
<1>10. n + 1 \in 0 .. WAYS
  BY <1>1
<1> QED BY <1>3, <1>7, <1>9, <1>10 DEF Installs, after, q

\* A full set gives up the key that was installed first.
LEMMA ReplacedTrained ==
  ASSUME NEW tb \in [Way -> Entry], NEW p \in Way, Filled(tb, p, WAYS),
         NEW key \in Key, \A w \in Way : tb[w].valid => tb[w].key # key,
         NEW new \in Entry, new.key = key, new.valid
  PROVE  Installs(tb, p, key, [tb EXCEPT ![p] = new], (p + 1) % WAYS)
<1> DEFINE after == [tb EXCEPT ![p] = new]
           next == (p + 1) % WAYS
           q == Tags(tb, p)
<1>1. WAYS \in Nat \ {0} /\ Way = 0 .. WAYS - 1 /\ p \in 0 .. WAYS - 1
      /\ \A v \in Way : tb[v].valid
  BY TableAssumption DEF Way, Filled
<1>2. after \in [Way -> Entry] /\ \A v \in Way : after[v] = IF v = p THEN new ELSE tb[v]
  OBVIOUS
<1>3. next \in Way /\ next = IF p + 1 < WAYS THEN p + 1 ELSE 0
  <2> DEFINE x == p + 1
  <2>1. x \in 0 .. WAYS + WAYS - 1 /\ (x < WAYS \/ x = WAYS)
    BY <1>1
  <2> HIDE DEF x
  <2>2. x % WAYS = IF x < WAYS THEN x ELSE x - WAYS
    BY <2>1, WrapIs
  <2>3. x % WAYS \in Way /\ x % WAYS = IF x < WAYS THEN x ELSE 0
    BY <1>1, <2>1, <2>2
  <2> QED BY <2>3 DEF x
<1> HIDE DEF after, next
<1>4. Filled(after, next, WAYS)
  <2>1. \A v \in Way : after[v].valid <=> v < WAYS
    BY <1>1, <1>2
  <2> QED BY <1>1, <2>1 DEF Filled
<1>5. /\ q \in Seq(Key) /\ Len(q) = WAYS
      /\ \A i \in 1 .. WAYS : WayOf(p, i) \in Way /\ tb[WayOf(p, i)].valid /\ q[i] = tb[WayOf(p, i)].key
  BY TagsAre
<1>6. /\ Tags(after, next) \in Seq(Key) /\ Len(Tags(after, next)) = WAYS
      /\ \A i \in 1 .. WAYS : WayOf(next, i) \in Way /\ Tags(after, next)[i] = after[WayOf(next, i)].key
  BY <1>2, <1>3, <1>4, TagsAre
<1>7. \A i \in 1 .. WAYS - 1 : WayOf(next, i) = WayOf(p, i + 1) /\ WayOf(next, i) # p
  BY <1>1, <1>3 DEF WayOf
<1>8. WayOf(next, WAYS) = p
  BY <1>1, <1>3 DEF WayOf
<1> HIDE DEF q
<1>9. Tags(after, next) = Append(Tail(q), key)
  <2>1. /\ Tail(q) \in Seq(Key) /\ Len(Tail(q)) = WAYS - 1
        /\ \A i \in 1 .. WAYS - 1 : Tail(q)[i] = q[i + 1]
    BY <1>1, <1>5
  <2>2. /\ Append(Tail(q), key) \in Seq(Key) /\ Len(Append(Tail(q), key)) = WAYS
        /\ \A i \in 1 .. WAYS : Append(Tail(q), key)[i] = IF i = WAYS THEN key ELSE Tail(q)[i]
    BY <1>1, <2>1
  <2>3. \A i \in 1 .. WAYS : Tags(after, next)[i] = Append(Tail(q), key)[i]
    <3> SUFFICES ASSUME NEW i \in 1 .. WAYS
        PROVE  Tags(after, next)[i] = Append(Tail(q), key)[i]
      OBVIOUS
    <3>1. CASE i = WAYS
      BY <1>1, <1>2, <1>6, <1>8, <2>2, <3>1
    <3>2. CASE i # WAYS
      <4>1. i \in 1 .. WAYS - 1 /\ i + 1 \in 1 .. WAYS
        BY <1>1, <3>2
      <4>2. Tags(after, next)[i] = after[WayOf(p, i + 1)].key /\ WayOf(p, i + 1) # p
        BY <1>6, <1>7, <4>1
      <4>3. after[WayOf(p, i + 1)] = tb[WayOf(p, i + 1)] /\ q[i + 1] = tb[WayOf(p, i + 1)].key
        BY <1>2, <1>5, <4>1, <4>2
      <4>4. Append(Tail(q), key)[i] = q[i + 1]
        BY <2>1, <2>2, <3>2, <4>1
      <4> QED BY <4>2, <4>3, <4>4
    <3> QED BY <3>1, <3>2
  <2> QED BY <1>6, <2>2, <2>3, TagsEqual
<1>10. ~ Fifo!Resident(q, key)
  <2>1. DOMAIN q = 1 .. WAYS
    BY <1>5
  <2> QED BY <1>5, <2>1 DEF Fifo!Resident
<1>11. Fifo!Installed(q, key) = Append(Tail(q), key)
  BY <1>1, <1>5, <1>10 DEF Fifo!Installed
<1>12. WAYS \in 0 .. WAYS
  BY <1>1
<1> QED BY <1>4, <1>9, <1>11, <1>12 DEF Installs, after, next, q

\* Every set is filled, its pointer at the oldest of its ways.
FifoInv == \A s \in Set : \E n \in 0 .. WAYS : Filled(table[s], nextWay[s], n)

\* slot() trains a resident key where it is, fills the next way of a set that is
\* not full, and replaces the oldest of one that is.
LEMMA SetTrained ==
  ASSUME Inv, FifoInv, NEW key \in Key, NEW new \in Entry, new.key = key, new.valid
  PROVE  Installs(table[SetOf[key]], nextWay[SetOf[key]], key,
                  [table[SetOf[key]] EXCEPT ![SelectedWay(key)] = new],
                  IF Replaces(key) THEN (SelectedWay(key) + 1) % WAYS
                  ELSE nextWay[SetOf[key]])
<1> DEFINE s == SetOf[key]
           w == SelectedWay(key)
           tb == table[s]
           p == nextWay[s]
           after == [tb EXCEPT ![w] = new]
           next == IF Replaces(key) THEN (w + 1) % WAYS ELSE p
           done == Installs(tb, p, key, after, next)
<1>1. table \in [Set -> [Way -> Entry]] /\ nextWay \in [Set -> Way] /\ s \in Set
  BY TableAssumption DEF Inv, TableTypeOK
<1>2. PICK n \in 0 .. WAYS : Filled(tb, p, n)
  BY <1>1 DEF FifoInv
<1>3. tb \in [Way -> Entry] /\ p \in Way /\ w \in Way
  BY <1>1, SelectedWayType
<1>4. WAYS \in Nat \ {0} /\ Way = 0 .. WAYS - 1
  BY TableAssumption DEF Way
<1>5. Holding(table, key) = {v \in Way : tb[v].valid /\ tb[v].key = key}
  BY DEF Holding
<1>6. Free(key) = {v \in Way : ~tb[v].valid}
  BY DEF Free
<1>7. w = IF Holding(table, key) # {} THEN Least(Holding(table, key))
          ELSE IF Free(key) # {} THEN Least(Free(key)) ELSE p % WAYS
  BY DEF SelectedWay
<1>8. Replaces(key) <=> Holding(table, key) = {} /\ Free(key) = {}
  BY DEF Replaces
<1>9. Holding(table, key) # {} => w \in Holding(table, key)
  BY <1>1, SelectedWayType
<1> HIDE DEF s, w, tb, p
<1>10. ASSUME Holding(table, key) # {} PROVE done
  <2>1. tb[w].valid /\ tb[w].key = key /\ next = p
    BY <1>5, <1>8, <1>9, <1>10
  <2> HIDE DEF next
  <2>2. Installs(tb, p, key, after, p)
    BY <1>2, <1>3, <2>1, ResidentTrained
  <2> QED BY <2>1, <2>2
<1>11. ASSUME Holding(table, key) = {}, Free(key) # {} PROVE done
  <2>1. \A v \in Way : tb[v].valid <=> v < n
    BY <1>2 DEF Filled
  <2>2. w \in Free(key) /\ \A v \in Free(key) : w <= v
    BY <1>6, <1>7, <1>11, LeastWay
  <2>3. n < WAYS
    BY <1>4, <1>6, <2>1, <2>2
  <2>4. w = n
    <3>1. n \in Free(key)
      BY <1>4, <1>6, <2>1, <2>3
    <3> QED BY <1>3, <1>4, <1>6, <2>1, <2>2, <3>1
  <2>5. next = p /\ \A v \in Way : tb[v].valid => tb[v].key # key
    BY <1>5, <1>8, <1>11
  <2> HIDE DEF next
  <2>6. Installs(tb, p, key, after, p)
    BY <1>2, <1>3, <2>3, <2>4, <2>5, FreeTrained
  <2> QED BY <2>5, <2>6
<1>12. ASSUME Holding(table, key) = {}, Free(key) = {} PROVE done
  <2>1. \A v \in Way : v < n
    BY <1>2, <1>6, <1>12 DEF Filled
  <2>2. n = WAYS
    <3>1. WAYS - 1 \in Way
      BY <1>4
    <3> QED BY <1>4, <2>1, <3>1
  <2>3. p % WAYS = p
    <3>1. p \in 0 .. WAYS + WAYS - 1 /\ p < WAYS
      BY <1>3, <1>4
    <3> QED BY <3>1, WrapIs
  <2>4. w = p
    BY <1>7, <1>12, <2>3
  <2>5. next = (p + 1) % WAYS /\ \A v \in Way : tb[v].valid => tb[v].key # key
    BY <1>5, <1>8, <1>12, <2>4
  <2> HIDE DEF next
  <2>6. Installs(tb, p, key, after, (p + 1) % WAYS)
    BY <1>2, <1>3, <2>2, <2>4, <2>5, ReplacedTrained
  <2> QED BY <2>5, <2>6
<1> HIDE DEF done
<1>13. done
  BY <1>10, <1>11, <1>12
<1> QED BY <1>13 DEF done, s, w, tb, p

\* The abstraction maps each set to its keys.
LEMMA TagsOfSets == ResidentTags = [s \in Set |-> Tags(table[s], nextWay[s])]
BY DEF ResidentTags, Occupied, Tags

\* A training is a step of the FIFO of its set.
LEMMA TrainedFifo ==
  ASSUME Inv, FifoInv, NEW line \in Line, Due,
         table' = TrainedTable(line), nextWay' = TrainedPointer
  PROVE  FifoInv' /\ Fifo!Train(Head(pending).key)
<1> DEFINE head == Head(pending)
           key == head.key
           new == Learn(Slot(key), key, line - head.line)
           s == SetOf[key]
           w == SelectedWay(key)
           after == [table[s] EXCEPT ![w] = new]
           next == IF Replaces(key) THEN (w + 1) % WAYS ELSE nextWay[s]
<1>1. table \in [Set -> [Way -> Entry]] /\ nextWay \in [Set -> Way] /\ FrontTypeOK
  BY DEF Inv, FrontInv, TableTypeOK
<1>2. key \in Key /\ line - head.line \in Int
  BY <1>1, HeadType
<1>3. s \in Set /\ w \in Way
  BY <1>1, <1>2, SelectedWayType
<1>4. new \in Entry
  <2>1. Slot(key) \in Entry
    BY <1>1, <1>2, SlotType
  <2> QED BY <1>2, <2>1, LearnType
<1>5. new.key = key /\ new.valid
  <2> HIDE DEF key
  <2>1. \A d \in Int : LET e == Learn(Slot(key), key, d) IN e.key = key /\ e.valid
    BY <1>2, TrainedEntry
  <2> QED BY <1>2, <2>1 DEF key
<1>6. table' = [table EXCEPT ![s][w] = new]
  BY DEF TrainedTable
<1>7. nextWay' = IF Replaces(key) THEN [nextWay EXCEPT ![s] = (w + 1) % WAYS] ELSE nextWay
  BY DEF TrainedPointer
<1>8. Installs(table[s], nextWay[s], key, after, next)
  <2> HIDE DEF new, key
  <2> QED BY <1>2, <1>4, <1>5, SetTrained
<1> HIDE DEF new, key, s, w
<1>9. table'[s] = after /\ nextWay'[s] = next
  BY <1>1, <1>3, <1>6, <1>7
<1>10. \A r \in Set : r # s => table'[r] = table[r] /\ nextWay'[r] = nextWay[r]
  BY <1>1, <1>3, <1>6, <1>7
<1> HIDE DEF after, next
<1>11. FifoInv'
  BY <1>8, <1>9, <1>10 DEF FifoInv, Installs
<1>12. \A r \in Set : Tags(table'[r], nextWay'[r]) =
         IF r = s THEN Fifo!Installed(Tags(table[r], nextWay[r]), key)
         ELSE Tags(table[r], nextWay[r])
  BY <1>8, <1>9, <1>10 DEF Installs
<1>13. ResidentTags' = [r \in Set |-> Tags(table'[r], nextWay'[r])]
  BY DEF ResidentTags, Occupied, Tags
<1>14. ResidentTags' = [ResidentTags EXCEPT ![s] = Fifo!Installed(@, key)]
  BY <1>3, <1>12, <1>13, TagsOfSets
<1> QED BY <1>11, <1>14 DEF Fifo!Train, s, key

\* Empty sets map to empty queues.
LEMMA FifoInit == Init => FifoInv /\ Fifo!Init
<1> SUFFICES ASSUME Init PROVE FifoInv /\ Fifo!Init
  OBVIOUS
<1>1. Inv
  BY InitInv
<1>2. ASSUME NEW s \in Set PROVE Filled(table[s], nextWay[s], 0)
  <2>1. nextWay[s] = 0 /\ \A w \in Way : ~table[s][w].valid
    BY DEF Init, EmptyEntry
  <2>2. \A w \in Way : w >= 0 /\ w \in Nat
    BY TableAssumption DEF Way
  <2> QED BY <2>1, <2>2, TableAssumption DEF Filled
<1>3. FifoInv
  <2>1. 0 \in 0 .. WAYS
    BY TableAssumption
  <2> QED BY <1>2, <2>1 DEF FifoInv
<1>4. ASSUME NEW s \in Set PROVE Tags(table[s], nextWay[s]) = <<>>
  <2>1. table[s] \in [Way -> Entry] /\ nextWay[s] \in Way
    BY <1>1 DEF Inv, TableTypeOK
  <2>2. Tags(table[s], nextWay[s]) \in Seq(Key) /\ Len(Tags(table[s], nextWay[s])) = 0
    BY <1>2, <2>1, TagsAre
  <2> QED BY <2>2
<1>5. Fifo!Init
  BY <1>4, TagsOfSets DEF Fifo!Init
<1> QED BY <1>3, <1>5

\* Every callback is a step of one FIFO, or leaves them all alone.
LEMMA FifoStep == Inv /\ FifoInv /\ [Next]_vars => FifoInv' /\ [Fifo!Next]_ResidentTags
<1> SUFFICES ASSUME Inv, FifoInv, [Next]_vars
    PROVE  FifoInv' /\ (Fifo!Next \/ ResidentTags' = ResidentTags)
  OBVIOUS
<1>1. ASSUME UNCHANGED <<table, nextWay>>
      PROVE  FifoInv' /\ ResidentTags' = ResidentTags
  BY <1>1 DEF FifoInv, ResidentTags, Occupied
<1>2. ASSUME NEW line \in Line, NEW useful \in BOOLEAN, NEW accepted \in BOOLEAN,
             Access(line, useful, accepted)
      PROVE  FifoInv' /\ (Fifo!Next \/ ResidentTags' = ResidentTags)
  <2>1. table' = TrainedTable(line) /\ nextWay' = TrainedPointer
    BY <1>2 DEF Access
  <2>2. CASE Due
    <3>1. FifoInv' /\ Fifo!Train(Head(pending).key)
      BY <2>1, <2>2, TrainedFifo
    <3>2. Head(pending).key \in Key
      BY <2>2, HeadType DEF Inv, FrontInv
    <3> QED BY <3>1, <3>2 DEF Fifo!Next
  <2>3. CASE ~Due
    <3>1. UNCHANGED <<table, nextWay>>
      BY <2>1, <2>3 DEF TrainedTable, TrainedPointer
    <3> QED BY <1>1, <3>1
  <2> QED BY <2>2, <2>3
<1>3. CASE UNCHANGED vars
  <2>1. UNCHANGED <<table, nextWay>>
    BY <1>3 DEF vars
  <2> QED BY <1>1, <2>1
<1> QED BY <1>1, <1>2, <1>3 DEF Next

\* Round-robin replacement keeps, in each set, the last WAYS keys that were
\* installed: a key that is trained again moves nothing, and none is lost before
\* those installed earlier.
THEOREM WaysAreFifo == Spec => ImplementsFifo
<1>1. Init => Inv /\ FifoInv /\ Fifo!Init
  BY InitInv, FifoInit
<1>2. Inv /\ FifoInv /\ [Next]_vars => (Inv /\ FifoInv)' /\ [Fifo!Next]_ResidentTags
  BY StepInv, FifoStep
<1> QED BY <1>1, <1>2, PTL DEF Spec, ImplementsFifo, Fifo!Spec
================================================================================
