--------------------------- MODULE WAMFrontEndProofs ---------------------------
(***************************************************************************)
(* The inductive invariant of the front end, for any table under it.       *)
(*                                                                         *)
(* PendingAligned is not inductive alone: the key a context gets is hashed *)
(* from history, so history must be known to be the tail of the stream.    *)
(***************************************************************************)
EXTENDS WAMFrontEnd, TableReplay, FiniteSetTheorems, WellFoundedInduction, TLAPS

\* h is the last CONTEXT_DEPTH lines of the stream s, or all of it.
Recent(h, s) ==
  /\ Len(h) = IF Len(s) < CONTEXT_DEPTH THEN Len(s) ELSE CONTEXT_DEPTH
  /\ \A j \in 1 .. Len(h) : h[j] = s[Len(s) - Len(h) + j]

HistoryAligned == Recent(history, events)

FrontInv == FrontTypeOK /\ HistoryAligned /\ PendingAligned

\* A default-constructed entry is an entry.
LEMMA LEmptyEntry == EmptyEntry \in Entry
BY KeyAssumption, SizeAssumption DEF EmptyEntry, Entry

\* What train() leaves in a slot is an entry: its confidence stays in range.
LEMMA LearnType ==
  ASSUME NEW c \in Entry, NEW key \in Key, NEW delta \in Int
  PROVE  Learn(c, key, delta) \in Entry
<1> DEFINE agrees == c.key = key /\ c.delta = delta
           decays == c.key = key /\ ~agrees /\ c.confidence > 0
           conf == IF agrees /\ c.confidence = CONFIDENCE_MAX THEN CONFIDENCE_MAX
                   ELSE IF agrees THEN c.confidence + 1
                   ELSE IF decays THEN c.confidence - 1
                   ELSE 1
           d == IF decays THEN c.delta ELSE delta
           v == IF agrees \/ decays THEN c.valid ELSE TRUE
<1>1. conf \in 0 .. CONFIDENCE_MAX
  BY SizeAssumption DEF Entry
<1>2. d \in Int
  BY DEF Entry
<1>3. v \in BOOLEAN
  BY DEF Entry
<1>4. MAX_AGE \in 0 .. MAX_AGE
  BY SizeAssumption
<1>5. Learn(c, key, delta) = [key |-> key, delta |-> d, age |-> MAX_AGE,
                              confidence |-> conf, valid |-> v]
  BY DEF Learn
<1> HIDE DEF conf, d, v
<1> QED BY <1>1, <1>2, <1>3, <1>4, <1>5 DEF Entry

\* Pushing a line: a history that is not full grows, a full one loses its oldest.
LEMMA RememberGrows ==
  ASSUME NEW h \in Seq(Line), NEW line \in Line, Len(h) < CONTEXT_DEPTH
  PROVE  /\ Remember(h, line) \in Seq(Line)
         /\ Len(Remember(h, line)) = Len(h) + 1
         /\ \A j \in 1 .. Len(h) + 1 :
              Remember(h, line)[j] = IF j = Len(h) + 1 THEN line ELSE h[j]
<1> DEFINE a == Append(h, line)
<1>1. /\ a \in Seq(Line)
      /\ Len(a) = Len(h) + 1
      /\ \A j \in 1 .. Len(h) + 1 : a[j] = IF j = Len(h) + 1 THEN line ELSE h[j]
  OBVIOUS
<1>2. Remember(h, line) = a
  BY <1>1, SizeAssumption DEF Remember
<1> QED BY <1>1, <1>2

LEMMA RememberDrops ==
  ASSUME NEW h \in Seq(Line), NEW line \in Line, Len(h) = CONTEXT_DEPTH
  PROVE  /\ Remember(h, line) \in Seq(Line)
         /\ Len(Remember(h, line)) = CONTEXT_DEPTH
         /\ \A j \in 1 .. CONTEXT_DEPTH :
              Remember(h, line)[j] = IF j = CONTEXT_DEPTH THEN line ELSE h[j + 1]
<1> DEFINE a == Append(h, line)
<1>1. /\ a \in Seq(Line)
      /\ Len(a) = CONTEXT_DEPTH + 1
      /\ \A j \in 1 .. CONTEXT_DEPTH + 1 : a[j] = IF j = CONTEXT_DEPTH + 1 THEN line ELSE h[j]
  OBVIOUS
<1>2. Remember(h, line) = Tail(a)
  BY <1>1, SizeAssumption DEF Remember
<1> HIDE DEF a
<1>3. /\ Tail(a) \in Seq(Line)
      /\ Len(Tail(a)) = CONTEXT_DEPTH
      /\ \A j \in 1 .. CONTEXT_DEPTH : Tail(a)[j] = a[j + 1]
  BY <1>1, SizeAssumption
<1>4. \A j \in 1 .. CONTEXT_DEPTH :
        a[j + 1] = IF j = CONTEXT_DEPTH THEN line ELSE h[j + 1]
  BY <1>1, SizeAssumption
<1> QED BY <1>2, <1>3, <1>4

\* Pushing a line on the history and on the stream keeps them aligned.
LEMMA RememberRecent ==
  ASSUME NEW s \in Seq(Line), NEW h \in Seq(Line), NEW line \in Line, Recent(h, s)
  PROVE  /\ Remember(h, line) \in Seq(Line)
         /\ Recent(Remember(h, line), Append(s, line))
<1> USE SizeAssumption
<1> DEFINE r == Remember(h, line)
           t == Append(s, line)
           ls == Len(s)
           lh == Len(h)
<1>0. ls \in Nat /\ lh \in Nat
  OBVIOUS
<1>1. /\ lh = IF ls < CONTEXT_DEPTH THEN ls ELSE CONTEXT_DEPTH
      /\ \A j \in 1 .. lh : h[j] = s[ls - lh + j]
  BY Zenon DEF Recent
<1>2. /\ t \in Seq(Line) /\ Len(t) = ls + 1
      /\ \A i \in 1 .. ls + 1 : t[i] = IF i = ls + 1 THEN line ELSE s[i]
  OBVIOUS
<1>3. lh <= CONTEXT_DEPTH
  BY <1>0, <1>1
<1>4. CASE lh # CONTEXT_DEPTH
  <2>1. /\ r \in Seq(Line) /\ Len(r) = lh + 1
        /\ \A j \in 1 .. lh + 1 : r[j] = IF j = lh + 1 THEN line ELSE h[j]
    BY <1>3, <1>4, RememberGrows
  <2> HIDE DEF r, t, ls, lh
  <2>2. lh = ls
    BY <1>0, <1>1, <1>4
  <2>3. ASSUME NEW j \in 1 .. lh + 1 PROVE r[j] = t[j]
    <3>1. j \in 1 .. lh => h[j] = s[j]
      <4>1. ls - lh + j = j
        BY <1>0, <2>2
      <4> QED BY <1>1, <4>1
    <3>2. j \in 1 .. ls + 1
      BY <2>2
    <3>3. CASE j = lh + 1
      BY <1>2, <2>1, <2>2, <3>2, <3>3
    <3>4. CASE j # lh + 1
      <4>1. j \in 1 .. lh /\ j # ls + 1
        BY <1>0, <2>2, <3>4
      <4>2. r[j] = s[j]
        BY <2>1, <3>1, <3>4, <4>1
      <4>3. t[j] = s[j]
        BY <1>2, <3>2, <4>1
      <4> QED BY <4>2, <4>3
    <3> QED BY <3>3, <3>4
  <2>4. Recent(r, t)
    BY <1>0, <1>1, <1>2, <1>4, <2>1, <2>2, <2>3 DEF Recent
  <2> QED BY <2>1, <2>4 DEF r, t
<1>5. CASE lh = CONTEXT_DEPTH
  <2>1. /\ r \in Seq(Line) /\ Len(r) = CONTEXT_DEPTH
        /\ \A j \in 1 .. CONTEXT_DEPTH : r[j] = IF j = CONTEXT_DEPTH THEN line ELSE h[j + 1]
    BY <1>5, RememberDrops
  <2> HIDE DEF r, t, ls, lh
  <2>2. ls >= CONTEXT_DEPTH
    BY <1>0, <1>1, <1>5
  <2>3. ASSUME NEW j \in 1 .. CONTEXT_DEPTH
        PROVE  r[j] = t[(ls + 1) - CONTEXT_DEPTH + j]
    <3>1. (ls + 1) - CONTEXT_DEPTH + j \in 1 .. ls + 1
      BY <1>0, <2>2
    <3>2. CASE j = CONTEXT_DEPTH
      BY <1>0, <1>2, <2>1, <3>1, <3>2
    <3>3. CASE j # CONTEXT_DEPTH
      <4>1. j + 1 \in 1 .. lh /\ ls - lh + (j + 1) = (ls + 1) - CONTEXT_DEPTH + j
        BY <1>0, <1>5, <3>3
      <4>2. r[j] = s[(ls + 1) - CONTEXT_DEPTH + j]
        BY <1>1, <2>1, <3>3, <4>1
      <4>3. (ls + 1) - CONTEXT_DEPTH + j # ls + 1
        BY <1>0, <3>3
      <4> QED BY <1>2, <3>1, <4>2, <4>3
    <3> QED BY <3>2, <3>3
  <2>4. Recent(r, t)
    BY <1>0, <1>1, <1>2, <1>5, <2>1, <2>2, <2>3 DEF Recent
  <2> QED BY <2>1, <2>4 DEF r, t
<1> QED BY <1>4, <1>5

\* A full aligned history is the context of the stream's last position.
LEMMA FullHistory ==
  ASSUME NEW s \in Seq(Line), NEW h \in Seq(Line), Recent(h, s), Len(h) = CONTEXT_DEPTH
  PROVE  /\ h = ContextAt(s, Len(s))
         /\ ContextHash[h] = KeyAt(s, Len(s))
         /\ ContextHash[h] \in Key
<1>1. h = [j \in 1 .. CONTEXT_DEPTH |-> h[j]] /\ h \in [1 .. CONTEXT_DEPTH -> Line]
  BY SizeAssumption
<1>2. \A j \in 1 .. CONTEXT_DEPTH : h[j] = s[Len(s) - CONTEXT_DEPTH + j]
  BY DEF Recent
<1>3. h = ContextAt(s, Len(s))
  BY <1>1, <1>2 DEF ContextAt
<1> QED BY <1>1, <1>3, KeyAssumption DEF KeyAt

\* The context of a position of the past does not change as the stream grows.
LEMMA KeyAtStable ==
  ASSUME NEW s \in Seq(Line), NEW line \in Line,
         NEW i \in CONTEXT_DEPTH .. Len(s)
  PROVE  KeyAt(Append(s, line), i) = KeyAt(s, i)
<1>1. \A j \in 1 .. CONTEXT_DEPTH :
        /\ i - CONTEXT_DEPTH + j \in 1 .. Len(s)
        /\ Append(s, line)[i - CONTEXT_DEPTH + j] = s[i - CONTEXT_DEPTH + j]
  <2> TAKE j \in 1 .. CONTEXT_DEPTH
  <2>1. i - CONTEXT_DEPTH + j \in 1 .. Len(s)
    BY SizeAssumption
  <2>2. \A k \in 1 .. Len(s) : Append(s, line)[k] = s[k]
    OBVIOUS
  <2> QED BY <2>1, <2>2
<1>2. ContextAt(Append(s, line), i) = ContextAt(s, i)
  BY <1>1 DEF ContextAt
<1> QED BY <1>2 DEF KeyAt

\* Every position of the stream has a key.
LEMMA KeyAtType ==
  ASSUME NEW s \in Seq(Line), NEW i \in CONTEXT_DEPTH .. Len(s)
  PROVE  KeyAt(s, i) \in Key
<1>1. ContextAt(s, i) \in [1 .. CONTEXT_DEPTH -> Line]
  BY SizeAssumption DEF ContextAt
<1> QED BY <1>1, KeyAssumption DEF KeyAt

\* What an access appends to the stream, and the context it forms.
LEMMA FormedContext ==
  ASSUME FrontTypeOK, HistoryAligned, NEW line \in Line
  PROVE  /\ NextHistory(line) \in Seq(Line)
         /\ Recent(NextHistory(line), Append(events, line))
         /\ Append(events, line) \in Seq(Line)
         /\ Len(Append(events, line)) = Len(events) + 1
         /\ Formed(line) <=> Len(events) + 1 >= CONTEXT_DEPTH
         /\ Formed(line) => /\ FormedKey(line) \in Key
                            /\ FormedKey(line) = KeyAt(Append(events, line), Len(events) + 1)
<1>1. events \in Seq(Line) /\ history \in Seq(Line)
  BY DEF FrontTypeOK
<1> DEFINE r == NextHistory(line)
           t == Append(events, line)
<1>2. t \in Seq(Line) /\ Len(t) = Len(events) + 1
  BY <1>1
<1>3. r \in Seq(Line) /\ Recent(r, t)
  BY <1>1, RememberRecent DEF HistoryAligned, NextHistory
<1> HIDE DEF r, t
<1>4. Len(r) = CONTEXT_DEPTH <=> Len(events) + 1 >= CONTEXT_DEPTH
  BY <1>1, <1>2, <1>3, SizeAssumption DEF Recent
<1>5. Len(r) = CONTEXT_DEPTH =>
        ContextHash[r] = KeyAt(t, Len(events) + 1) /\ ContextHash[r] \in Key
  BY <1>2, <1>3, FullHistory
<1> QED BY <1>2, <1>3, <1>4, <1>5 DEF Formed, FormedKey, r, t

----------------------------------------------------------------------------
\* A waiting context stays what it is while the stream grows.
LEMMA WaitingStable ==
  ASSUME NEW s \in Seq(Line), NEW line \in Line, NEW i \in CONTEXT_DEPTH .. Len(s)
  PROVE  Waiting(Append(s, line), i) = Waiting(s, i)
<1>1. Append(s, line)[i] = s[i]
  BY SizeAssumption
<1> QED BY <1>1, KeyAtStable DEF Waiting

\* One access keeps the queue aligned: the oldest context leaves when HORIZON
\* wait, the new one joins once the history is full.
LEMMA QueueStep ==
  ASSUME NEW s \in Seq(Line), NEW q \in Seq(PendingContext), NEW line \in Line,
         Queued(q, s),
         NEW p, Len(s) + 1 >= CONTEXT_DEPTH =>
                  p \in PendingContext /\ p = Waiting(Append(s, line), Len(s) + 1),
         NEW rest, rest = IF Len(q) >= HORIZON THEN Tail(q) ELSE q,
         NEW r, r = IF Len(s) + 1 >= CONTEXT_DEPTH THEN Append(rest, p) ELSE rest
  PROVE  /\ r \in Seq(PendingContext)
         /\ Len(r) <= HORIZON
         /\ Queued(r, Append(s, line))
<1> DEFINE n == Len(s)
           k == Len(q)
           t == Append(s, line)
<1> USE SizeAssumption
<1>1. n \in Nat /\ k \in Nat /\ Len(t) = n + 1 /\ t \in Seq(Line)
  OBVIOUS
<1>2. /\ k = IF n < CONTEXT_DEPTH THEN 0
             ELSE IF n - CONTEXT_DEPTH + 1 < HORIZON THEN n - CONTEXT_DEPTH + 1
             ELSE HORIZON
      /\ \A j \in 1 .. k : q[j] = Waiting(s, n - k + j)
  BY Zenon DEF Queued
<1>3. \A i \in CONTEXT_DEPTH .. n : Waiting(t, i) = Waiting(s, i)
  BY WaitingStable
<1>4. \A j \in 1 .. k : n - k + j \in CONTEXT_DEPTH .. n
  <2> HIDE DEF n, k
  <2> QED BY <1>1, <1>2
<1>5. \A j \in 1 .. k : q[j] = Waiting(t, n - k + j)
  BY <1>2, <1>3, <1>4
<1>6. CASE n + 1 < CONTEXT_DEPTH
  <2>1. k = 0 /\ k < HORIZON
    <3> HIDE DEF n, k
    <3> QED BY <1>1, <1>2, <1>6
  <2>2. r = q /\ Len(r) = 0
    BY <1>1, <1>6, <2>1
  <2> HIDE DEF n, k, t
  <2>3. Queued(q, t)
    <3>1. Len(q) = IF Len(t) < CONTEXT_DEPTH THEN 0
                   ELSE IF Len(t) - CONTEXT_DEPTH + 1 < HORIZON THEN Len(t) - CONTEXT_DEPTH + 1
                   ELSE HORIZON
      BY <1>1, <1>6, <2>2
    <3>2. \A j \in 1 .. Len(q) : q[j] = Waiting(t, Len(t) - Len(q) + j)
      BY <1>1, <1>6, <2>2
    <3> QED BY <3>1, <3>2, Zenon DEF Queued
  <2> QED BY <2>2, <2>3 DEF t
<1>7. CASE n + 1 >= CONTEXT_DEPTH /\ k < HORIZON
  <2>1. r = Append(q, p)
    BY <1>1, <1>7
  <2>2. /\ r \in Seq(PendingContext) /\ Len(r) = k + 1
        /\ \A j \in 1 .. k + 1 : r[j] = IF j = k + 1 THEN p ELSE q[j]
    BY <2>1
  <2> HIDE DEF n, k, t
  <2>3. k + 1 = IF (n + 1) - CONTEXT_DEPTH + 1 < HORIZON THEN (n + 1) - CONTEXT_DEPTH + 1
                ELSE HORIZON
    BY <1>1, <1>2, <1>7
  <2>4. ASSUME NEW j \in 1 .. k + 1
        PROVE  r[j] = Waiting(t, (n + 1) - (k + 1) + j)
    <3>1. (n + 1) - (k + 1) + j = n - k + j
      BY <1>1
    <3>2. CASE j = k + 1
      <4>1. (n + 1) - (k + 1) + j = n + 1
        BY <1>1, <3>2
      <4>2. r[j] = p
        BY <2>2, <3>2
      <4> QED BY <1>7, <4>1, <4>2 DEF t, n
    <3>3. CASE j # k + 1
      <4>1. j \in 1 .. k
        BY <1>1, <3>3
      <4> QED BY <1>5, <2>2, <3>1, <3>3, <4>1
    <3> QED BY <3>2, <3>3
  <2>5. Queued(r, t)
    <3>1. Len(r) = IF Len(t) < CONTEXT_DEPTH THEN 0
                   ELSE IF Len(t) - CONTEXT_DEPTH + 1 < HORIZON THEN Len(t) - CONTEXT_DEPTH + 1
                   ELSE HORIZON
      BY <1>1, <1>7, <2>2, <2>3, <2>4
    <3>2. \A j \in 1 .. Len(r) : r[j] = Waiting(t, Len(t) - Len(r) + j)
      BY <1>1, <1>7, <2>2, <2>3, <2>4
    <3> QED BY <3>1, <3>2, Zenon DEF Queued
  <2> QED BY <1>1, <1>7, <2>2, <2>5 DEF t
<1>8. CASE n + 1 >= CONTEXT_DEPTH /\ k >= HORIZON
  <2>1. k = HORIZON /\ n >= CONTEXT_DEPTH
    <3> HIDE DEF n, k
    <3> QED BY <1>1, <1>2, <1>8
  <2>2. r = Append(Tail(q), p)
    BY <1>1, <1>8
  <2>3. /\ Tail(q) \in Seq(PendingContext) /\ Len(Tail(q)) = k - 1
        /\ \A j \in 1 .. k - 1 : Tail(q)[j] = q[j + 1]
    BY <2>1
  <2>4. /\ r \in Seq(PendingContext) /\ Len(r) = k
        /\ \A j \in 1 .. k : r[j] = IF j = k THEN p ELSE Tail(q)[j]
    BY <2>1, <2>2, <2>3
  <2> HIDE DEF n, k, t
  <2>5. k = IF (n + 1) - CONTEXT_DEPTH + 1 < HORIZON THEN (n + 1) - CONTEXT_DEPTH + 1
            ELSE HORIZON
    BY <1>1, <1>2, <2>1
  <2>6. ASSUME NEW j \in 1 .. k
        PROVE  r[j] = Waiting(t, (n + 1) - k + j)
    <3>1. CASE j = k
      <4>1. (n + 1) - k + j = n + 1
        BY <1>1, <3>1
      <4>2. r[j] = p
        BY <2>4, <3>1
      <4> QED BY <1>8, <4>1, <4>2 DEF t, n
    <3>2. CASE j # k
      <4>1. j \in 1 .. k - 1 /\ j + 1 \in 1 .. k /\ n - k + (j + 1) = (n + 1) - k + j
        BY <1>1, <3>2
      <4>2. r[j] = q[j + 1]
        BY <2>3, <2>4, <3>2, <4>1
      <4>3. q[j + 1] = Waiting(t, n - k + (j + 1))
        BY <1>5, <4>1
      <4> QED BY <4>1, <4>2, <4>3
    <3> QED BY <3>1, <3>2
  <2>7. Queued(r, t)
    <3>1. Len(r) = IF Len(t) < CONTEXT_DEPTH THEN 0
                   ELSE IF Len(t) - CONTEXT_DEPTH + 1 < HORIZON THEN Len(t) - CONTEXT_DEPTH + 1
                   ELSE HORIZON
      BY <1>1, <1>8, <2>4, <2>5, <2>6
    <3>2. \A j \in 1 .. Len(r) : r[j] = Waiting(t, Len(t) - Len(r) + j)
      BY <1>1, <1>8, <2>4, <2>5, <2>6
    <3> QED BY <3>1, <3>2, Zenon DEF Queued
  <2> QED BY <1>1, <2>1, <2>4, <2>7 DEF t
<1>9. n + 1 < CONTEXT_DEPTH \/ n + 1 >= CONTEXT_DEPTH
  BY <1>1
<1>10. k < HORIZON \/ k >= HORIZON
  BY <1>1
<1> QED BY <1>6, <1>7, <1>8, <1>9, <1>10

----------------------------------------------------------------------------
\* Selecting from a queue of shadow predictions keeps it one, and counts stay counts.
LEMMA ResolvedType ==
  ASSUME FrontTypeOK, NEW line \in Line
  PROVE  Resolved(line) \in [pending : Seq(ShadowPrediction), predictions : Nat, correct : Nat]
<1> DEFINE q == shadow.pending
           right == {i \in DueNow : q[i].line = line}
<1>1. q \in Seq(ShadowPrediction) /\ shadow.predictions \in Nat /\ shadow.correct \in Nat
  BY DEF FrontTypeOK
<1>2. IsFiniteSet(1 .. Len(q)) /\ DOMAIN q = 1 .. Len(q)
  <2>1. Len(q) \in Int /\ 1 \in Int /\ DOMAIN q = 1 .. Len(q)
    BY <1>1
  <2> HIDE DEF q
  <2> QED BY <2>1, FS_Interval
<1>3. IsFiniteSet(Ripe) /\ IsFiniteSet(DueNow) /\ IsFiniteSet(right)
  <2>1. Ripe \subseteq 1 .. Len(q) /\ DueNow \subseteq 1 .. Len(q) /\ right \subseteq 1 .. Len(q)
    BY <1>2 DEF Ripe, DueNow
  <2> QED BY <1>2, <2>1, FS_Subset
<1>4. Cardinality(Ripe) \in Nat /\ Cardinality(DueNow) \in Nat /\ Cardinality(right) \in Nat
  BY <1>3, FS_CardinalityType
<1>5. Resolved(line) = [pending |-> SubSeq(q, Cardinality(Ripe) + 1, Len(q)),
                        predictions |-> shadow.predictions + Cardinality(DueNow),
                        correct |-> shadow.correct + Cardinality(right)]
  BY DEF Resolved
<1> HIDE DEF right, q
<1>6. SubSeq(q, Cardinality(Ripe) + 1, Len(q)) \in Seq(ShadowPrediction)
  BY <1>1, <1>4
<1>7. /\ shadow.predictions + Cardinality(DueNow) \in Nat
      /\ shadow.correct + Cardinality(right) \in Nat
  BY <1>1, <1>4
<1> DEFINE left == SubSeq(q, Cardinality(Ripe) + 1, Len(q))
           all == shadow.predictions + Cardinality(DueNow)
           good == shadow.correct + Cardinality(right)
<1>8. Resolved(line) = [pending |-> left, predictions |-> all, correct |-> good]
  BY <1>5
<1>9. left \in Seq(ShadowPrediction) /\ all \in Nat /\ good \in Nat
  BY <1>6, <1>7
<1> HIDE DEF left, all, good
<1> QED BY <1>8, <1>9

\* The front end starts with its invariant.
LEMMA FrontInitInv == FrontInit => FrontInv
<1> SUFFICES ASSUME FrontInit PROVE FrontInv
  OBVIOUS
<1>1. FrontTypeOK
  BY DEF FrontInit, FrontTypeOK, NotYet
<1>2. HistoryAligned
  BY SizeAssumption DEF FrontInit, HistoryAligned, Recent
<1>3. PendingAligned
  BY SizeAssumption DEF FrontInit, PendingAligned, Queued
<1> QED BY <1>1, <1>2, <1>3 DEF FrontInv

\* A qualifying access preserves the invariant, whatever entry the table offers.
LEMMA FrontAccessInv ==
  ASSUME FrontInv, NEW line \in Line, NEW useful \in BOOLEAN, NEW accepted \in BOOLEAN,
         NEW e \in Entry, FrontAccess(line, useful, accepted, e)
  PROVE  FrontInv'
<1> DEFINE n == Len(events)
           t == Append(events, line)
           rest == IF Len(pending) >= HORIZON THEN Tail(pending) ELSE pending
           p == [key |-> FormedKey(line), line |-> line]
<1>1. FrontTypeOK /\ HistoryAligned /\ PendingAligned
  BY DEF FrontInv
<1>2. /\ NextHistory(line) \in Seq(Line)
      /\ Recent(NextHistory(line), t)
      /\ t \in Seq(Line) /\ Len(t) = n + 1
      /\ Formed(line) <=> n + 1 >= CONTEXT_DEPTH
      /\ Formed(line) => FormedKey(line) \in Key /\ FormedKey(line) = KeyAt(t, n + 1)
  BY <1>1, FormedContext
<1>3. Queued(pending, events) /\ counters.leaked_future_updates = 0
  BY <1>1 DEF PendingAligned
<1>4. /\ NextPending(line) \in Seq(PendingContext)
      /\ Len(NextPending(line)) <= HORIZON
      /\ Queued(NextPending(line), t)
  <2>1. NextPending(line) = IF n + 1 >= CONTEXT_DEPTH THEN Append(rest, p) ELSE rest
    BY <1>2 DEF NextPending, Due
  <2>2. events \in Seq(Line) /\ pending \in Seq(PendingContext)
    BY <1>1 DEF FrontTypeOK
  <2>3. ASSUME n + 1 >= CONTEXT_DEPTH
        PROVE  p \in PendingContext /\ p = Waiting(t, n + 1)
    <3>1. p \in PendingContext
      BY <1>2, <2>3 DEF PendingContext
    <3>2. t[n + 1] = line
      BY <2>2
    <3> QED BY <1>2, <2>3, <3>1, <3>2 DEF Waiting
  <2> HIDE DEF rest, p
  <2> QED BY <1>3, <2>1, <2>2, <2>3, QueueStep DEF rest
<1>5. events' = t /\ history' = NextHistory(line) /\ pending' = NextPending(line)
  BY DEF FrontAccess
<1>6. counters' = [predictions |-> counters.predictions + Tick(Predicts(line, e)),
                   issued |-> counters.issued + Tick(accepted),
                   useful |-> counters.useful + Tick(useful),
                   training_updates |-> counters.training_updates + Tick(Due),
                   leaked_future_updates |-> 0]
  <2>1. ~(Len(NextPending(line)) > HORIZON)
    BY <1>4, SizeAssumption
  <2>2. counters.leaked_future_updates +
          Tick(Formed(line) /\ Len(NextPending(line)) > HORIZON) = 0
    BY <1>3, <2>1 DEF Tick
  <2> QED BY <2>2 DEF FrontAccess
<1>7. FrontTypeOK'
  <2>1. events' \in Seq(Line) /\ history' \in Seq(Line) /\ pending' \in Seq(PendingContext)
    BY <1>2, <1>4, <1>5
  <2>2. counters' \in [predictions : Nat, issued : Nat, useful : Nat,
                       training_updates : Nat, leaked_future_updates : Nat]
    <3>1. /\ counters.predictions \in Nat /\ counters.issued \in Nat
          /\ counters.useful \in Nat /\ counters.training_updates \in Nat
      BY <1>1 DEF FrontTypeOK
    <3>2. \A b : Tick(b) \in Nat
      BY DEF Tick
    <3> QED BY <1>6, <3>1, <3>2
  <2>3. PredictedLine(line, e) \in Nat
    <3>1. line \in Nat /\ e.delta \in Int
      BY LineAssumption DEF Entry
    <3> QED BY <3>1 DEF PredictedLine
  <2>4. log' \subseteq LogRecord
    <3>1. [at |-> Len(events) + 1, line |-> PredictedLine(line, e),
           confidence |-> e.confidence, generated |-> Predicts(line, e)] \in LogRecord
      <4>1. e.confidence \in 0 .. CONFIDENCE_MAX /\ Predicts(line, e) \in BOOLEAN
        BY DEF Entry, Predicts
      <4>2. Len(events) + 1 \in Nat
        BY <1>1 DEF FrontTypeOK
      <4> QED BY <2>3, <4>1, <4>2 DEF LogRecord
    <3>2. log \subseteq LogRecord
      BY <1>1 DEF FrontTypeOK
    <3> QED BY <3>1, <3>2 DEF FrontAccess
  <2>5. shadow' \in [pending : Seq(ShadowPrediction), predictions : Nat, correct : Nat]
    <3> DEFINE R == Resolved(line)
               sp == [due |-> Len(events) + 1 + HORIZON, line |-> PredictedLine(line, e)]
    <3>1. R \in [pending : Seq(ShadowPrediction), predictions : Nat, correct : Nat]
      BY <1>1, ResolvedType
    <3>2. sp \in ShadowPrediction
      <4>1. Len(events) + 1 + HORIZON \in Nat
        BY <1>1, SizeAssumption DEF FrontTypeOK
      <4> QED BY <2>3, <4>1 DEF ShadowPrediction
    <3>3. shadow' = [pending |-> Foreseen(line, e, R.pending),
                     predictions |-> R.predictions, correct |-> R.correct]
      BY DEF FrontAccess
    <3>4. Foreseen(line, e, R.pending) = IF Predicts(line, e) THEN Append(R.pending, sp) ELSE R.pending
      BY DEF Foreseen
    <3> HIDE DEF R, sp
    <3>5. Foreseen(line, e, R.pending) \in Seq(ShadowPrediction)
      BY <3>1, <3>2, <3>4
    <3> QED BY <3>1, <3>3, <3>5
  <2>6. fills' \in Nat /\ final' \in [expired : Int, unresolved : Int]
    BY <1>1 DEF FrontTypeOK, FrontAccess
  <2> QED BY <2>1, <2>2, <2>4, <2>5, <2>6 DEF FrontTypeOK
<1>8. HistoryAligned'
  BY <1>2, <1>5 DEF HistoryAligned
<1>9. PendingAligned'
  BY <1>4, <1>5, <1>6 DEF PendingAligned
<1> QED BY <1>7, <1>8, <1>9 DEF FrontInv

\* The callbacks that are not qualifying accesses leave the alignment alone.
LEMMA FrontOtherInv ==
  ASSUME FrontInv, PrefetchAccess \/ CacheFill \/ FinalStats
  PROVE  FrontInv'
<1>1. FrontTypeOK /\ HistoryAligned /\ PendingAligned
  BY DEF FrontInv
<1>2. UNCHANGED <<pending, history, events, log, shadow>>
  BY DEF PrefetchAccess, CacheFill, FinalStats
<1>3. FrontTypeOK' /\ counters'.leaked_future_updates = counters.leaked_future_updates
  <2>1. CASE PrefetchAccess
    <3>1. counters' = [counters EXCEPT !.useful = counters.useful + 1] /\ UNCHANGED <<fills, final>>
      BY <2>1 DEF PrefetchAccess
    <3>2. counters \in [predictions : Nat, issued : Nat, useful : Nat,
                        training_updates : Nat, leaked_future_updates : Nat]
      BY <1>1 DEF FrontTypeOK
    <3>3. counters.useful + 1 \in Nat
      BY <3>2
    <3>4. /\ counters' \in [predictions : Nat, issued : Nat, useful : Nat,
                            training_updates : Nat, leaked_future_updates : Nat]
          /\ counters'.leaked_future_updates = counters.leaked_future_updates
      BY <3>1, <3>2, <3>3
    <3> QED BY <1>1, <1>2, <3>1, <3>4 DEF FrontTypeOK
  <2>2. CASE CacheFill
    BY <1>1, <2>2 DEF CacheFill, FrontTypeOK
  <2>3. CASE FinalStats
    <3>1. Len(pending) \in Nat /\ Len(shadow.pending) \in Nat
      BY <1>1 DEF FrontTypeOK
    <3>2. final' \in [expired : Int, unresolved : Int] /\ UNCHANGED <<fills, counters>>
      BY <2>3, <3>1 DEF FinalStats
    <3> QED BY <1>1, <1>2, <3>2 DEF FrontTypeOK
  <2> QED BY <2>1, <2>2, <2>3
<1>4. HistoryAligned' /\ PendingAligned'
  BY <1>1, <1>2, <1>3 DEF HistoryAligned, PendingAligned
<1> QED BY <1>3, <1>4 DEF FrontInv

\* FrontInv is inductive: every front-end step, and stuttering, keeps it.
LEMMA FrontStepInv == FrontInv /\ [FrontNext]_frontVars => FrontInv'
<1> SUFFICES ASSUME FrontInv, [FrontNext]_frontVars PROVE FrontInv'
  OBVIOUS
<1>1. CASE UNCHANGED frontVars
  BY <1>1 DEF frontVars, FrontInv, FrontTypeOK, HistoryAligned, PendingAligned
<1>2. CASE FrontNext
  BY <1>2, FrontAccessInv, FrontOtherInv DEF FrontNext
<1> QED BY <1>1, <1>2
----------------------------------------------------------------------------
(* What one access adds to the evidence, and what it trains.               *)

\* The oldest waiting context is the one whose outcome is this access.
LEMMA TrainStep ==
  ASSUME FrontInv, NEW line \in Line
  PROVE  LET s == events
             t == Append(events, line)
             i == Len(events) + 1 - HORIZON
         IN  /\ ~Due => Outcomes(t) = Outcomes(s)
             /\ Due => /\ i \in CONTEXT_DEPTH .. Len(s)
                       /\ Outcomes(t) = Outcomes(s) \cup {i}
                       /\ \A j \in Outcomes(s) : j < i
                       /\ Head(pending) = Waiting(t, i)
                       /\ t[i + HORIZON] = line
                       /\ t[i] = s[i]
<1> DEFINE s == events
           t == Append(events, line)
           n == Len(events)
           k == Len(pending)
           i == n + 1 - HORIZON
<1> USE SizeAssumption
<1>1. /\ s \in Seq(Line) /\ pending \in Seq(PendingContext)
      /\ k = IF n < CONTEXT_DEPTH THEN 0
             ELSE IF n - CONTEXT_DEPTH + 1 < HORIZON THEN n - CONTEXT_DEPTH + 1
             ELSE HORIZON
      /\ \A j \in 1 .. k : pending[j] = Waiting(s, n - k + j)
  BY DEF FrontInv, FrontTypeOK, PendingAligned, Queued
<1>2. n \in Nat /\ k \in Nat /\ Len(t) = n + 1 /\ (Due <=> k >= HORIZON)
  BY <1>1 DEF Due
<1>3. Outcomes(t) = CONTEXT_DEPTH .. i /\ Outcomes(s) = CONTEXT_DEPTH .. n - HORIZON
  BY <1>2 DEF Outcomes
<1>4. ASSUME ~Due PROVE Outcomes(t) = Outcomes(s)
  <2> HIDE DEF n, k, t, s
  <2>1. n + 1 - HORIZON < CONTEXT_DEPTH
    BY <1>1, <1>2, <1>4
  <2> QED BY <1>2, <1>3, <2>1
<1>5. ASSUME Due
      PROVE  /\ i \in CONTEXT_DEPTH .. n
             /\ Outcomes(t) = Outcomes(s) \cup {i}
             /\ \A j \in Outcomes(s) : j < i
             /\ Head(pending) = Waiting(t, i)
             /\ t[i + HORIZON] = line
             /\ t[i] = s[i]
  <2>1. k = HORIZON /\ n >= CONTEXT_DEPTH /\ i >= CONTEXT_DEPTH /\ i <= n /\ i \in Int
    <3> HIDE DEF n, k
    <3> QED BY <1>1, <1>2, <1>5
  <2>2. Head(pending) = Waiting(s, i)
    <3>1. Head(pending) = pending[1]
      BY <1>1, <2>1
    <3>2. n - k + 1 = i /\ 1 \in 1 .. k
      <4> HIDE DEF n, k
      <4> QED BY <1>2, <2>1
    <3> HIDE DEF n, k, s
    <3> QED BY <1>1, <3>1, <3>2
  <2>3. Waiting(t, i) = Waiting(s, i)
    BY <1>1, <2>1, WaitingStable
  <2>4. t[i + HORIZON] = line /\ t[i] = s[i]
    BY <1>1, <2>1
  <2> HIDE DEF n, s, t
  <2>5. Outcomes(t) = Outcomes(s) \cup {i} /\ \A j \in Outcomes(s) : j < i
    BY <1>2, <1>3, <2>1
  <2> QED BY <2>1, <2>2, <2>3, <2>4, <2>5
<1> QED BY <1>4, <1>5

\* What the stream has shown of a position stays shown.
LEMMA OutcomeStable ==
  ASSUME NEW s \in Seq(Line), NEW line \in Line, NEW i \in Outcomes(s)
  PROVE  /\ KeyAt(Append(s, line), i) = KeyAt(s, i)
         /\ Append(s, line)[i] = s[i]
         /\ Append(s, line)[i + HORIZON] = s[i + HORIZON]
         /\ i \in Outcomes(Append(s, line))
<1>1. i \in CONTEXT_DEPTH .. Len(s) /\ i + HORIZON \in 1 .. Len(s)
  BY SizeAssumption DEF Outcomes
<1>2. Append(s, line)[i] = s[i] /\ Append(s, line)[i + HORIZON] = s[i + HORIZON]
  BY <1>1, SizeAssumption
<1>3. i \in Outcomes(Append(s, line))
  BY <1>1, SizeAssumption DEF Outcomes
<1> QED BY <1>1, <1>2, <1>3, KeyAtStable

\* Evidence is a finite set of positions: it can be counted.
LEMMA EvidenceFinite ==
  ASSUME NEW s \in Seq(Line), NEW k, NEW d
  PROVE  IsFiniteSet(Evidence(s, k, d)) /\ Cardinality(Evidence(s, k, d)) \in Nat
<1>1. CONTEXT_DEPTH \in Int /\ Len(s) - HORIZON \in Int
  BY SizeAssumption
<1>2. IsFiniteSet(Outcomes(s))
  BY <1>1, FS_Interval DEF Outcomes
<1>3. Evidence(s, k, d) \subseteq Outcomes(s)
  BY DEF Evidence
<1> QED BY <1>2, <1>3, FS_Subset, FS_CardinalityType

\* Evidence never goes away.
LEMMA EvidenceGrows ==
  ASSUME NEW s \in Seq(Line), NEW line \in Line, NEW k, NEW d
  PROVE  /\ Evidence(s, k, d) \subseteq Evidence(Append(s, line), k, d)
         /\ Cardinality(Evidence(s, k, d)) <= Cardinality(Evidence(Append(s, line), k, d))
<1>1. Append(s, line) \in Seq(Line)
  OBVIOUS
<1>2. Evidence(s, k, d) \subseteq Evidence(Append(s, line), k, d)
  BY OutcomeStable DEF Evidence
<1>3. IsFiniteSet(Evidence(Append(s, line), k, d))
  BY <1>1, EvidenceFinite
<1> QED BY <1>2, <1>3, FS_Subset

\* The training of a context adds itself to the evidence for what it saw.
LEMMA EvidenceTrained ==
  ASSUME FrontInv, NEW line \in Line, Due
  PROVE  LET p == Head(pending)
             d == line - p.line
         IN  Cardinality(Evidence(events, p.key, d)) + 1
               <= Cardinality(Evidence(Append(events, line), p.key, d))
<1> DEFINE p == Head(pending)
           d == line - p.line
           t == Append(events, line)
           i == Len(events) + 1 - HORIZON
           old == Evidence(events, p.key, d)
           new == Evidence(t, p.key, d)
<1>1. events \in Seq(Line) /\ t \in Seq(Line)
  BY DEF FrontInv, FrontTypeOK
<1>2. /\ i \in CONTEXT_DEPTH .. Len(events)
      /\ Outcomes(t) = Outcomes(events) \cup {i}
      /\ \A j \in Outcomes(events) : j < i
      /\ p = Waiting(t, i)
      /\ t[i + HORIZON] = line
      /\ t[i] = events[i]
  BY TrainStep
<1>3. p.key = KeyAt(t, i) /\ p.line = t[i]
  BY <1>2 DEF Waiting
<1>4. i \in new /\ i \notin old
  <2>1. i \in Outcomes(t) /\ i \notin Outcomes(events)
    BY <1>2
  <2>2. t[i + HORIZON] - t[i] = d
    BY <1>2, <1>3
  <2> HIDE DEF d, t, p, i
  <2> QED BY <1>3, <2>1, <2>2 DEF Evidence
<1>5. old \subseteq new /\ IsFiniteSet(old) /\ IsFiniteSet(new)
  BY <1>1, EvidenceGrows, EvidenceFinite
<1> HIDE DEF old, new, i
<1>6. Cardinality(old \cup {i}) = Cardinality(old) + 1
  BY <1>4, <1>5, FS_AddElement
<1>7. Cardinality(old \cup {i}) <= Cardinality(new)
  <2>1. old \cup {i} \subseteq new
    BY <1>4, <1>5
  <2> QED BY <1>5, <2>1, FS_Subset
<1> QED BY <1>6, <1>7 DEF old, new

----------------------------------------------------------------------------
(* Over any table whose entries the stream supports, the front end is a    *)
(* causal prefetcher.                                                      *)

\* An entry found by a look-up is no more confident than the stream t justifies.
Backed(e, t) == e.valid => e.confidence <= Cardinality(Evidence(t, e.key, e.delta))

\* CausalPrefetcher speaks of the same evidence.
LEMMA SameEvidence ==
  ASSUME NEW s, NEW k, NEW d, NEW i
  PROVE  /\ Causal!Cardinality(Causal!Evidence(s, k, d)) = Cardinality(Evidence(s, k, d))
         /\ Causal!KeyAt(s, i) = KeyAt(s, i)
<1>1. Causal!KeyAt(s, i) = KeyAt(s, i)
  BY DEF Causal!KeyAt, KeyAt, Causal!ContextAt, ContextAt
<1>2. Causal!Evidence(s, k, d) = Evidence(s, k, d)
  BY DEF Causal!Evidence, Evidence, Causal!Outcomes, Outcomes,
         Causal!KeyAt, KeyAt, Causal!ContextAt, ContextAt
<1>3. \A S : Causal!Cardinality(S) = Cardinality(S)
  BY DEF Causal!Cardinality, Cardinality
<1> QED BY <1>1, <1>2, <1>3

\* A prediction is justified by the accesses that have arrived.
LEMMA PredictionJustified ==
  ASSUME FrontTypeOK, HistoryAligned, NEW line \in Line, NEW e \in Entry,
         Predicts(line, e), Backed(e, Append(events, line))
  PROVE  Causal!Justified(Append(events, line), PredictedLine(line, e))
<1> DEFINE t == Append(events, line)
           k == FormedKey(line)
           target == line + e.delta
<1>1. /\ Formed(line) /\ e.valid /\ e.key = k
      /\ e.confidence >= CONFIDENCE_THRESHOLD /\ e.delta # 0 /\ line + e.delta > 0
  BY DEF Predicts, ContextHit
<1>2. /\ t \in Seq(Line) /\ Len(t) = Len(events) + 1 /\ Len(t) >= CONTEXT_DEPTH
      /\ k \in Key /\ k = KeyAt(t, Len(t))
  BY <1>1, FormedContext
<1>3. e.confidence <= Cardinality(Evidence(t, k, e.delta))
  BY <1>1 DEF Backed
<1>4. PredictedLine(line, e) = target
  BY <1>1 DEF PredictedLine
<1>5. t[Len(t)] = line
  BY <1>2 DEF FrontTypeOK
<1>6. line \in Int /\ e.delta \in Int /\ e.confidence \in Int /\ CONFIDENCE_THRESHOLD \in Int
  BY LineAssumption, SizeAssumption DEF Entry
<1>7. Cardinality(Evidence(t, k, e.delta)) \in Nat
  <2> HIDE DEF k, t
  <2> QED BY <1>2, EvidenceFinite
<1> HIDE DEF t, k
<1>8. target - t[Len(t)] = e.delta /\ target # t[Len(t)] /\ target > 0
  BY <1>1, <1>5, <1>6
<1>9. Cardinality(Evidence(t, KeyAt(t, Len(t)), target - t[Len(t)])) >= CONFIDENCE_THRESHOLD
  BY <1>1, <1>2, <1>3, <1>6, <1>7, <1>8
<1> HIDE DEF target
<1>10. Causal!Justified(t, target)
  BY <1>2, <1>8, <1>9, SameEvidence DEF Causal!Justified
<1> QED BY <1>4, <1>10 DEF t

\* Every access is an access of the causal prefetcher.
LEMMA AccessImplements ==
  ASSUME FrontInv, NEW line \in Line, NEW useful \in BOOLEAN, NEW accepted \in BOOLEAN,
         NEW e \in Entry, FrontAccess(line, useful, accepted, e),
         Backed(e, Append(events, line))
  PROVE  Causal!Access(line)
<1> DEFINE at == Len(events) + 1
           made == [at |-> at, line |-> PredictedLine(line, e)]
<1>1. events' = Append(events, line) /\ Len(events') = at
  BY DEF FrontAccess, FrontInv, FrontTypeOK
<1>2. /\ log' = IF ContextHit(line, e)
                  THEN log \cup {[at |-> at, line |-> PredictedLine(line, e),
                                 confidence |-> e.confidence, generated |-> Predicts(line, e)]}
                  ELSE log
      /\ Predicts(line, e) => ContextHit(line, e)
  BY DEF FrontAccess, Predicts
<1> HIDE DEF at
<1>3. predicted' = IF Predicts(line, e) THEN predicted \cup {made} ELSE predicted
  <2>1. CASE Predicts(line, e)
    <3> DEFINE r == [at |-> at, line |-> PredictedLine(line, e),
                     confidence |-> e.confidence, generated |-> Predicts(line, e)]
    <3>1. r.at = at /\ r.line = PredictedLine(line, e) /\ r.generated
      BY <2>1
    <3>2. log' = log \cup {r}
      BY <1>2, <2>1
    <3> HIDE DEF r
    <3>3. Generated' = Generated \cup {r}
      BY <3>1, <3>2 DEF Generated
    <3>4. [at |-> r.at, line |-> r.line] = made
      BY <3>1
    <3> HIDE DEF made
    <3> QED BY <2>1, <3>3, <3>4 DEF predicted
  <2>2. CASE ~Predicts(line, e)
    BY <1>2, <2>2 DEF predicted, Generated
  <2> QED BY <2>1, <2>2
<1>4. Predicts(line, e) => Causal!Justified(events', made.line)
  BY <1>1, PredictionJustified DEF FrontInv
<1>5. \A p \in predicted' \ predicted : p = made /\ Predicts(line, e)
  BY <1>3
<1>6. made.at = Len(events')
  BY <1>1
<1> HIDE DEF made
<1> QED BY <1>1, <1>3, <1>4, <1>5, <1>6 DEF Causal!Access

----------------------------------------------------------------------------
(* The shadow accounting.                                                  *)

\* The predictions of G whose target has come by position n, and those of them
\* that s bears out.
Arrived(G, n) == {r \in G : r.at + HORIZON <= n}
Right(G, s) == {r \in Arrived(G, Len(s)) : s[r.at + HORIZON] = r.line}

\* q holds the predictions of G whose target has not come by position n, in the
\* order in which they fall due.
Awaited(q, G, n) ==
  /\ \A i, j \in 1 .. Len(q) : i < j => q[i].due < q[j].due
  /\ \A j \in 1 .. Len(q) :
       \E r \in G : r.at + HORIZON > n /\ q[j] = [due |-> r.at + HORIZON, line |-> r.line]
  /\ \A r \in G : r.at + HORIZON > n => \E j \in 1 .. Len(q) : q[j].due = r.at + HORIZON

\* One prediction for each of the first n accesses at most.
Recorded(G, n) ==
  /\ IsFiniteSet(G) /\ G \subseteq LogRecord
  /\ \A r \in G : r.at \in 1 .. n
  /\ \A r, u \in G : r.at = u.at => r = u

ShadowInv ==
  /\ Recorded(Generated, Len(events))
  /\ Awaited(shadow.pending, Generated, Len(events))
  /\ shadow.predictions = Cardinality(Arrived(Generated, Len(events)))
  /\ shadow.correct = Cardinality(Right(Generated, events))
  /\ counters.predictions = shadow.predictions + Len(shadow.pending)
  /\ final # NotYet => final.unresolved = Len(shadow.pending)

\* What is due at the next access: the head of the queue, or nothing. `ripe` holds
\* the positions that pop, `n` the accesses so far and `G` the predictions made.
NextDue(q, n, G, ripe) ==
  \/ /\ ripe = {}
     /\ \A r \in G : r.at + HORIZON # n + 1
     /\ Awaited(q, G, n + 1)
  \/ /\ ripe = {1} /\ Len(q) # 0 /\ q[1].due = n + 1
     /\ \E r \in G : r.at + HORIZON = n + 1 /\ r.line = q[1].line
     /\ Awaited(Tail(q), G, n + 1)

LEMMA AwaitedNext ==
  ASSUME NEW q \in Seq(ShadowPrediction), NEW n \in Nat, NEW G, Recorded(G, n), Awaited(q, G, n)
  PROVE  NextDue(q, n, G, {i \in DOMAIN q : \A j \in 1 .. i : q[j].due <= n + 1})
<1> DEFINE ripe == {i \in DOMAIN q : \A j \in 1 .. i : q[j].due <= n + 1}
           k == Len(q)
<1>1. k \in Nat /\ DOMAIN q = 1 .. k /\ \A i \in 1 .. k : q[i].due \in Nat
  <2>1. k \in Nat /\ DOMAIN q = 1 .. k /\ \A i \in 1 .. k : q[i] \in ShadowPrediction
    OBVIOUS
  <2> QED BY <2>1 DEF ShadowPrediction
<1>2. /\ \A i, j \in 1 .. k : i < j => q[i].due < q[j].due
      /\ \A j \in 1 .. k : \E r \in G : r.at + HORIZON > n /\ q[j] = [due |-> r.at + HORIZON, line |-> r.line]
      /\ \A r \in G : r.at + HORIZON > n => \E j \in 1 .. k : q[j].due = r.at + HORIZON
  BY DEF Awaited
<1>3. \A r \in G : r.at \in Nat /\ r.at + HORIZON \in Nat
  BY SizeAssumption DEF Recorded, LogRecord
<1>4. \A j \in 1 .. k : q[j].due >= n + 1
  BY <1>1, <1>2, <1>3
<1>5. \A i \in ripe : i = 1 /\ q[1].due = n + 1
  <2> SUFFICES ASSUME NEW i \in ripe PROVE i = 1 /\ q[1].due = n + 1
    OBVIOUS
  <2>1. i \in 1 .. k /\ 1 \in 1 .. i /\ i \in 1 .. i /\ 1 \in 1 .. k
    BY <1>1
  <2>2. q[1].due <= n + 1 /\ q[i].due <= n + 1
    BY <2>1
  <2>3. q[1].due = n + 1 /\ q[i].due = n + 1
    BY <2>1, <2>2, <1>1, <1>4
  <2>4. ~ (1 < i)
    BY <2>1, <2>3, <1>2
  <2> QED BY <2>1, <2>3, <2>4
<1>6. CASE k # 0 /\ q[1].due = n + 1
  <2>1. 1 \in ripe
    BY <1>1, <1>6
  <2>2. ripe = {1}
    BY <2>1, <1>5
  <2>3. 1 \in 1 .. k
    BY <1>1, <1>6
  <2>4. \E r \in G : r.at + HORIZON = n + 1 /\ r.line = q[1].line
    <3>1. PICK r \in G : q[1] = [due |-> r.at + HORIZON, line |-> r.line]
      BY <2>3, <1>2
    <3> QED BY <3>1, <1>6
  <2> DEFINE t == Tail(q)
  <2>5. Len(t) = k - 1 /\ \A i \in 1 .. k - 1 : t[i] = q[i + 1]
    BY <1>1, <1>6
  <2> HIDE DEF t
  <2>6. Awaited(t, G, n + 1)
    <3>1. \A i, j \in 1 .. k - 1 : i < j => t[i].due < t[j].due
      <4> SUFFICES ASSUME NEW i \in 1 .. k - 1, NEW j \in 1 .. k - 1, i < j
          PROVE  t[i].due < t[j].due
        OBVIOUS
      <4>1. i + 1 \in 1 .. k /\ j + 1 \in 1 .. k /\ i + 1 < j + 1
        BY <1>1
      <4> QED BY <4>1, <1>2, <2>5
    <3>2. \A j \in 1 .. k - 1 :
            \E r \in G : r.at + HORIZON > n + 1 /\ t[j] = [due |-> r.at + HORIZON, line |-> r.line]
      <4> SUFFICES ASSUME NEW j \in 1 .. k - 1
          PROVE  \E r \in G : r.at + HORIZON > n + 1 /\ t[j] = [due |-> r.at + HORIZON, line |-> r.line]
        OBVIOUS
      <4>1. j + 1 \in 1 .. k /\ 1 < j + 1 /\ t[j] = q[j + 1]
        BY <1>1, <2>5
      <4>2. q[1].due < q[j + 1].due
        BY <4>1, <2>3, <1>2
      <4>3. PICK r \in G : q[j + 1] = [due |-> r.at + HORIZON, line |-> r.line]
        BY <4>1, <1>2
      <4>4. r.at + HORIZON > n + 1
        BY <4>2, <4>3, <1>3, <1>6
      <4> QED BY <4>1, <4>3, <4>4
    <3>3. \A r \in G : r.at + HORIZON > n + 1 => \E j \in 1 .. k - 1 : t[j].due = r.at + HORIZON
      <4> SUFFICES ASSUME NEW r \in G, r.at + HORIZON > n + 1
          PROVE  \E j \in 1 .. k - 1 : t[j].due = r.at + HORIZON
        OBVIOUS
      <4>1. PICK j \in 1 .. k : q[j].due = r.at + HORIZON
        BY <1>2, <1>3
      <4>2. j # 1
        BY <4>1, <1>6, <1>3
      <4>3. j - 1 \in 1 .. k - 1 /\ t[j - 1] = q[j]
        <5>1. j - 1 \in 1 .. k - 1 /\ (j - 1) + 1 = j
          BY <4>2, <1>1
        <5> QED BY <5>1, <2>5
      <4> QED BY <4>1, <4>3
    <3> QED BY <3>1, <3>2, <3>3, <2>5 DEF Awaited
  <2> HIDE DEF ripe
  <2>7. NextDue(q, n, G, ripe)
    BY <2>2, <2>4, <2>6, <1>6 DEF t, NextDue
  <2> QED BY <2>7 DEF ripe
<1>7. CASE ~ (k # 0 /\ q[1].due = n + 1)
  <2>1. ripe = {}
    BY <1>5, <1>7, <1>1
  <2>2. \A j \in 1 .. k : q[j].due > n + 1
    <3> SUFFICES ASSUME NEW j \in 1 .. k PROVE q[j].due > n + 1
      OBVIOUS
    <3>1. 1 \in 1 .. k /\ q[1].due # n + 1
      BY <1>1, <1>7
    <3>2. q[1].due > n + 1
      BY <3>1, <1>1, <1>4
    <3>3. j = 1 \/ 1 < j
      OBVIOUS
    <3> HIDE DEF k, ripe
    <3>4. CASE j = 1
      BY <3>2, <3>4
    <3>5. CASE 1 < j
      <4>1. q[1].due < q[j].due /\ q[1].due \in Nat /\ q[j].due \in Nat
        BY <3>1, <3>5, <1>1, <1>2
      <4> QED BY <3>2, <4>1
    <3> QED BY <3>3, <3>4, <3>5
  <2>3. \A r \in G : r.at + HORIZON # n + 1
    <3> SUFFICES ASSUME NEW r \in G, r.at + HORIZON = n + 1 PROVE FALSE
      OBVIOUS
    <3>1. PICK j \in 1 .. k : q[j].due = n + 1
      BY <1>2
    <3> QED BY <3>1, <2>2, <1>1
  <2>4. Awaited(q, G, n + 1)
    <3>1. \A j \in 1 .. k :
            \E r \in G : r.at + HORIZON > n + 1 /\ q[j] = [due |-> r.at + HORIZON, line |-> r.line]
      <4> SUFFICES ASSUME NEW j \in 1 .. k
          PROVE  \E r \in G : r.at + HORIZON > n + 1 /\ q[j] = [due |-> r.at + HORIZON, line |-> r.line]
        OBVIOUS
      <4>1. PICK r \in G : q[j] = [due |-> r.at + HORIZON, line |-> r.line]
        BY <1>2
      <4> QED BY <4>1, <2>2
    <3>2. \A r \in G : r.at + HORIZON > n + 1 => \E j \in 1 .. k : q[j].due = r.at + HORIZON
      BY <1>2, <1>3
    <3> QED BY <1>2, <3>1, <3>2 DEF Awaited
  <2> HIDE DEF ripe
  <2>5. NextDue(q, n, G, ripe)
    BY <2>1, <2>3, <2>4 DEF NextDue
  <2> QED BY <2>5 DEF ripe
<1> QED BY <1>6, <1>7

\* A prediction made now is the last to fall due.
LEMMA AwaitedAppend ==
  ASSUME NEW q \in Seq(ShadowPrediction), NEW n \in Nat, NEW G, Recorded(G, n),
         Awaited(q, G, n + 1), NEW r \in LogRecord, r.at = n + 1
  PROVE  Awaited(Append(q, [due |-> n + 1 + HORIZON, line |-> r.line]), G \cup {r}, n + 1)
<1> DEFINE k == Len(q)
           new == [due |-> n + 1 + HORIZON, line |-> r.line]
           a == Append(q, new)
           H == G \cup {r}
<1>1. k \in Nat /\ Len(a) = k + 1 /\ a[k + 1] = new /\ \A i \in 1 .. k : a[i] = q[i]
  OBVIOUS
<1>2. /\ \A i, j \in 1 .. k : i < j => q[i].due < q[j].due
      /\ \A j \in 1 .. k : \E u \in G : u.at + HORIZON > n + 1 /\ q[j] = [due |-> u.at + HORIZON, line |-> u.line]
      /\ \A u \in G : u.at + HORIZON > n + 1 => \E j \in 1 .. k : q[j].due = u.at + HORIZON
  BY DEF Awaited
<1>3. HORIZON \in Nat \ {0}
  BY SizeAssumption
<1>4. \A u \in G : u.at \in 1 .. n
  BY DEF Recorded
<1>5. \A j \in 1 .. k : q[j].due < new.due
  <2> SUFFICES ASSUME NEW j \in 1 .. k PROVE q[j].due < new.due
    OBVIOUS
  <2>1. PICK u \in G : q[j] = [due |-> u.at + HORIZON, line |-> u.line]
    BY <1>2
  <2>2. u.at + HORIZON < n + 1 + HORIZON
    BY <1>3, <1>4
  <2> QED BY <2>1, <2>2
<1> HIDE DEF a, H
<1>6. \A i, j \in 1 .. k + 1 : i < j => a[i].due < a[j].due
  <2> SUFFICES ASSUME NEW i \in 1 .. k + 1, NEW j \in 1 .. k + 1, i < j
      PROVE  a[i].due < a[j].due
    OBVIOUS
  <2>1. i \in 1 .. k /\ (j \in 1 .. k \/ j = k + 1)
    BY <1>1
  <2> QED BY <2>1, <1>1, <1>2, <1>5
<1>7. \A j \in 1 .. k + 1 :
        \E u \in H : u.at + HORIZON > n + 1 /\ a[j] = [due |-> u.at + HORIZON, line |-> u.line]
  <2> SUFFICES ASSUME NEW j \in 1 .. k + 1
      PROVE  \E u \in H : u.at + HORIZON > n + 1 /\ a[j] = [due |-> u.at + HORIZON, line |-> u.line]
    OBVIOUS
  <2>1. CASE j \in 1 .. k
    <3>1. PICK u \in G :
            u.at + HORIZON > n + 1 /\ q[j] = [due |-> u.at + HORIZON, line |-> u.line]
      BY <2>1, <1>2
    <3>2. u \in H /\ a[j] = q[j]
      BY <2>1, <1>1 DEF H
    <3> HIDE DEF k, new
    <3> QED BY <3>1, <3>2
  <2>2. CASE j = k + 1
    <3>1. r \in H /\ r.at + HORIZON > n + 1 /\ r.at + HORIZON = n + 1 + HORIZON
      BY <1>3 DEF H
    <3> QED BY <3>1, <2>2, <1>1
  <2> QED BY <2>1, <2>2, <1>1
<1>8. \A u \in H : u.at + HORIZON > n + 1 => \E j \in 1 .. k + 1 : a[j].due = u.at + HORIZON
  <2> SUFFICES ASSUME NEW u \in H, u.at + HORIZON > n + 1
      PROVE  \E j \in 1 .. k + 1 : a[j].due = u.at + HORIZON
    OBVIOUS
  <2>1. CASE u \in G
    <3>1. PICK j \in 1 .. k : q[j].due = u.at + HORIZON
      BY <2>1, <1>2
    <3>2. j \in 1 .. k + 1 /\ a[j] = q[j]
      BY <1>1
    <3> QED BY <3>1, <3>2
  <2>2. CASE u = r
    <3>1. k + 1 \in 1 .. k + 1
      BY <1>1
    <3> QED BY <3>1, <2>2, <1>1
  <2> QED BY <2>1, <2>2 DEF H
<1> QED BY <1>1, <1>6, <1>7, <1>8 DEF Awaited, a, H

\* One access: what falls due is compared and counted, and a prediction that is
\* made joins the queue.
LEMMA ShadowAccess ==
  ASSUME FrontInv, ShadowInv, NEW line \in Line, NEW useful \in BOOLEAN, NEW accepted \in BOOLEAN,
         NEW e \in Entry, FrontAccess(line, useful, accepted, e), FrontTypeOK'
  PROVE  ShadowInv'
<1> DEFINE q == shadow.pending
           G == Generated
           n == Len(events)
           t == Append(events, line)
           made == Predicts(line, e)
           new == [at |-> n + 1, line |-> PredictedLine(line, e),
                   confidence |-> e.confidence, generated |-> TRUE]
           left == Resolved(line).pending
           ready == {r \in G : r.at + HORIZON = n + 1}
           good == {r \in ready : r.line = line}
           hits == {i \in DueNow : q[i].line = line}
           popped == Resolved(line)
<1>1. /\ q \in Seq(ShadowPrediction) /\ n \in Nat /\ Recorded(G, n) /\ Awaited(q, G, n)
      /\ events \in Seq(Line) /\ shadow.predictions \in Nat /\ shadow.correct \in Nat
      /\ counters.predictions \in Nat
  BY DEF FrontInv, FrontTypeOK, ShadowInv
<1>2. /\ HORIZON \in Nat \ {0} /\ IsFiniteSet(G)
      /\ \A r \in G : r.at \in 1 .. n
      /\ \A r, u \in G : r.at = u.at => r = u
  BY <1>1, SizeAssumption DEF Recorded
<1>3. t \in Seq(Line) /\ Len(t) = n + 1 /\ events' = t /\ t[n + 1] = line
      /\ \A i \in 1 .. n : t[i] = events[i]
  BY <1>1 DEF FrontAccess
<1>4. Generated' = IF made THEN G \cup {new} ELSE G
  <2> DEFINE r == [at |-> n + 1, line |-> PredictedLine(line, e),
                   confidence |-> e.confidence, generated |-> made]
  <2>1. /\ log' = IF ContextHit(line, e) THEN log \cup {r} ELSE log
        /\ made => ContextHit(line, e)
    BY DEF FrontAccess, Predicts
  <2>2. r.generated = made /\ made \in BOOLEAN /\ (made => r = new)
    BY DEF Predicts
  <2> HIDE DEF r, new, made
  <2>3. CASE made
    BY <2>1, <2>2, <2>3 DEF Generated
  <2>4. CASE ~ made
    BY <2>1, <2>2, <2>4 DEF Generated
  <2> QED BY <2>3, <2>4
<1>5. \/ /\ Ripe = {} /\ ready = {} /\ Awaited(q, G, n + 1)
      \/ /\ Ripe = {1} /\ Len(q) # 0 /\ q[1].due = n + 1
         /\ \E r \in ready : r.line = q[1].line
         /\ Awaited(Tail(q), G, n + 1)
  <2>1. Ripe = {i \in DOMAIN q : \A j \in 1 .. i : q[j].due <= n + 1}
    BY DEF Ripe
  <2> HIDE DEF q, n, G, ready
  <2>2. \/ /\ Ripe = {}
           /\ \A r \in G : r.at + HORIZON # n + 1
           /\ Awaited(q, G, n + 1)
        \/ /\ Ripe = {1} /\ Len(q) # 0 /\ q[1].due = n + 1
           /\ \E r \in G : r.at + HORIZON = n + 1 /\ r.line = q[1].line
           /\ Awaited(Tail(q), G, n + 1)
    <3>1. NextDue(q, n, G, Ripe)
      BY <1>1, <2>1, AwaitedNext
    <3> QED BY <3>1, Zenon DEF NextDue
  <2>3. /\ (\A r \in G : r.at + HORIZON # n + 1) => ready = {}
        /\ (\E r \in G : r.at + HORIZON = n + 1 /\ r.line = q[1].line)
             => \E r \in ready : r.line = q[1].line
    BY Zenon DEF ready
  <2> QED BY <2>2, <2>3, Zenon
<1>6. /\ left = SubSeq(q, Cardinality(Ripe) + 1, Len(q))
      /\ popped.predictions = shadow.predictions + Cardinality(DueNow)
      /\ popped.correct = shadow.correct + Cardinality(hits)
  BY DEF Resolved
<1>7. /\ left \in Seq(ShadowPrediction) /\ Awaited(left, G, n + 1)
      /\ Len(left) + Cardinality(ready) = Len(q)
      /\ popped.predictions = shadow.predictions + Cardinality(ready)
      /\ popped.correct = shadow.correct + Cardinality(good)
      /\ IsFiniteSet(ready) /\ Cardinality(ready) \in Nat /\ IsFiniteSet(good)
      /\ Cardinality(good) \in Nat /\ Len(left) \in Nat
  <2>1. DueNow = {i \in Ripe : q[i].due = n + 1}
    BY DEF DueNow
  <2>2. /\ \A x : IsFiniteSet({x}) /\ Cardinality({x}) = 1
        /\ IsFiniteSet({}) /\ Cardinality({}) = 0
    BY FS_Singleton, FS_EmptySet
  <2> HIDE DEF left, hits, popped, n
  <2>3. CASE Ripe = {} /\ ready = {} /\ Awaited(q, G, n + 1)
    <3>1. DueNow = {} /\ hits = {} /\ good = {}
      BY <2>1, <2>3 DEF hits
    <3>2. SubSeq(q, 1, Len(q)) = q
      BY <1>1
    <3>3. left = q
      BY <1>6, <2>2, <2>3, <3>2
    <3>4. Cardinality(ready) = 0 /\ Cardinality(good) = 0 /\ IsFiniteSet(ready) /\ IsFiniteSet(good)
      BY <2>2, <2>3, <3>1
    <3>5. Cardinality(DueNow) = 0 /\ Cardinality(hits) = 0
      BY <2>2, <3>1
    <3>6. Len(left) \in Nat /\ Len(left) = Len(q) /\ Awaited(left, G, n + 1)
          /\ left \in Seq(ShadowPrediction)
      BY <1>1, <2>3, <3>3
    <3> HIDE DEF q, ready, good, G
    <3>7. /\ Len(left) + Cardinality(ready) = Len(q)
          /\ popped.predictions = shadow.predictions + Cardinality(ready)
          /\ popped.correct = shadow.correct + Cardinality(good)
      BY <1>6, <3>4, <3>5, <3>6
    <3> QED BY <3>4, <3>6, <3>7
  <2>4. CASE /\ Ripe = {1} /\ Len(q) # 0 /\ q[1].due = n + 1
             /\ \E r \in ready : r.line = q[1].line
             /\ Awaited(Tail(q), G, n + 1)
    <3>1. PICK r \in ready : r.line = q[1].line
      BY <2>4
    <3>2. ready = {r}
      BY <3>1, <1>2
    <3>3. DueNow = {1}
      BY <2>1, <2>4
    <3>4. SubSeq(q, 2, Len(q)) = Tail(q) /\ Len(Tail(q)) + 1 = Len(q)
          /\ Tail(q) \in Seq(ShadowPrediction)
      BY <1>1, <2>4
    <3> HIDE DEF ready, G
    <3>5. Cardinality(hits) = Cardinality(good) /\ IsFiniteSet(good) /\ Cardinality(good) \in Nat
      <4>1. CASE r.line = line
        <5>1. hits = {1} /\ good = {r}
          BY <4>1, <3>1, <3>2, <3>3 DEF hits
        <5>2. Cardinality({1}) = 1 /\ Cardinality({r}) = 1 /\ IsFiniteSet({r})
          BY FS_Singleton
        <5> HIDE DEF good
        <5> QED BY <5>1, <5>2
      <4>2. CASE r.line # line
        <5>1. hits = {} /\ good = {}
          BY <4>2, <3>1, <3>2, <3>3 DEF hits
        <5>2. Cardinality({}) = 0 /\ IsFiniteSet({}) /\ 0 \in Nat
          BY <2>2
        <5> HIDE DEF good
        <5> QED BY <5>1, <5>2
      <4> QED BY <4>1, <4>2
    <3>6. Cardinality(Ripe) = 1
      BY <2>4, <2>2
    <3>7. left = Tail(q)
      BY <1>6, <3>4, <3>6
    <3>8. Cardinality(ready) = 1 /\ Cardinality(DueNow) = 1 /\ IsFiniteSet(ready)
      BY <3>2, <3>3, <2>2
    <3>9. Len(left) \in Nat
      BY <3>4, <3>7
    <3>10. left \in Seq(ShadowPrediction) /\ Awaited(left, G, n + 1)
      BY <2>4, <3>4, <3>7
    <3> HIDE DEF q, good
    <3>11. /\ Len(left) + Cardinality(ready) = Len(q)
           /\ popped.predictions = shadow.predictions + Cardinality(ready)
           /\ popped.correct = shadow.correct + Cardinality(good)
      BY <1>6, <3>4, <3>5, <3>7, <3>8
    <3> QED BY <3>5, <3>8, <3>9, <3>10, <3>11
  <2> QED BY <1>5, <2>3, <2>4
<1> HIDE DEF left, hits, popped
<1>8. shadow' = [pending |-> Foreseen(line, e, left), predictions |-> popped.predictions,
                 correct |-> popped.correct]
  BY DEF FrontAccess, left, popped
<1>9. Foreseen(line, e, left)
        = IF made THEN Append(left, [due |-> n + 1 + HORIZON, line |-> new.line]) ELSE left
  BY DEF Foreseen
<1>10. made => new \in LogRecord
  BY <1>1, LineAssumption DEF LogRecord, Predicts, PredictedLine, Entry
<1>11. Arrived(Generated', n + 1) = Arrived(G, n) \cup ready
  <2>1. \A r \in G : (r.at + HORIZON <= n + 1) <=> (r.at + HORIZON <= n \/ r.at + HORIZON = n + 1)
    <3> SUFFICES ASSUME NEW r \in G
        PROVE  (r.at + HORIZON <= n + 1) <=> (r.at + HORIZON <= n \/ r.at + HORIZON = n + 1)
      OBVIOUS
    <3>1. r.at + HORIZON \in Nat
      BY <1>1, <1>2
    <3> HIDE DEF n, G
    <3> QED BY <1>1, <3>1
  <2>2. ~ (new.at + HORIZON <= n + 1)
    BY <1>1, <1>2
  <2> HIDE DEF new, made, G, n
  <2>3. ready = {r \in G : r.at + HORIZON = n + 1}
    OBVIOUS
  <2> HIDE DEF ready
  <2> QED BY <1>4, <2>1, <2>2, <2>3 DEF Arrived
<1>12. Right(Generated', t) = Right(G, events) \cup good
  <2>1. \A r \in Arrived(G, n) : t[r.at + HORIZON] = events[r.at + HORIZON]
    <3> SUFFICES ASSUME NEW r \in Arrived(G, n) PROVE t[r.at + HORIZON] = events[r.at + HORIZON]
      OBVIOUS
    <3>1. r.at + HORIZON \in 1 .. n
      BY <1>1, <1>2 DEF Arrived
    <3> QED BY <3>1, <1>3
  <2>2. \A r \in ready : t[r.at + HORIZON] = line
    BY <1>3
  <2> HIDE DEF t, ready, G
  <2> QED BY <1>3, <1>11, <2>1, <2>2 DEF Right, n
<1>13. Arrived(G, n) \cap ready = {}
  BY <1>1, <1>2 DEF Arrived
<1>14. /\ IsFiniteSet(Arrived(G, n)) /\ Cardinality(Arrived(G, n)) \in Nat
       /\ IsFiniteSet(Right(G, events)) /\ Cardinality(Right(G, events)) \in Nat
  BY <1>2, FS_Subset, FS_CardinalityType DEF Arrived, Right
<1>15. /\ Cardinality(Arrived(Generated', n + 1)) = Cardinality(Arrived(G, n)) + Cardinality(ready)
       /\ Cardinality(Right(Generated', t)) = Cardinality(Right(G, events)) + Cardinality(good)
  <2>1. Right(G, events) \cap good = {}
    BY <1>13 DEF Right
  <2> HIDE DEF ready, good, G, t, n
  <2>2. Cardinality({}) = 0
    BY FS_EmptySet
  <2>3. Cardinality(Arrived(G, n) \cup ready) = Cardinality(Arrived(G, n)) + Cardinality(ready)
    <3>1. Cardinality(Arrived(G, n) \cup ready) = Cardinality(Arrived(G, n)) + Cardinality(ready) - 0
      BY <1>7, <1>13, <1>14, <2>2, FS_Union
    <3> QED BY <3>1, <1>7, <1>14
  <2>4. Cardinality(Right(G, events) \cup good) = Cardinality(Right(G, events)) + Cardinality(good)
    <3>1. Cardinality(Right(G, events) \cup good) = Cardinality(Right(G, events)) + Cardinality(good) - 0
      BY <1>7, <2>1, <1>14, <2>2, FS_Union
    <3> QED BY <3>1, <1>7, <1>14
  <2> QED BY <1>11, <1>12, <2>3, <2>4
<1>16. Recorded(Generated', n + 1)
  <2>1. CASE made
    <3>1. IsFiniteSet(G \cup {new})
      BY <1>2, FS_AddElement
    <3>2. \A r \in G \cup {new} : r.at \in 1 .. n + 1
      BY <1>1, <1>2
    <3>3. \A r \in G : r.at # new.at
      BY <1>1, <1>2
    <3> QED BY <2>1, <1>1, <1>2, <1>4, <1>10, <3>1, <3>2, <3>3 DEF Recorded
  <2>2. CASE ~ made
    <3>1. \A r \in G : r.at \in 1 .. n + 1
      BY <1>1, <1>2
    <3> QED BY <2>2, <1>1, <1>2, <1>4, <3>1 DEF Recorded
  <2> QED BY <2>1, <2>2
<1>17. Awaited(shadow'.pending, Generated', n + 1)
  <2>1. CASE made
    <3>1. new.at = n + 1 /\ new \in LogRecord
      BY <2>1, <1>10
    <3> HIDE DEF new, n, G
    <3>2. Awaited(Append(left, [due |-> n + 1 + HORIZON, line |-> new.line]), G \cup {new}, n + 1)
      BY <1>1, <1>7, <3>1, AwaitedAppend
    <3> QED BY <2>1, <1>4, <1>8, <1>9, <3>2
  <2>2. CASE ~ made
    BY <2>2, <1>4, <1>7, <1>8, <1>9
  <2> QED BY <2>1, <2>2
<1>18. Len(shadow'.pending) = Len(left) + Tick(made)
  BY <1>7, <1>8, <1>9 DEF Tick
<1>19. counters'.predictions = counters.predictions + Tick(made)
  BY DEF FrontAccess
<1>20. counters'.predictions = shadow'.predictions + Len(shadow'.pending)
  <2>1. /\ counters.predictions = shadow.predictions + Len(q)
        /\ shadow'.predictions = shadow.predictions + Cardinality(ready)
        /\ Len(left) + Cardinality(ready) = Len(q)
    BY <1>7, <1>8 DEF ShadowInv
  <2>2. Tick(made) \in Nat
    BY DEF Tick
  <2> HIDE DEF made, ready, q
  <2> QED BY <1>1, <1>7, <1>18, <1>19, <2>1, <2>2
<1>21. final' = NotYet
  BY DEF FrontAccess
<1>22. shadow'.predictions = Cardinality(Arrived(Generated', n + 1))
  BY <1>1, <1>7, <1>8, <1>15 DEF ShadowInv
<1>23. shadow'.correct = Cardinality(Right(Generated', t))
  BY <1>1, <1>7, <1>8, <1>15 DEF ShadowInv
<1> HIDE DEF n, t
<1>24. Len(events') = n + 1
  BY <1>3
<1> QED BY <1>3, <1>16, <1>17, <1>20, <1>21, <1>22, <1>23, <1>24 DEF ShadowInv

\* The other callbacks predict nothing and resolve nothing; the last one records
\* what is left of the queue.
LEMMA ShadowOther ==
  ASSUME FrontInv, ShadowInv,
         \/ PrefetchAccess \/ CacheFill \/ FinalStats
         \/ UNCHANGED <<events, log, shadow, counters, final>>
  PROVE  ShadowInv'
<1>1. /\ UNCHANGED <<events, log, shadow>>
      /\ counters'.predictions = counters.predictions
  BY DEF PrefetchAccess, CacheFill, FinalStats, FrontInv, FrontTypeOK
<1>2. final' # NotYet => final'.unresolved = Len(shadow.pending)
  BY DEF PrefetchAccess, CacheFill, FinalStats, ShadowInv
<1> QED BY <1>1, <1>2 DEF ShadowInv, Generated

\* Nothing is predicted at the start.
LEMMA ShadowInit == FrontInit => ShadowInv
<1> SUFFICES ASSUME FrontInit PROVE ShadowInv
  OBVIOUS
<1>1. Generated = {} /\ events = <<>> /\ final = NotYet /\ counters.predictions = 0
      /\ shadow = [pending |-> <<>>, predictions |-> 0, correct |-> 0]
  BY DEF FrontInit, Generated
<1>2. IsFiniteSet({}) /\ Cardinality({}) = 0 /\ Len(<<>>) = 0
  BY FS_EmptySet
<1>3. Arrived({}, 0) = {} /\ Right({}, <<>>) = {}
  BY DEF Arrived, Right
<1>4. Recorded({}, 0) /\ Awaited(<<>>, {}, 0)
  BY <1>2 DEF Recorded, Awaited
<1>5. Len(events) = 0 /\ shadow.pending = <<>> /\ shadow.predictions = 0 /\ shadow.correct = 0
  BY <1>1, <1>2
<1>6. Recorded(Generated, Len(events)) /\ Awaited(shadow.pending, Generated, Len(events))
  BY <1>1, <1>4, <1>5
<1>7. /\ shadow.predictions = Cardinality(Arrived(Generated, Len(events)))
      /\ shadow.correct = Cardinality(Right(Generated, events))
  BY <1>1, <1>2, <1>3, <1>5
<1>8. counters.predictions = shadow.predictions + Len(shadow.pending)
  BY <1>1, <1>2, <1>5
<1> QED BY <1>1, <1>6, <1>7, <1>8 DEF ShadowInv

\* That is the accounting that the diagnostics promise.
LEMMA ShadowInvExact == FrontInv /\ ShadowInv => ShadowExact
<1> SUFFICES ASSUME FrontInv, ShadowInv PROVE ShadowExact
  OBVIOUS
<1> DEFINE n == Len(events)
           due == {r \in Generated : r.at + HORIZON <= n}
<1>1. due = Arrived(Generated, n)
  BY DEF Arrived
<1>2. {r \in due : events[r.at + HORIZON] = r.line} = Right(Generated, events)
  BY <1>1 DEF Right
<1>3. \A j \in 1 .. Len(shadow.pending) :
        \E r \in Generated : shadow.pending[j] = [due |-> r.at + HORIZON, line |-> r.line]
  BY DEF ShadowInv, Awaited
<1> QED BY <1>1, <1>2, <1>3 DEF ShadowInv, ShadowExact

----------------------------------------------------------------------------
(* The analyzer's replay, one line after the other.                        *)

\* f is the replay of the first n lines of s.
Runs(f, s, n) ==
  f = [i \in 0 .. n |-> IF i = 0 THEN ReplayStart ELSE ReplayEvent(f[i - 1], s[i])]

\* f, the replay of the first n lines of s, is continued by the line after them.
Continued(f, s, n) ==
  \E g : Runs(g, s, n + 1) /\ g[n + 1] = ReplayEvent(f[n], s[n + 1])

\* A replay of n lines goes on to the next one.
LEMMA RunsOn ==
  ASSUME NEW s, NEW n \in Nat, NEW f, Runs(f, s, n)
  PROVE  Continued(f, s, n)
<1> DEFINE g == [i \in 0 .. n + 1 |-> IF i = n + 1 THEN ReplayEvent(f[n], s[n + 1]) ELSE f[i]]
<1>1. f[0] = ReplayStart /\ \A i \in 1 .. n : f[i] = ReplayEvent(f[i - 1], s[i])
  BY DEF Runs
<1>2. g[n + 1] = ReplayEvent(f[n], s[n + 1]) /\ \A i \in 0 .. n : g[i] = f[i]
  OBVIOUS
<1>3. g = [i \in 0 .. n + 1 |-> g[i]]
  OBVIOUS
<1> HIDE DEF g
<1>4. ASSUME NEW i \in 0 .. n + 1
      PROVE  g[i] = IF i = 0 THEN ReplayStart ELSE ReplayEvent(g[i - 1], s[i])
  <2>1. CASE i = 0
    BY <1>1, <1>2, <2>1
  <2>2. CASE i = n + 1
    BY <1>2, <2>2
  <2>3. CASE i # 0 /\ i # n + 1
    <3>1. i \in 1 .. n /\ i \in 0 .. n /\ i - 1 \in 0 .. n
      BY <2>3
    <3> QED BY <1>1, <1>2, <2>3, <3>1
  <2> QED BY <2>1, <2>2, <2>3
<1>5. Runs(g, s, n + 1)
  BY <1>3, <1>4 DEF Runs
<1> QED BY <1>2, <1>5 DEF Continued

\* Every stream has a replay.
LEMMA RunsExist ==
  ASSUME NEW s, NEW n \in Nat
  PROVE  \E f : Runs(f, s, n)
<1> DEFINE R == OpToRel(<, Nat)
           T == {k \in 0 .. n : ~ \E f : Runs(f, s, k)}
<1>1. \A x, y \in Nat : x < y => <<x, y>> \in R
  BY DEF OpToRel
<1>2. IsWellFoundedOn(R, Nat)
  BY NatLessThanWellFounded, Zenon
<1> HIDE DEF R
<1> SUFFICES ASSUME T # {} PROVE FALSE
  OBVIOUS
<1>3. T \subseteq Nat
  OBVIOUS
<1>4. \E x \in T : \A y \in T : ~ (<<y, x>> \in R)
  <2> HIDE DEF T
  <2> QED BY <1>2, <1>3, WFMin
<1>5. PICK x \in T : \A y \in T : ~ (y < x)
  BY <1>1, <1>3, <1>4
<1>6. CASE x = 0
  <2>1. Runs([i \in 0 .. 0 |-> ReplayStart], s, 0)
    BY DEF Runs
  <2> QED BY <1>5, <1>6, <2>1
<1>7. CASE x # 0
  <2>1. x - 1 \in Nat /\ x - 1 \in 0 .. n /\ x - 1 < x /\ (x - 1) + 1 = x
    BY <1>5, <1>7
  <2>2. PICK f : Runs(f, s, x - 1)
    BY <1>5, <2>1
  <2>3. \E g : Runs(g, s, (x - 1) + 1)
    BY <2>1, <2>2, RunsOn DEF Continued
  <2> QED BY <1>5, <2>1, <2>3
<1> QED BY <1>6, <1>7

\* Two replays of the same lines agree.
LEMMA RunsAgree ==
  ASSUME NEW s, NEW t, NEW n \in Nat, NEW m \in Nat, n <= m, NEW f, NEW g,
         Runs(f, s, n), Runs(g, t, m), \A i \in 1 .. n : s[i] = t[i]
  PROVE  f[n] = g[n]
<1> DEFINE R == OpToRel(<, Nat)
           T == {k \in 0 .. n : f[k] # g[k]}
<1>1. \A x, y \in Nat : x < y => <<x, y>> \in R
  BY DEF OpToRel
<1>2. IsWellFoundedOn(R, Nat)
  BY NatLessThanWellFounded, Zenon
<1> HIDE DEF R
<1> SUFFICES ASSUME T # {} PROVE FALSE
  OBVIOUS
<1>3. T \subseteq Nat
  OBVIOUS
<1>4. \E x \in T : \A y \in T : ~ (<<y, x>> \in R)
  <2> HIDE DEF T
  <2> QED BY <1>2, <1>3, WFMin
<1>5. PICK x \in T : \A y \in T : ~ (y < x)
  BY <1>1, <1>3, <1>4
<1>6. /\ f[0] = ReplayStart /\ \A i \in 1 .. n : f[i] = ReplayEvent(f[i - 1], s[i])
      /\ g[0] = ReplayStart /\ \A i \in 1 .. m : g[i] = ReplayEvent(g[i - 1], t[i])
  BY DEF Runs
<1>7. x \in 1 .. n /\ x \in 1 .. m
  BY <1>5, <1>6
<1>8. f[x - 1] = g[x - 1]
  BY <1>5, <1>7
<1> QED BY <1>5, <1>6, <1>7, <1>8

\* The replay of a stream that grew by a line.
LEMMA ReplayGrows ==
  ASSUME NEW s \in Seq(Line), NEW line \in Line
  PROVE  Replay(Append(s, line)) = ReplayEvent(Replay(s), line)
<1> DEFINE n == Len(s)
           t == Append(s, line)
           F(q, k) == CHOOSE f : Runs(f, q, k)
<1>1. n \in Nat /\ Len(t) = n + 1 /\ t[n + 1] = line /\ \A i \in 1 .. n : s[i] = t[i]
  OBVIOUS
<1>2. Replay(s) = F(s, n)[n] /\ Replay(t) = F(t, n + 1)[n + 1]
  BY <1>1 DEF Replay, Runs
<1> HIDE DEF n, t
<1>3. Runs(F(s, n), s, n)
  BY <1>1, RunsExist
<1>4. Runs(F(t, n + 1), t, n + 1)
  BY <1>1, RunsExist
<1>5. PICK f : Runs(f, t, n)
  BY <1>1, RunsExist
<1>6. PICK g : Runs(g, t, n + 1) /\ g[n + 1] = ReplayEvent(f[n], t[n + 1])
  <2>1. Continued(f, t, n)
    BY <1>1, <1>5, RunsOn
  <2> QED BY <2>1 DEF Continued
<1> DEFINE a == F(s, n)
           b == F(t, n + 1)
<1> HIDE DEF F
<1>7. a[n] = f[n]
  BY <1>1, <1>3, <1>5, RunsAgree
<1>8. b[n + 1] = g[n + 1]
  BY <1>1, <1>4, <1>6, RunsAgree
<1> QED BY <1>1, <1>2, <1>6, <1>7, <1>8 DEF t

\* The replay of nothing.
LEMMA ReplayOfNothing == Replay(<<>>) = ReplayStart
<1>1. PICK f : Runs(f, <<>>, 0)
  BY RunsExist
<1> DEFINE a == CHOOSE g : Runs(g, <<>>, 0)
<1>2. Runs(a, <<>>, 0)
  BY <1>1
<1>3. Replay(<<>>) = a[0]
  BY DEF Replay, Runs
<1> HIDE DEF a
<1>4. a[0] = ReplayStart
  BY <1>2 DEF Runs
<1> QED BY <1>3, <1>4

\* The analyzer updates a valid candidate as train() does.
LEMMA ReplayLearns ==
  ASSUME NEW c \in Entry, c.valid, NEW key \in Key, NEW d \in Int
  PROVE  ReplayLearnt(c, key, d) = Learn(c, key, d)
<1> DEFINE agrees == c.key = key /\ c.delta = d
           weakens == c.key = key /\ ~agrees /\ c.confidence > 0
           x == IF agrees /\ c.confidence < CONFIDENCE_MAX THEN c.confidence + 1
                ELSE IF agrees THEN CONFIDENCE_MAX
                ELSE IF weakens THEN c.confidence - 1 ELSE 1
           y == IF agrees /\ c.confidence = CONFIDENCE_MAX THEN CONFIDENCE_MAX
                ELSE IF agrees THEN c.confidence + 1
                ELSE IF weakens THEN c.confidence - 1 ELSE 1
           z == IF weakens THEN c.delta ELSE d
           v == IF agrees \/ weakens THEN c.valid ELSE TRUE
<1>1. c.confidence \in 0 .. CONFIDENCE_MAX /\ c.valid \in BOOLEAN
  BY DEF Entry
<1>2. x = y
  BY <1>1, SizeAssumption
<1>3. v = TRUE
  BY <1>1
<1>4. ReplayLearnt(c, key, d) =
        [key |-> key, delta |-> z, age |-> MAX_AGE, confidence |-> x, valid |-> TRUE]
  BY DEF ReplayLearnt
<1>5. Learn(c, key, d) =
        [key |-> key, delta |-> z, age |-> MAX_AGE, confidence |-> y, valid |-> v]
  BY DEF Learn
<1> HIDE DEF x, y, z, v
<1> QED BY <1>2, <1>3, <1>4, <1>5

\* A replay that has the queue and the history of the front end.
Replaying(tb, reuses, insertions, evictions, reused) ==
  [table |-> tb, reuses |-> reuses, pending |-> pending, history |-> history,
   insertions |-> insertions, evictions |-> evictions, reused |-> reused]

\* The table of a replay after the training of this access.
ReplayTable(tb, line) ==
  LET p == Head(pending)
      b == BucketOf[p.key]
  IN  IF Due THEN [tb EXCEPT ![b] = ReplayLearnt(ReplayClaimed(tb[b], p.key), p.key, line - p.line)]
      ELSE tb

\* The replay of this access.
Replayed(tb, reuses, insertions, evictions, reused, line) ==
  LET p == Head(pending)
      old == tb[BucketOf[p.key]]
      evicts == Due /\ ReplayEvicts(old, p.key)
      key == FormedKey(line)
      e == ReplayTable(tb, line)[BucketOf[key]]
      hit == Formed(line) /\ e.valid /\ e.key = key
  IN  [table |-> ReplayTable(tb, line),
       reuses |-> IF hit THEN [reuses EXCEPT ![BucketOf[key]] = @ + 1] ELSE reuses,
       pending |-> NextPending(line), history |-> NextHistory(line),
       insertions |-> IF Due /\ ReplayInserts(old, p.key) THEN insertions + 1 ELSE insertions,
       evictions |-> IF evicts THEN evictions + 1 ELSE evictions,
       reused |-> IF evicts /\ reuses[BucketOf[p.key]] > 0 THEN reused + 1 ELSE reused]

\* The replay of an access has the queue and the history of the front end again.
LEMMA ReplayAccess ==
  ASSUME NEW tb, NEW reuses \in [Bucket -> Nat], NEW insertions, NEW evictions, NEW reused,
         NEW line
  PROVE  ReplayEvent(Replaying(tb, reuses, insertions, evictions, reused), line) =
           Replayed(tb, reuses, insertions, evictions, reused, line)
<1> DEFINE st == Replaying(tb, reuses, insertions, evictions, reused)
           p == Head(pending)
           b == BucketOf[p.key]
           old == tb[b]
           evicts == Due /\ ReplayEvicts(old, p.key)
           ins == IF Due /\ ReplayInserts(old, p.key) THEN insertions + 1 ELSE insertions
           evs == IF evicts THEN evictions + 1 ELSE evictions
           res == IF evicts /\ reuses[b] > 0 THEN reused + 1 ELSE reused
           T == ReplayTable(tb, line)
           q == IF Due THEN Tail(pending) ELSE pending
           u == IF Len(st.pending) >= HORIZON THEN ReplayTrain(st, line) ELSE st
           h == NextHistory(line)
           key == FormedKey(line)
           k == BucketOf[key]
           e == T[k]
           hit == Formed(line) /\ e.valid /\ e.key = key
           v == IF Formed(line) THEN [reuses EXCEPT ![k] = IF e.valid /\ e.key = key THEN @ + 1 ELSE @]
                ELSE reuses
<1>1. u = [table |-> T, reuses |-> reuses, pending |-> q, history |-> history,
           insertions |-> ins, evictions |-> evs, reused |-> res]
  <2> HIDE DEF h, key, k, e, hit, v
  <2>1. CASE Due
    <3> DEFINE X == [tb EXCEPT ![b] = ReplayLearnt(ReplayClaimed(old, p.key), p.key, line - p.line)]
               in == IF ReplayInserts(old, p.key) THEN insertions + 1 ELSE insertions
               ev == IF ReplayEvicts(old, p.key) THEN evictions + 1 ELSE evictions
               re == IF ReplayEvicts(old, p.key) /\ reuses[b] > 0 THEN reused + 1 ELSE reused
    <3>1. u = ReplayTrain(st, line)
      BY <2>1 DEF Replaying, Due
    <3>2. ReplayTrain(st, line) =
            [table |-> X, reuses |-> reuses, pending |-> Tail(pending), history |-> history,
             insertions |-> in, evictions |-> ev, reused |-> re]
      <4>1. /\ st.table = tb /\ st.pending = pending /\ st.reuses = reuses
            /\ st.insertions = insertions /\ st.evictions = evictions /\ st.reused = reused
        BY DEF Replaying
      <4>2. ReplayTrain(st, line) =
              [st EXCEPT !.table = X, !.insertions = in, !.evictions = ev, !.reused = re,
                         !.pending = Tail(pending)]
        <5> HIDE DEF st
        <5> QED BY <4>1 DEF ReplayTrain
      <4> HIDE DEF X, in, ev, re
      <4> QED BY <4>2 DEF Replaying
    <3>3. T = X /\ q = Tail(pending) /\ ins = in /\ evs = ev /\ res = re
      BY <2>1 DEF ReplayTable
    <3> HIDE DEF X, in, ev, re, T, q, ins, evs, res, u
    <3> QED BY <3>1, <3>2, <3>3
  <2>2. CASE ~Due
    BY <2>2 DEF Replaying, ReplayTable, Due
  <2> QED BY <2>1, <2>2
<1>2. h = Remember(history, line) /\ (Formed(line) <=> Len(h) = CONTEXT_DEPTH)
      /\ key = ContextHash[h]
  BY DEF NextHistory, Formed, FormedKey
<1>3. NextPending(line) = IF Formed(line) THEN Append(q, [key |-> key, line |-> line]) ELSE q
  BY DEF NextPending
<1>4. ReplayEvent(st, line) =
        IF Len(Remember(u.history, line)) # CONTEXT_DEPTH
          THEN [u EXCEPT !.history = Remember(u.history, line)]
          ELSE [u EXCEPT
                  !.history = Remember(u.history, line),
                  !.reuses[BucketOf[ContextHash[Remember(u.history, line)]]] =
                     IF /\ u.table[BucketOf[ContextHash[Remember(u.history, line)]]].valid
                        /\ u.table[BucketOf[ContextHash[Remember(u.history, line)]]].key
                             = ContextHash[Remember(u.history, line)]
                     THEN @ + 1 ELSE @,
                  !.pending = Append(@, [key |-> ContextHash[Remember(u.history, line)],
                                         line |-> line])]
  BY DEF ReplayEvent
<1> HIDE DEF st, u, T, q, ins, evs, res, h, key
<1>5. ReplayEvent(st, line) =
        [table |-> T, reuses |-> v, pending |-> NextPending(line), history |-> h,
         insertions |-> ins, evictions |-> evs, reused |-> res]
  <2>1. u.history = history
    BY <1>1
  <2>2. CASE Formed(line)
    <3> DEFINE c == [key |-> key, line |-> line]
               more == IF e.valid /\ e.key = key THEN reuses[k] + 1 ELSE reuses[k]
    <3>1. ReplayEvent(st, line) =
            [u EXCEPT !.history = h,
                      !.reuses[k] = IF e.valid /\ e.key = key THEN @ + 1 ELSE @,
                      !.pending = Append(@, c)]
      BY <1>1, <1>2, <1>4, <2>1, <2>2
    <3>2. v = [reuses EXCEPT ![k] = more] /\ NextPending(line) = Append(q, c)
      BY <1>3, <2>2
    <3> HIDE DEF c, k, e, v
    <3>3. u.reuses = reuses /\ u.pending = q
      BY <1>1
    <3>4. ReplayEvent(st, line) =
            [u EXCEPT !.history = h, !.reuses = v, !.pending = Append(q, c)]
      BY <3>1, <3>2, <3>3
    <3> HIDE DEF more
    <3> QED BY <1>1, <3>2, <3>4
  <2>3. CASE ~Formed(line)
    BY <1>1, <1>2, <1>3, <1>4, <2>1, <2>3
  <2> QED BY <2>2, <2>3
<1>6. v = IF hit THEN [reuses EXCEPT ![k] = @ + 1] ELSE reuses
  <2>1. [reuses EXCEPT ![k] = reuses[k]] = reuses
    OBVIOUS
  <2> HIDE DEF e, k
  <2> QED BY <2>1
<1> HIDE DEF v
<1> QED BY <1>5, <1>6 DEF Replayed, st, T, h, ins, evs, res, key
================================================================================
