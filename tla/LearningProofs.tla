----------------------------- MODULE LearningProofs -----------------------------
(***************************************************************************)
(* What the predictors' tables hold and how they are scored, for any       *)
(* trace, depth, horizon, table size and limits: the scores add up, the    *)
(* counts are occurrences, a hashed bucket holds what fell into it, a      *)
(* bounded table never says more than the trace, pruning hides no answer,  *)
(* and the oracles that count in one pass agree with the predictors that   *)
(* learn line by line.                                                     *)
(***************************************************************************)
EXTENDS Learning, FiniteSetTheorems, FunctionTheorems, SequenceTheorems, WellFoundedInduction, TLAPS

--------------------------------------------------------------------------------
\* The dictionary and the queue of the bounded table stay in step.

\* A counter is never reset and never passes its width.
LEMMA SaturatedType == \A v \in 0 .. CounterMax : Saturated(v) \in 1 .. CounterMax
BY BoundedTableAssumption DEF Saturated

\* One more observation of a target keeps all counters of a key in range.
LEMMA CountedTargetType ==
  ASSUME NEW seen, NEW target,
         \A t \in DOMAIN seen : seen[t] \in 1 .. CounterMax
  PROVE  LET counted == CountedTarget(seen, target)
         IN  \A t \in DOMAIN counted : counted[t] \in 1 .. CounterMax
<1> DEFINE before == IF target \in DOMAIN seen THEN seen[target] ELSE 0
<1>1. before \in 0 .. CounterMax
  BY BoundedTableAssumption
<1>2. Saturated(before) \in 1 .. CounterMax
  BY <1>1, SaturatedType
<1>3. CountedTarget(seen, target) =
        [t \in DOMAIN seen \cup {target} |->
           IF t # target THEN seen[t] ELSE Saturated(before)]
  BY DEF CountedTarget
<1> HIDE DEF before
<1> QED BY <1>2, <1>3

\* As many keys in the dictionary as in the queue.
LEMMA SameSize ==
  ASSUME NEW table, NEW K, table.order \in Seq(K), InStep(table)
  PROVE  /\ IsFiniteSet(DOMAIN table.counts)
         /\ Cardinality(DOMAIN table.counts) = Len(table.order)
<1> DEFINE q == table.order
           n == Len(q)
           D == DOMAIN table.counts
<1>1. n \in Nat /\ q = [i \in 1 .. n |-> q[i]]
  OBVIOUS
<1>2. /\ \A i, j \in 1 .. n : q[i] = q[j] => i = j
      /\ \A i \in 1 .. n : q[i] \in D
      /\ \A k \in D : \E i \in 1 .. n : q[i] = k
  BY DEF InStep
<1>3. q \in Surjection(1 .. n, D) /\ q \in Injection(1 .. n, D)
  <2> HIDE DEF n, D
  <2>1. q \in [1 .. n -> D]
    BY <1>1, <1>2
  <2> QED BY <1>1, <1>2, <2>1 DEF Surjection, Injection, IsInjective
<1>4. IsFiniteSet(1 .. n) /\ Cardinality(1 .. n) = n
  <2> HIDE DEF n
  <2> QED BY <1>1, FS_Interval
<1> HIDE DEF q, n, D
<1>5. IsFiniteSet(D) /\ Cardinality(D) = Cardinality(1 .. n)
  BY <1>3, <1>4, FS_Surjection
<1> QED BY <1>4, <1>5 DEF q, n, D

\* Making room takes the oldest key out of both, or nothing out of either.
LEMMA MadeRoomInStep ==
  ASSUME NEW table, NEW K, table.order \in Seq(K), InStep(table), NEW key
  PROVE  LET room == MadeRoom(table, key)
         IN  /\ room.order \in Seq(K)
             /\ InStep(room)
             /\ key \notin DOMAIN room.counts => Len(room.order) < EntryLimit
<1> DEFINE q == table.order
           n == Len(q)
           D == DOMAIN table.counts
           room == MadeRoom(table, key)
<1>1. /\ \A i, j \in 1 .. n : q[i] = q[j] => i = j
      /\ \A i \in 1 .. n : q[i] \in D
      /\ \A k \in D : \E i \in 1 .. n : q[i] = k
      /\ n <= EntryLimit
      /\ \A k \in D : \A t \in DOMAIN table.counts[k] : table.counts[k][t] \in 1 .. CounterMax
  BY DEF InStep
<1>2. Cardinality(D) = n /\ n \in Nat /\ EntryLimit \in Nat /\ EntryLimit > 0
  BY SameSize, BoundedTableAssumption
<1>3. CASE ~Full(table, key)
  <2>1. room = table
    BY <1>3 DEF MadeRoom
  <2>2. key \notin D => n < EntryLimit
    <3>1. key \notin D => ~(Cardinality(D) >= EntryLimit)
      BY <1>3 DEF Full
    <3> HIDE DEF D, n
    <3> QED BY <1>2, <3>1
  <2> QED BY <2>1, <2>2
<1>4. CASE Full(table, key)
  <2>1. n >= EntryLimit /\ n >= 1
    <3>1. Cardinality(D) >= EntryLimit
      BY <1>4 DEF Full
    <3> HIDE DEF D, n
    <3> QED BY <1>2, <3>1
  <2>2. /\ Tail(q) \in Seq(K) /\ Len(Tail(q)) = n - 1 /\ Head(q) = q[1]
        /\ \A i \in 1 .. n - 1 : Tail(q)[i] = q[i + 1]
    <3>1. q \in Seq(K) /\ q # <<>>
      BY <2>1
    <3> QED BY <3>1
  <2>3. /\ room.order = Tail(q)
        /\ room.counts = [k \in D \ {q[1]} |-> table.counts[k]]
    BY <1>4, <2>2 DEF MadeRoom
  <2> HIDE DEF q, n, D, room
  <2>4. \A i, j \in 1 .. n - 1 : Tail(q)[i] = Tail(q)[j] => i = j
    BY <1>1, <1>2, <2>2
  <2>5. /\ \A i \in 1 .. n - 1 : Tail(q)[i] \in D \ {q[1]}
        /\ \A k \in D \ {q[1]} : \E i \in 1 .. n - 1 : Tail(q)[i] = k
    <3>1. ASSUME NEW i \in 1 .. n - 1 PROVE Tail(q)[i] \in D \ {q[1]}
      <4>1. i + 1 \in 1 .. n /\ 1 \in 1 .. n /\ i + 1 # 1
        BY <1>2
      <4>2. q[i + 1] \in D /\ q[i + 1] # q[1]
        BY <1>1, <4>1
      <4> QED BY <2>2, <4>2
    <3>2. ASSUME NEW k \in D \ {q[1]} PROVE \E i \in 1 .. n - 1 : Tail(q)[i] = k
      <4>1. PICK i \in 1 .. n : q[i] = k
        BY <1>1, <3>2
      <4>2. i # 1
        BY <3>2, <4>1
      <4>3. i - 1 \in 1 .. n - 1 /\ (i - 1) + 1 = i
        BY <1>2, <4>2
      <4>4. Tail(q)[i - 1] = k
        BY <2>2, <4>1, <4>3
      <4> QED BY <4>3, <4>4
    <3> QED BY <3>1, <3>2
  <2>6. \A k \in D \ {q[1]} : \A t \in DOMAIN room.counts[k] :
          room.counts[k][t] \in 1 .. CounterMax
    BY <1>1, <2>3
  <2>7. InStep(room)
    <3>1. Len(room.order) = n - 1 /\ DOMAIN room.counts = D \ {q[1]}
      BY <2>2, <2>3
    <3>2. n - 1 <= EntryLimit
      BY <1>1, <1>2
    <3>3. \A i, j \in 1 .. Len(room.order) : room.order[i] = room.order[j] => i = j
      BY <2>3, <2>4, <3>1
    <3>4. /\ \A i \in 1 .. Len(room.order) : room.order[i] \in DOMAIN room.counts
          /\ \A k \in DOMAIN room.counts : \E i \in 1 .. Len(room.order) : room.order[i] = k
      BY <2>3, <2>5, <3>1
    <3>5. Len(room.order) <= EntryLimit
      BY <3>1, <3>2
    <3> QED BY <2>6, <3>1, <3>3, <3>4, <3>5, Zenon DEF InStep
  <2>8. Len(room.order) < EntryLimit
    BY <1>1, <1>2, <2>2, <2>3
  <2> QED BY <2>2, <2>3, <2>7, <2>8 DEF room
<1> QED BY <1>3, <1>4

\* fit() keeps the dictionary and the queue in step: the key that makes room is
\* the oldest in both, the key that comes is the newest in both, there are never
\* more than EntryLimit, and no counter passes its width.
THEOREM InsertedInStep ==
  ASSUME NEW table, NEW K, table.order \in Seq(K), InStep(table),
         NEW key \in K, NEW target
  PROVE  /\ Inserted(table, key, target).order \in Seq(K)
         /\ InStep(Inserted(table, key, target))
<1> DEFINE room == MadeRoom(table, key)
           q == room.order
           n == Len(q)
           D == DOMAIN room.counts
           seen == IF key \in D THEN room.counts[key] ELSE <<>>
           counted == CountedTarget(seen, target)
           new == Inserted(table, key, target)
<1>1. /\ q \in Seq(K) /\ InStep(room) /\ n \in Nat
      /\ key \notin D => n < EntryLimit
  BY MadeRoomInStep
<1>2. /\ \A i, j \in 1 .. n : q[i] = q[j] => i = j
      /\ \A i \in 1 .. n : q[i] \in D
      /\ \A k \in D : \E i \in 1 .. n : q[i] = k
      /\ n <= EntryLimit
      /\ \A k \in D : \A t \in DOMAIN room.counts[k] : room.counts[k][t] \in 1 .. CounterMax
  BY <1>1 DEF InStep
<1>3. \A t \in DOMAIN counted : counted[t] \in 1 .. CounterMax
  <2>1. \A t \in DOMAIN seen : seen[t] \in 1 .. CounterMax
    <3>1. CASE key \in D
      BY <1>2, <3>1
    <3>2. CASE key \notin D
      BY <3>2
    <3> QED BY <3>1, <3>2
  <2> HIDE DEF seen
  <2> QED BY <2>1, CountedTargetType
<1>4. /\ new.counts = [k \in D \cup {key} |-> IF k = key THEN counted ELSE room.counts[k]]
      /\ new.order = IF key \in D THEN q ELSE Append(q, key)
  BY DEF Inserted
<1> HIDE DEF new, counted, seen, room
<1>5. /\ DOMAIN new.counts = D \cup {key}
      /\ \A k \in D \cup {key} : \A t \in DOMAIN new.counts[k] :
           new.counts[k][t] \in 1 .. CounterMax
  BY <1>2, <1>3, <1>4
<1>6. CASE key \in D
  <2>1. new.order = q /\ DOMAIN new.counts = D
    BY <1>4, <1>5, <1>6
  <2> HIDE DEF q, n, D
  <2>2. Len(new.order) = n
    BY <2>1 DEF n
  <2>3. InStep(new)
    BY <1>2, <1>5, <1>6, <2>1, <2>2 DEF InStep
  <2> QED BY <1>1, <2>1, <2>3 DEF new
<1>7. CASE key \notin D
  <2>1. new.order = Append(q, key)
    BY <1>4, <1>7
  <2>2. /\ Append(q, key) \in Seq(K) /\ Len(Append(q, key)) = n + 1
        /\ \A i \in 1 .. n + 1 : Append(q, key)[i] = IF i = n + 1 THEN key ELSE q[i]
    BY <1>1
  <2> HIDE DEF q, n, D
  <2> DEFINE r == new.order
  <2>3. r \in Seq(K) /\ Len(r) = n + 1 /\ \A i \in 1 .. n + 1 : r[i] = IF i = n + 1 THEN key ELSE q[i]
    BY <2>1, <2>2
  <2> HIDE DEF r
  <2>4. \A i, j \in 1 .. n + 1 : r[i] = r[j] => i = j
    <3> SUFFICES ASSUME NEW i \in 1 .. n + 1, NEW j \in 1 .. n + 1, r[i] = r[j]
        PROVE  i = j
      OBVIOUS
    <3>1. \A k \in 1 .. n : q[k] # key
      BY <1>2, <1>7
    <3>2. \A k \in 1 .. n + 1 : k # n + 1 => k \in 1 .. n
      BY <1>1
    <3> QED BY <1>2, <2>3, <3>1, <3>2
  <2>5. \A i \in 1 .. n + 1 : r[i] \in D \cup {key}
    <3>1. \A k \in 1 .. n + 1 : k # n + 1 => k \in 1 .. n
      BY <1>1
    <3> QED BY <1>2, <2>3, <3>1
  <2>6. \A k \in D \cup {key} : \E i \in 1 .. n + 1 : r[i] = k
    <3> SUFFICES ASSUME NEW k \in D \cup {key} PROVE \E i \in 1 .. n + 1 : r[i] = k
      OBVIOUS
    <3>1. CASE k = key
      <4>1. n + 1 \in 1 .. n + 1
        BY <1>1
      <4> QED BY <2>3, <3>1, <4>1
    <3>2. CASE k \in D
      <4>1. PICK i \in 1 .. n : q[i] = k
        BY <1>2, <3>2
      <4>2. i \in 1 .. n + 1 /\ i # n + 1
        BY <1>1
      <4> QED BY <2>3, <4>1, <4>2
    <3> QED BY <3>1, <3>2
  <2>7. n + 1 <= EntryLimit
    BY <1>1, <1>7, BoundedTableAssumption
  <2>8. InStep(new)
    BY <1>5, <2>3, <2>4, <2>5, <2>6, <2>7 DEF InStep, r
  <2> QED BY <2>3, <2>8 DEF r, new
<1> QED BY <1>6, <1>7

--------------------------------------------------------------------------------
\* The scores: how many questions each predictor was asked, and who was right.

\* A nonempty set of numbers with a bound has a greatest one.
LEMMA MaxIs ==
  ASSUME NEW n \in Nat, NEW S \in SUBSET (0 .. n), S # {}
  PROVE  Max(S) \in S /\ \A x \in S : x <= Max(S)
<1> DEFINE R == OpToRel(<, Nat)
           U == {n - x : x \in S}
<1>1. \A x, y \in Nat : x < y => <<x, y>> \in R
  BY DEF OpToRel
<1>2. IsWellFoundedOn(R, Nat)
  BY NatLessThanWellFounded, Zenon
<1>3. U \subseteq Nat /\ U # {}
  <2>1. \A x \in S : n - x \in Nat
    OBVIOUS
  <2> QED BY <2>1
<1> HIDE DEF R
<1>4. \E u \in U : \A v \in U : ~ (<<v, u>> \in R)
  <2> HIDE DEF U
  <2> QED BY <1>2, <1>3, WFMin
<1>5. PICK u \in U : \A v \in U : ~ (v < u)
  BY <1>1, <1>3, <1>4
<1>6. PICK m \in S : u = n - m
  OBVIOUS
<1>7. \A x \in S : m >= x
  <2> SUFFICES ASSUME NEW x \in S PROVE m >= x
    OBVIOUS
  <2>1. n - x \in U
    OBVIOUS
  <2>2. m \in 0 .. n /\ x \in 0 .. n
    OBVIOUS
  <2> QED BY <2>1, <2>2, <1>5, <1>6
<1>8. Max(S) \in S /\ \A x \in S : Max(S) >= x
  BY <1>7 DEF Max
<1> QED BY <1>8

\* The larger of 0 and a number.
LEMMA MaxOfTwo ==
  ASSUME NEW i \in Int
  PROVE  Max({0, i}) = IF i > 0 THEN i ELSE 0
<1>1. CASE i > 0
  <2>1. i >= 0 /\ i >= i
    BY <1>1
  <2>2. \A x \in {0, i} : (\A y \in {0, i} : x >= y) => x = i
    BY <1>1
  <2>3. Max({0, i}) \in {0, i} /\ \A y \in {0, i} : Max({0, i}) >= y
    BY <2>1 DEF Max
  <2> QED BY <1>1, <2>2, <2>3
<1>2. CASE ~ (i > 0)
  <2>1. 0 >= 0 /\ 0 >= i
    BY <1>2
  <2>2. \A x \in {0, i} : (\A y \in {0, i} : x >= y) => x = 0
    BY <1>2
  <2>3. Max({0, i}) \in {0, i} /\ \A y \in {0, i} : Max({0, i}) >= y
    BY <2>1 DEF Max
  <2> QED BY <1>2, <2>2, <2>3
<1> QED BY <1>1, <1>2

\* The recent lines.
LEMMA RecentIs ==
  ASSUME NEW T, NEW s \in Seq(T), NEW n \in Nat
  PROVE  /\ Recent(s, n) \in Seq(T)
         /\ Len(Recent(s, n)) = IF Len(s) <= n THEN Len(s) ELSE n
         /\ \A i \in 1 .. Len(Recent(s, n)) : Recent(s, n)[i] = s[Len(s) - Len(Recent(s, n)) + i]
<1> DEFINE l == Len(s)
<1>1. l \in Nat
  OBVIOUS
<1>2. CASE l <= n
  BY <1>2 DEF Recent
<1>3. CASE ~ (l <= n)
  <2>1. Recent(s, n) = SubSeq(s, l - n + 1, l)
    BY <1>3 DEF Recent
  <2>2. /\ l - n + 1 \in 1 .. l + 1 /\ l \in 0 .. l /\ l - n + 1 \in Int
        /\ \A i \in l - n + 1 .. l : i \in 1 .. l
    BY <1>1, <1>3
  <2>3. Len(SubSeq(s, l - n + 1, l)) = n /\ SubSeq(s, l - n + 1, l) \in Seq(T)
    BY <1>1, <1>3, <2>2
  <2>4. \A i \in 1 .. n : SubSeq(s, l - n + 1, l)[i] = s[l - n + i]
    BY <1>1, <1>3, <2>2
  <2> QED BY <1>3, <2>1, <2>3, <2>4
<1> QED BY <1>2, <1>3

\* A match is at most as deep as the context is long.
LEMMA MatchedIs ==
  ASSUME NEW T, NEW context \in Seq(T), NEW trie
  PROVE  MatchedDepth(trie, context, Depth, 1, FALSE) \in 0 .. Len(Recent(context, Depth))
<1> DEFINE requested == Len(Recent(context, Depth))
           known == {n \in (1 .. requested) \ {0} :
                       /\ At(trie, Recent(context, n)) # EmptyBag
                       /\ Total(At(trie, Recent(context, n))) >= 1}
<1>1. requested \in Nat
  BY RecentIs, PredictorsAssumption
<1>2. MatchedDepth(trie, context, Depth, 1, FALSE) = IF known = {} THEN 0 ELSE Max(known)
  BY DEF MatchedDepth
<1>3. known \subseteq 0 .. requested
  <2> HIDE DEF requested
  <2> QED BY <1>1
<1> HIDE DEF known, requested
<1>4. known # {} => Max(known) \in known
  BY <1>1, <1>3, MaxIs
<1>5. (IF known = {} THEN 0 ELSE Max(known)) \in 0 .. requested
  <2>1. 0 \in 0 .. requested
    BY <1>1
  <2> QED BY <1>3, <1>4, <2>1, Zenon
<1> QED BY <1>2, <1>5 DEF requested

\* Forecasts and counts of them.
Tally == [asked : Nat, right : Nat]

\* The state of an evaluation: once frozen it has learnt something, and until
\* then it has evaluated nothing.
ScoreTypeOK ==
  /\ train \in Seq(Line) /\ evaluation \in Seq(Line) /\ frozen \in BOOLEAN
  /\ frozen => train # <<>>
  /\ ~ frozen => evaluation = <<>>
  /\ score \in [Near \cup Far -> Tally]
  /\ reuse \in [exact : Nat, fallback : Nat, unseen : Nat]
  /\ dispute \in [same : Nat, different : Nat, only_gmc : Nat, only_wam : Nat,
                  gmc_wins : Nat, wam_wins : Nat, both_wrong : Nat]

\* How many forecasts at the horizon have been judged.
Judged(n) == IF n >= Horizon THEN n - Horizon ELSE 0

\* How the counters bound each other after n scored lines.
Accounts(n) ==
  /\ \A p \in Near : score[p].right <= score[p].asked /\ score[p].asked <= n
  /\ \A p \in Far : score[p].right <= score[p].asked /\ score[p].asked <= Judged(n)
  /\ reuse.exact + reuse.fallback + reuse.unseen = n
  /\ dispute.same + dispute.different + dispute.only_gmc + dispute.only_wam <= Judged(n)
  /\ dispute.gmc_wins + dispute.wam_wins <= dispute.different

\* The inductive invariant of the scores.
ScoreInv == ScoreTypeOK /\ Accounts(Len(evaluation))

\* The inductive invariant says what ScoresAccounted states.
LEMMA AccountsAre ==
  ASSUME ScoreInv PROVE ScoresAccounted
<1> DEFINE n == Len(evaluation)
<1>1. n \in Nat /\ Horizon \in Nat \ {0}
  BY PredictorsAssumption DEF ScoreInv, ScoreTypeOK
<1>2. Max({0, n - Horizon}) = Judged(n)
  <2>1. n - Horizon \in Int
    BY <1>1
  <2> HIDE DEF n
  <2>2. Max({0, n - Horizon}) = IF n - Horizon > 0 THEN n - Horizon ELSE 0
    BY <2>1, MaxOfTwo
  <2> QED BY <1>1, <2>2 DEF Judged
<1> QED BY <1>2 DEF ScoreInv, Accounts, ScoresAccounted

\* A tally is of what was asked, and grows by one at most.
LEMMA ScoredIs ==
  ASSUME NEW old \in Tally, NEW forecast, NEW line, old.right <= old.asked
  PROVE  /\ Scored(old, forecast, line) \in Tally
         /\ Scored(old, forecast, line).right <= Scored(old, forecast, line).asked
         /\ Scored(old, forecast, line).asked <= old.asked + 1
<1> DEFINE a == IF forecast # {} THEN 1 ELSE 0
           r == IF line \in forecast THEN 1 ELSE 0
<1>1. a \in 0 .. 1 /\ r \in 0 .. 1 /\ r <= a
  OBVIOUS
<1>2. Scored(old, forecast, line) = [asked |-> old.asked + a, right |-> old.right + r]
  BY DEF Scored
<1> HIDE DEF a, r
<1> QED BY <1>1, <1>2 DEF Tally

\* A comparison goes to one column at most, and a win is a disagreement.
Disputes ==
  [same : Nat, different : Nat, only_gmc : Nat, only_wam : Nat,
   gmc_wins : Nat, wam_wins : Nat, both_wrong : Nat]

\* One disagreement between the two rules is won by one of them or by none.
LEMMA DisputedIs ==
  ASSUME NEW old \in Disputes, NEW gmc, NEW wam, NEW line,
         old.gmc_wins + old.wam_wins <= old.different
  PROVE  LET new == Disputed(old, gmc, wam, line)
         IN  /\ new \in Disputes
             /\ new.gmc_wins + new.wam_wins <= new.different
             /\ new.same + new.different + new.only_gmc + new.only_wam
                  <= old.same + old.different + old.only_gmc + old.only_wam + 1
<1> DEFINE both == gmc # {} /\ wam # {}
           s == IF both /\ gmc = wam THEN 1 ELSE 0
           d == IF both /\ gmc # wam THEN 1 ELSE 0
           og == IF ~both /\ gmc # {} THEN 1 ELSE 0
           ow == IF ~both /\ wam # {} THEN 1 ELSE 0
           ww == IF both /\ line \in wam /\ line \notin gmc THEN 1 ELSE 0
           gw == IF both /\ line \in gmc /\ line \notin wam THEN 1 ELSE 0
           bw == IF both /\ line \notin wam \cup gmc THEN 1 ELSE 0
<1>1. /\ s \in 0 .. 1 /\ d \in 0 .. 1 /\ og \in 0 .. 1 /\ ow \in 0 .. 1
      /\ ww \in 0 .. 1 /\ gw \in 0 .. 1 /\ bw \in 0 .. 1
  OBVIOUS
<1>2. gw + ww <= d
  OBVIOUS
<1>3. s + d + og + ow <= 1
  OBVIOUS
<1>4. Disputed(old, gmc, wam, line) =
        [same |-> old.same + s, different |-> old.different + d, only_gmc |-> old.only_gmc + og,
         only_wam |-> old.only_wam + ow, wam_wins |-> old.wam_wins + ww,
         gmc_wins |-> old.gmc_wins + gw, both_wrong |-> old.both_wrong + bw]
  BY DEF Disputed
<1> HIDE DEF both, s, d, og, ow, ww, gw, bw
<1> QED BY <1>1, <1>2, <1>3, <1>4 DEF Disputes

\* One line of the evaluation is one more.
LEMMA JudgedNext ==
  ASSUME NEW n \in Nat
  PROVE  /\ Judged(n) \in Nat
         /\ Judged(n + 1) = IF n + 1 - Horizon < 1 THEN Judged(n) ELSE Judged(n) + 1
BY PredictorsAssumption DEF Judged

\* A scored line keeps the accounts of every predictor.
LEMMA DemandScores ==
  ASSUME ScoreInv, NEW line \in Line, Demand(line)
  PROVE  ScoreInv'
<1>0. PICK n \in Nat : n = Len(evaluation)
  <2>1. Len(evaluation) \in Nat
    BY DEF ScoreInv, ScoreTypeOK
  <2> QED BY <2>1
<1> DEFINE known == train \o evaluation
           at == n + 1 - Horizon
           context == train \o SubSeq(evaluation, 1, at)
           before == train \o SubSeq(evaluation, 1, at - 1)
           short == Recent(before, Depth)
           requested == Len(Recent(known, Depth))
           matched == MatchedDepth(model.trie, known, Depth, 1, FALSE)
<1>1. /\ train \in Seq(Line) /\ evaluation \in Seq(Line) /\ train # <<>>
      /\ frozen = TRUE /\ n \in Nat /\ Horizon \in Nat \ {0} /\ Depth \in Nat \ {0}
  BY PredictorsAssumption DEF ScoreInv, ScoreTypeOK, Demand
<1>2. evaluation' = Append(evaluation, line) /\ UNCHANGED <<train, frozen>>
  BY DEF Demand
<1>3. Len(evaluation') = n + 1 /\ evaluation' \in Seq(Line)
  BY <1>0, <1>1, <1>2
<1>4. requested \in Nat /\ requested # 0
  <2>1. known \in Seq(Line) /\ Len(known) = Len(train) + n /\ Len(train) \in Nat /\ Len(train) # 0
    BY <1>0, <1>1
  <2> HIDE DEF known
  <2> QED BY <1>1, <2>1, RecentIs
<1>5. matched \in 0 .. requested
  <2>1. known \in Seq(Line)
    BY <1>1
  <2> HIDE DEF known
  <2> QED BY <2>1, MatchedIs DEF requested
<1>6. ScoreTypeOK /\ Accounts(n) /\ Len(evaluation) = n
  BY <1>0 DEF ScoreInv
<1>7. score' = [p \in Near \cup Far |->
                  IF p \in Near THEN Scored(score[p], NearForecast(p, known), line)
                  ELSE IF at < 1 THEN score[p]
                  ELSE Scored(score[p], FarForecast(p, before, context), line)]
  BY <1>0 DEF Demand
<1>8. reuse' = [exact    |-> reuse.exact + (IF matched = requested THEN 1 ELSE 0),
                fallback |-> reuse.fallback + (IF matched \in 1 .. requested - 1 THEN 1 ELSE 0),
                unseen   |-> reuse.unseen + (IF matched = 0 THEN 1 ELSE 0)]
  BY <1>0 DEF Demand
<1>9. dispute' = IF at < 1 THEN dispute
                 ELSE Disputed(dispute, DeltaForecast(model.gmc, short, FALSE),
                               WAMForecast(model.direct, short, Plain, 1), line)
  BY <1>0 DEF Demand
<1>10. /\ Judged(n) \in Nat
       /\ Judged(n + 1) = IF at < 1 THEN Judged(n) ELSE Judged(n) + 1
  BY <1>1, JudgedNext
<1> HIDE DEF known, at, context, before, short, requested, matched
<1>11. /\ score \in [Near \cup Far -> Tally] /\ reuse \in [exact : Nat, fallback : Nat, unseen : Nat]
       /\ dispute \in Disputes
  BY <1>6 DEF ScoreTypeOK, Disputes
<1>12. /\ \A p \in Near : /\ score'[p] \in Tally
                         /\ score'[p].right <= score'[p].asked /\ score'[p].asked <= n + 1
       /\ \A p \in Far : /\ score'[p] \in Tally
                        /\ score'[p].right <= score'[p].asked
                        /\ score'[p].asked <= Judged(n + 1)
  <2>1. \A p \in Near \cup Far : /\ score[p] \in Tally /\ score[p].right <= score[p].asked
                               /\ score[p].asked \in Nat /\ score[p].asked + 1 \in Nat
    BY <1>6, <1>11 DEF Accounts, Tally
  <2>2. ASSUME NEW p \in Near
        PROVE  /\ score'[p] \in Tally
               /\ score'[p].right <= score'[p].asked /\ score'[p].asked <= n + 1
    <3>1. score'[p] = Scored(score[p], NearForecast(p, known), line)
      BY <1>7
    <3>2. /\ score'[p] \in Tally /\ score'[p].right <= score'[p].asked
          /\ score'[p].asked <= score[p].asked + 1
      BY <2>1, <3>1, ScoredIs
    <3>3. score[p].asked <= n
      BY <1>6 DEF Accounts
    <3>4. score'[p].asked \in Nat
      BY <3>2 DEF Tally
    <3> QED BY <1>1, <2>1, <3>2, <3>3, <3>4
  <2>3. ASSUME NEW p \in Far
        PROVE  /\ score'[p] \in Tally
               /\ score'[p].right <= score'[p].asked /\ score'[p].asked <= Judged(n + 1)
    <3>1. p \notin Near
      BY DEF Near, Far
    <3>2. score[p].asked <= Judged(n)
      BY <1>6 DEF Accounts
    <3>3. CASE at < 1
      <4>1. score'[p] = score[p]
        BY <1>7, <3>1, <3>3
      <4> QED BY <1>10, <2>1, <3>2, <3>3, <4>1
    <3>4. CASE ~ (at < 1)
      <4>1. score'[p] = Scored(score[p], FarForecast(p, before, context), line)
        BY <1>7, <3>1, <3>4
      <4>2. /\ score'[p] \in Tally /\ score'[p].right <= score'[p].asked
            /\ score'[p].asked <= score[p].asked + 1
        BY <2>1, <4>1, ScoredIs
      <4>3. score'[p].asked \in Nat
        BY <4>2 DEF Tally
      <4> QED BY <1>10, <2>1, <3>2, <3>4, <4>2, <4>3
    <3> QED BY <3>3, <3>4
  <2> QED BY <2>2, <2>3
<1>13. /\ reuse' \in [exact : Nat, fallback : Nat, unseen : Nat]
       /\ reuse'.exact + reuse'.fallback + reuse'.unseen = n + 1
  <2> DEFINE e == IF matched = requested THEN 1 ELSE 0
             f == IF matched \in 1 .. requested - 1 THEN 1 ELSE 0
             u == IF matched = 0 THEN 1 ELSE 0
  <2>1. e \in Nat /\ f \in Nat /\ u \in Nat /\ e + f + u = 1
    BY <1>4, <1>5
  <2>2. reuse' = [exact |-> reuse.exact + e, fallback |-> reuse.fallback + f,
                  unseen |-> reuse.unseen + u]
    BY <1>8
  <2>3. reuse.exact + reuse.fallback + reuse.unseen = n
    BY <1>6 DEF Accounts
  <2>4. reuse.exact \in Nat /\ reuse.fallback \in Nat /\ reuse.unseen \in Nat
    BY <1>11
  <2> HIDE DEF e, f, u
  <2>5. (reuse.exact + e) + (reuse.fallback + f) + (reuse.unseen + u) = n + 1
    BY <2>1, <2>3, <2>4
  <2> QED BY <2>1, <2>2, <2>4, <2>5
<1>14. /\ dispute' \in Disputes
       /\ dispute'.gmc_wins + dispute'.wam_wins <= dispute'.different
       /\ dispute'.same + dispute'.different + dispute'.only_gmc + dispute'.only_wam
            <= Judged(n + 1)
  <2>1. /\ dispute.gmc_wins + dispute.wam_wins <= dispute.different
        /\ dispute.same + dispute.different + dispute.only_gmc + dispute.only_wam <= Judged(n)
    BY <1>6 DEF Accounts
  <2>2. CASE at < 1
    BY <1>9, <1>10, <1>11, <2>1, <2>2
  <2>3. CASE ~ (at < 1)
    <3> DEFINE gmc == DeltaForecast(model.gmc, short, FALSE)
               wam == WAMForecast(model.direct, short, Plain, 1)
    <3>1. dispute' = Disputed(dispute, gmc, wam, line)
      BY <1>9, <2>3
    <3> HIDE DEF gmc, wam
    <3>2. /\ dispute' \in Disputes
          /\ dispute'.gmc_wins + dispute'.wam_wins <= dispute'.different
          /\ dispute'.same + dispute'.different + dispute'.only_gmc + dispute'.only_wam
               <= dispute.same + dispute.different + dispute.only_gmc + dispute.only_wam + 1
      BY <1>11, <2>1, <3>1, DisputedIs
    <3> DEFINE a == dispute.same + dispute.different + dispute.only_gmc + dispute.only_wam
               b == dispute'.same + dispute'.different + dispute'.only_gmc + dispute'.only_wam
    <3>3. a \in Nat /\ b \in Nat /\ a <= Judged(n) /\ b <= a + 1
      BY <1>11, <2>1, <3>2 DEF Disputes
    <3>4. dispute' \in Disputes /\ dispute'.gmc_wins + dispute'.wam_wins <= dispute'.different
      BY <3>2
    <3> HIDE DEF a, b
    <3>5. b <= Judged(n + 1)
      BY <1>10, <2>3, <3>3
    <3> QED BY <3>4, <3>5 DEF b
  <2> QED BY <2>2, <2>3
<1>15. ScoreTypeOK'
  <2>1. score' \in [Near \cup Far -> Tally]
    BY <1>7, <1>12
  <2>2. /\ train' \in Seq(Line) /\ frozen' = TRUE /\ train' # <<>>
    BY <1>1, <1>2
  <2> QED BY <1>3, <1>13, <1>14, <2>1, <2>2 DEF ScoreTypeOK, Disputes
<1>16. Accounts(n + 1)'
  BY <1>12, <1>13, <1>14 DEF Accounts, Judged
<1> QED BY <1>3, <1>15, <1>16 DEF ScoreInv, Accounts, Judged

\* Nothing has been asked yet.
LEMMA ScoreInit ==
  ASSUME Init PROVE ScoreInv
<1>1. Horizon \in Nat \ {0}
  BY PredictorsAssumption
<1>2. Judged(0) = 0 /\ Len(<<>>) = 0
  BY <1>1 DEF Judged
<1>3. score \in [Near \cup Far -> Tally] /\ \A p \in Near \cup Far : score[p] = [asked |-> 0, right |-> 0]
  BY DEF Init, Tally
<1>4. ScoreTypeOK
  <2>1. /\ train = <<>> /\ evaluation = <<>> /\ frozen = FALSE
        /\ reuse = [exact |-> 0, fallback |-> 0, unseen |-> 0]
        /\ dispute = [same |-> 0, different |-> 0, only_gmc |-> 0, only_wam |-> 0,
                      gmc_wins |-> 0, wam_wins |-> 0, both_wrong |-> 0]
    BY DEF Init
  <2>2. train \in Seq(Line) /\ evaluation \in Seq(Line) /\ frozen \in BOOLEAN
    <3>1. <<>> \in Seq(Line)
      OBVIOUS
    <3> QED BY <2>1, <3>1, Zenon
  <2>3. reuse \in [exact : Nat, fallback : Nat, unseen : Nat]
    BY <2>1
  <2>4. dispute \in [same : Nat, different : Nat, only_gmc : Nat, only_wam : Nat,
                     gmc_wins : Nat, wam_wins : Nat, both_wrong : Nat]
    BY <2>1
  <2> QED BY <1>3, <2>1, <2>2, <2>3, <2>4, Zenon DEF ScoreTypeOK
<1>5. Accounts(0)
  BY <1>2, <1>3 DEF Init, Accounts
<1> QED BY <1>2, <1>4, <1>5 DEF Init, ScoreInv

\* Training and freezing judge nothing.
LEMMA ScoreStep ==
  ASSUME ScoreInv, [Next]_vars PROVE ScoreInv'
<1>1. CASE UNCHANGED vars
  BY <1>1 DEF vars, ScoreInv, ScoreTypeOK, Accounts
<1>2. CASE \E line \in Line : Observe(line)
  <2>1. PICK line \in Line : Observe(line)
    BY <1>2
  <2>2. /\ train' = Append(train, line) /\ frozen = FALSE
        /\ UNCHANGED <<evaluation, frozen, score, reuse, dispute>>
    BY <2>1 DEF Observe, ScoreInv, ScoreTypeOK
  <2>3. train' \in Seq(Line)
    BY <2>2 DEF ScoreInv, ScoreTypeOK
  <2>4. ScoreTypeOK'
    BY <2>2, <2>3 DEF ScoreInv, ScoreTypeOK
  <2>5. Accounts(Len(evaluation))'
    BY <2>2 DEF ScoreInv, Accounts
  <2> QED BY <2>4, <2>5 DEF ScoreInv
<1>3. CASE Freeze
  <2>1. train # <<>> /\ frozen' = TRUE /\ UNCHANGED <<train, evaluation, score, reuse, dispute>>
    BY <1>3 DEF Freeze
  <2> QED BY <2>1 DEF ScoreInv, ScoreTypeOK, Accounts
<1>4. CASE \E line \in Line : Demand(line)
  BY <1>4, DemandScores
<1> QED BY <1>1, <1>2, <1>3, <1>4 DEF Next

\* Nothing is judged right that was not asked, each line is reused, fallen back
\* on or unseen, and only a disagreement has a winner: for evaluations of any
\* length.
THEOREM EveryScoreAccounted == Spec => []ScoresAccounted
<1>1. Init => ScoreInv
  BY ScoreInit
<1>2. ScoreInv /\ [Next]_vars => ScoreInv'
  BY ScoreStep
<1>3. ScoreInv => ScoresAccounted
  BY AccountsAre
<1> QED BY <1>1, <1>2, <1>3, PTL DEF Spec

--------------------------------------------------------------------------------
\* What the context tables say of the trace that taught them.

\* The context c ends at position q of s.
Ends(s, q, c) == Len(c) <= q /\ SubSeq(s, q - Len(c) + 1, q) = c

\* How often x came h lines after c.
Counts(s, c, x, h) ==
  Cardinality({i \in Len(c) .. Len(s) - h : SubSeq(s, i - Len(c) + 1, i) = c /\ s[i + h] = x})

\* The contexts of some lengths.
Contexts(lengths) == {c \in Seq(Line) : Len(c) \in lengths}

\* A table that holds what s says of every context of some lengths.
Tells(table, lengths, h, s) ==
  \A c \in Contexts(lengths), x \in Line : Times(At(table, c), x) = Counts(s, c, x, h)

\* The two recurrences, as facts to cite.
TableRecurs(table, contexts, line, c, x) ==
  Times(At(Counted(table, contexts, line), c), x) =
    IF c \in contexts /\ x = line THEN Times(At(table, c), x) + 1 ELSE Times(At(table, c), x)

\* How the occurrences of a context grow by one line.
CountRecurs(s, line, c, x, h) ==
  /\ Counts(s, c, x, h) \in Nat
  /\ Counts(Append(s, line), c, x, h) =
       Counts(s, c, x, h) + (IF Ends(s, Len(s) + 1 - h, c) /\ x = line THEN 1 ELSE 0)

\* What ends inside s ends there in a longer sequence too.
LEMMA AppendKeeps ==
  ASSUME NEW T, NEW s \in Seq(T), NEW line \in T, NEW a \in Int, NEW q \in Nat, q <= Len(s), a >= 1
  PROVE  SubSeq(Append(s, line), a, q) = SubSeq(s, a, q)
<1> DEFINE t == Append(s, line)
<1>1. t \in Seq(T) /\ Len(t) = Len(s) + 1 /\ \A i \in 1 .. Len(s) : t[i] = s[i]
  OBVIOUS
<1> HIDE DEF t
<1>2. CASE a > q
  <2>1. SubSeq(t, a, q) = <<>> /\ SubSeq(s, a, q) = <<>>
    BY <1>1, <1>2
  <2> QED BY <2>1 DEF t
<1>3. CASE a <= q
  <2>1. /\ SubSeq(t, a, q) \in Seq(T) /\ SubSeq(s, a, q) \in Seq(T)
        /\ Len(SubSeq(t, a, q)) = q - a + 1 /\ Len(SubSeq(s, a, q)) = q - a + 1
        /\ \A i \in 1 .. q - a + 1 : SubSeq(t, a, q)[i] = t[a + i - 1]
        /\ \A i \in 1 .. q - a + 1 : SubSeq(s, a, q)[i] = s[a + i - 1]
    BY <1>1, <1>3
  <2>2. \A i \in 1 .. q - a + 1 : a + i - 1 \in 1 .. Len(s)
    BY <1>3
  <2>3. \A i \in 1 .. q - a + 1 : SubSeq(t, a, q)[i] = SubSeq(s, a, q)[i]
    BY <1>1, <2>1, <2>2
  <2>4. SubSeq(t, a, q) = SubSeq(s, a, q)
    BY <2>1, <2>3, SeqEqual
  <2> QED BY <2>4 DEF t
<1> QED BY <1>2, <1>3

\* One more line is one more occurrence, behind the context that ended h lines ago.
LEMMA CountsNext ==
  ASSUME NEW s \in Seq(Line), NEW line \in Line, NEW h \in Nat \ {0},
         NEW c \in Seq(Line), c # <<>>, NEW x \in Line
  PROVE  CountRecurs(s, line, c, x, h)
<1> DEFINE t == Append(s, line)
           l == Len(c)
           n == Len(s)
           A == {i \in l .. n - h : SubSeq(s, i - l + 1, i) = c /\ s[i + h] = x}
           B == {i \in l .. n + 1 - h : SubSeq(t, i - l + 1, i) = c /\ t[i + h] = x}
           q == n + 1 - h
           new == Ends(s, q, c) /\ x = line
<1>1. n \in Nat /\ l \in Nat /\ l # 0 /\ q \in Int /\ q <= n
  OBVIOUS
<1>2. Len(t) = n + 1 /\ t[n + 1] = line /\ \A i \in 1 .. n : t[i] = s[i]
  OBVIOUS
<1>3. \A i \in l .. n + 1 - h : SubSeq(t, i - l + 1, i) = SubSeq(s, i - l + 1, i)
  <2> SUFFICES ASSUME NEW i \in l .. n + 1 - h
      PROVE  SubSeq(t, i - l + 1, i) = SubSeq(s, i - l + 1, i)
    OBVIOUS
  <2>1. i \in Nat /\ i <= n /\ i - l + 1 \in Int /\ i - l + 1 >= 1
    BY <1>1
  <2> QED BY <2>1, AppendKeeps
<1> HIDE DEF t, l, n, q
<1>4. IsFiniteSet(A) /\ Cardinality(A) \in Nat /\ q \notin A
  <2>1. l \in Int /\ n - h \in Int
    BY <1>1
  <2>2. IsFiniteSet(l .. n - h)
    BY <2>1, FS_Interval
  <2>3. IsFiniteSet(A)
    BY <2>2, FS_Subset
  <2>4. ~ (q <= n - h)
    BY <1>1 DEF q
  <2> QED BY <2>3, <2>4, FS_CardinalityType
<1>5. B = IF new THEN A \cup {q} ELSE A
  <2>1. \A i : i \in l .. n + 1 - h <=> (i \in l .. n - h \/ (i = q /\ l <= q))
    BY <1>1 DEF q
  <2>2. \A i \in l .. n - h : i + h \in 1 .. n
    BY <1>1
  <2>3. \A i \in l .. n - h : i \in B <=> i \in A
    BY <1>2, <1>3, <2>1, <2>2
  <2>4. q + h = n + 1
    BY <1>1 DEF q
  <2>5. l <= q => (q \in B <=> SubSeq(s, q - l + 1, q) = c /\ x = line)
    BY <1>2, <1>3, <2>1, <2>4
  <2>6. new <=> l <= q /\ SubSeq(s, q - l + 1, q) = c /\ x = line
    BY DEF Ends, l
  <2>7. \A i \in B : i \in l .. n - h \/ (i = q /\ l <= q)
    BY <2>1
  <2>8. \A i \in A : i \in l .. n - h
    OBVIOUS
  <2>9. q \in B => l <= q
    BY <1>1, <2>4
  <2> HIDE DEF A, B, new
  <2>10. CASE new
    <3>1. q \in B
      BY <2>5, <2>6, <2>10
    <3>2. \A i : i \in B <=> i \in A \/ i = q
      BY <2>3, <2>7, <2>8, <3>1
    <3>3. B = A \cup {q}
      BY <3>2
    <3> QED BY <2>10, <3>3
  <2>11. CASE ~ new
    <3>1. q \notin B
      BY <2>5, <2>6, <2>9, <2>11
    <3>2. \A i : i \in B <=> i \in A
      BY <2>3, <2>7, <2>8, <3>1
    <3>3. B = A
      BY <3>2
    <3> QED BY <2>11, <3>3
  <2> QED BY <2>10, <2>11
<1>6. Counts(s, c, x, h) = Cardinality(A) /\ Counts(t, c, x, h) = Cardinality(B)
  <2>1. Len(t) - h = n + 1 - h
    BY <1>1, <1>2
  <2> QED BY <2>1 DEF Counts, l, n
<1> HIDE DEF A, B, new
<1>7. Cardinality(B) = Cardinality(A) + (IF new THEN 1 ELSE 0)
  <2>1. CASE new
    BY <1>4, <1>5, <2>1, FS_AddElement
  <2>2. CASE ~ new
    BY <1>4, <1>5, <2>2
  <2> QED BY <2>1, <2>2
<1> QED BY <1>4, <1>6, <1>7 DEF t, new, q, n, CountRecurs

\* BagAdd() counts its line once more, and no other.
LEMMA TimesAdd ==
  ASSUME NEW bag, NEW line, NEW x
  PROVE  /\ Times(EmptyBag, x) = 0
         /\ Times(BG!BagAdd(bag, line), x) = IF x = line THEN Times(bag, x) + 1 ELSE Times(bag, x)
<1>1. Times(EmptyBag, x) = 0
  BY DEF Times, EmptyBag, SetToBag
<1>2. CASE line \in DOMAIN bag
  <2>1. BG!BagAdd(bag, line) = [e \in DOMAIN bag |-> IF e = line THEN bag[e] + 1 ELSE bag[e]]
    BY <1>2 DEF BG!BagAdd
  <2> QED BY <1>1, <1>2, <2>1 DEF Times
<1>3. CASE line \notin DOMAIN bag
  <2>1. BG!BagAdd(bag, line) = [e \in DOMAIN bag \cup {line} |-> IF e = line THEN 1 ELSE bag[e]]
    BY <1>3 DEF BG!BagAdd
  <2> QED BY <1>1, <1>3, <2>1 DEF Times
<1> QED BY <1>2, <1>3

\* What one observation of some contexts does to one counter.
LEMMA CountedIs ==
  ASSUME NEW table, NEW contexts, NEW line, NEW c, NEW x
  PROVE  /\ DOMAIN Counted(table, contexts, line) = DOMAIN table \cup contexts
         /\ TableRecurs(table, contexts, line, c, x)
<1> DEFINE new == Counted(table, contexts, line)
<1>1. new = [k \in DOMAIN table \cup contexts |->
               IF k \in contexts THEN BG!BagAdd(At(table, k), line) ELSE table[k]]
  BY DEF Counted
<1> HIDE DEF new
<1>2. DOMAIN new = DOMAIN table \cup contexts
  BY <1>1
<1>3. At(new, c) = IF c \in contexts THEN BG!BagAdd(At(table, c), line) ELSE At(table, c)
  BY <1>1 DEF At
<1> QED BY <1>2, <1>3, TimesAdd DEF new, TableRecurs

\* The suffixes of the last depth lines of p are the contexts that end with p.
LEMMA SuffixesAre ==
  ASSUME NEW p \in Seq(Line), NEW depth \in Nat \ {0}
  PROVE  /\ SuffixesOf(Recent(p, depth)) \subseteq Contexts(1 .. depth)
         /\ \A c \in Contexts(1 .. depth) :
              c \in SuffixesOf(Recent(p, depth)) <=> Ends(p, Len(p), c)
<1> DEFINE r == Recent(p, depth)
           n == Len(p)
           m == Len(r)
           Tail_(k) == SubSeq(p, n - k + 1, n)
<1>1. /\ n \in Nat /\ r \in Seq(Line) /\ m = (IF n <= depth THEN n ELSE depth)
      /\ \A i \in 1 .. m : r[i] = p[n - m + i]
  BY RecentIs
<1>2. ASSUME NEW k \in 1 .. m
      PROVE  Recent(r, k) = Tail_(k) /\ Tail_(k) \in Seq(Line) /\ Len(Tail_(k)) = k
  <2>1. k \in Nat /\ k >= 1 /\ k <= m /\ m <= n /\ m \in Nat
    BY <1>1
  <2> HIDE DEF r, n, m
  <2>2. /\ Recent(r, k) \in Seq(Line) /\ Len(Recent(r, k)) = k
        /\ \A i \in 1 .. k : Recent(r, k)[i] = r[m - k + i]
    <3>1. k \in Nat /\ r \in Seq(Line) /\ Len(r) = m
      BY <1>1, <2>1 DEF m
    <3>2. /\ Recent(r, k) \in Seq(Line)
          /\ Len(Recent(r, k)) = IF Len(r) <= k THEN Len(r) ELSE k
          /\ \A i \in 1 .. Len(Recent(r, k)) : Recent(r, k)[i] = r[Len(r) - Len(Recent(r, k)) + i]
      BY <3>1, RecentIs
    <3>3. Len(Recent(r, k)) = k
      BY <2>1, <3>1, <3>2
    <3> QED BY <3>1, <3>2, <3>3
  <2>3. /\ Tail_(k) \in Seq(Line) /\ Len(Tail_(k)) = k
        /\ \A i \in 1 .. k : Tail_(k)[i] = p[n - k + i]
    BY <1>1, <2>1 DEF n
  <2>4. \A i \in 1 .. k : Recent(r, k)[i] = Tail_(k)[i]
    <3> SUFFICES ASSUME NEW i \in 1 .. k PROVE Recent(r, k)[i] = Tail_(k)[i]
      OBVIOUS
    <3>1. m - k + i \in 1 .. m /\ n - m + (m - k + i) = n - k + i
      BY <1>1, <2>1
    <3>2. r[m - k + i] = p[n - m + (m - k + i)]
      BY <1>1, <3>1
    <3> QED BY <2>2, <2>3, <3>1, <3>2
  <2> HIDE DEF Tail_
  <2>5. Recent(r, k) = Tail_(k)
    BY <2>2, <2>3, <2>4, SeqEqual
  <2> QED BY <2>3, <2>5
<1>3. SuffixesOf(r) = {Recent(r, k) : k \in 1 .. m}
  BY DEF SuffixesOf
<1>4. m \in Nat /\ m <= depth /\ m <= n
  BY <1>1
<1>5. SuffixesOf(r) \subseteq Contexts(1 .. depth)
  <2> HIDE DEF r, m, n, Tail_
  <2> SUFFICES ASSUME NEW k \in 1 .. m PROVE Recent(r, k) \in Contexts(1 .. depth)
    BY <1>3
  <2>1. Recent(r, k) \in Seq(Line) /\ Len(Recent(r, k)) = k
    BY <1>2
  <2> QED BY <1>4, <2>1 DEF Contexts
<1>6. ASSUME NEW c \in Contexts(1 .. depth)
      PROVE  c \in SuffixesOf(r) <=> Ends(p, n, c)
  <2>1. c \in Seq(Line) /\ Len(c) \in 1 .. depth
    BY DEF Contexts
  <2>2. ASSUME c \in SuffixesOf(r) PROVE Ends(p, n, c)
    <3>1. PICK k \in 1 .. m : c = Recent(r, k)
      BY <1>3, <2>2
    <3>2. c = Tail_(k) /\ Len(c) = k
      BY <1>2, <3>1
    <3> HIDE DEF r, m
    <3> QED BY <1>4, <3>1, <3>2 DEF Ends
  <2>3. ASSUME Ends(p, n, c) PROVE c \in SuffixesOf(r)
    <3>1. Len(c) <= n /\ Tail_(Len(c)) = c
      BY <2>3 DEF Ends
    <3> HIDE DEF r, m, Tail_, n
    <3>2. Len(c) \in 1 .. m
      BY <1>1, <2>1, <3>1
    <3>3. Recent(r, Len(c)) = c
      BY <1>2, <3>1, <3>2
    <3> QED BY <1>3, <3>2, <3>3
  <2> QED BY <2>2, <2>3
<1> QED BY <1>5, <1>6

\* The contexts of the next line at distance h are those that end with p.
Behind(p, s, h) ==
  /\ p \in Seq(Line)
  /\ \A c \in Contexts(1 .. Depth) : Ends(p, Len(p), c) <=> Ends(s, Len(s) + 1 - h, c)

\* The values without the newest line, against a horizon of one.
LEMMA BehindOne == \A s \in Seq(Line) : Behind(s, s, 1)
<1> SUFFICES ASSUME NEW s \in Seq(Line) PROVE Behind(s, s, 1)
  OBVIOUS
<1>1. Len(s) + 1 - 1 = Len(s)
  OBVIOUS
<1> QED BY <1>1 DEF Behind

\* The values that are Horizon lines old, against the horizon.
LEMMA BehindPast ==
  ASSUME NEW s \in Seq(Line), NEW line \in Line, NEW h \in Nat \ {0}, Len(s) + 1 > h
  PROVE  /\ Behind(Past(Append(s, line), h), s, h)
         /\ Last(Append(s, line)) = line
         /\ Len(Past(Append(s, line), h)) = Len(s) + 1 - h
<1> DEFINE t == Append(s, line)
           q == Len(s) + 1 - h
           p == SubSeq(t, 1, q)
<1>1. /\ t \in Seq(Line) /\ Len(t) = Len(s) + 1 /\ t[Len(s) + 1] = line
      /\ q \in Nat /\ q <= Len(s) /\ q >= 1 /\ Len(s) \in Nat
  OBVIOUS
<1>2. Past(t, h) = p /\ Last(t) = line
  BY <1>1 DEF Past, Last
<1>3. p = SubSeq(s, 1, q)
  BY <1>1, AppendKeeps
<1> HIDE DEF q, t
<1>4. p \in Seq(Line) /\ Len(p) = q /\ \A i \in 1 .. q : p[i] = s[i]
  <2> HIDE DEF p
  <2>1. SubSeq(s, 1, q) \in Seq(Line) /\ Len(SubSeq(s, 1, q)) = q
    BY <1>1
  <2>2. \A i \in 1 .. q : SubSeq(s, 1, q)[i] = s[i]
    BY <1>1
  <2> QED BY <1>3, <2>1, <2>2
<1> HIDE DEF p
<1>5. ASSUME NEW a \in 1 .. q PROVE SubSeq(p, a, q) = SubSeq(s, a, q)
  <2>1. /\ SubSeq(p, a, q) \in Seq(Line) /\ SubSeq(s, a, q) \in Seq(Line)
        /\ Len(SubSeq(p, a, q)) = q - a + 1 /\ Len(SubSeq(s, a, q)) = q - a + 1
        /\ \A i \in 1 .. q - a + 1 : SubSeq(p, a, q)[i] = p[a + i - 1]
        /\ \A i \in 1 .. q - a + 1 : SubSeq(s, a, q)[i] = s[a + i - 1]
    BY <1>1, <1>4
  <2>2. \A i \in 1 .. q - a + 1 : a + i - 1 \in 1 .. q
    BY <1>1
  <2>3. \A i \in 1 .. q - a + 1 : SubSeq(p, a, q)[i] = SubSeq(s, a, q)[i]
    BY <1>4, <2>1, <2>2
  <2> QED BY <2>1, <2>3, SeqEqual
<1>6. ASSUME NEW c \in Contexts(1 .. Depth) PROVE Ends(p, q, c) <=> Ends(s, q, c)
  <2>1. Len(c) \in Nat /\ Len(c) >= 1
    BY DEF Contexts
  <2>2. CASE Len(c) <= q
    <3>1. q - Len(c) + 1 \in 1 .. q
      BY <1>1, <2>1, <2>2
    <3> QED BY <1>5, <3>1 DEF Ends
  <2>3. CASE ~ (Len(c) <= q)
    BY <2>3 DEF Ends
  <2> QED BY <2>2, <2>3
<1>7. Behind(p, s, h)
  BY <1>4, <1>6 DEF Behind, q
<1> QED BY <1>2, <1>4, <1>7 DEF t, q

\* CountedIs for all tables, contexts and lines at once.
LEMMA TableRecurrence ==
  \A table, contexts, line, c, x : TableRecurs(table, contexts, line, c, x)
BY CountedIs, Zenon

\* CountsNext for all contexts and lines at once.
LEMMA CountRecurrence ==
  ASSUME NEW s \in Seq(Line), NEW line \in Line, NEW h \in Nat \ {0},
         NEW lengths \in SUBSET (Nat \ {0})
  PROVE  \A c \in Contexts(lengths), x \in Line : CountRecurs(s, line, c, x, h)
<1> SUFFICES ASSUME NEW c \in Contexts(lengths), NEW x \in Line
             PROVE  CountRecurs(s, line, c, x, h)
  OBVIOUS
<1>1. c \in Seq(Line) /\ Len(c) # 0
  BY DEF Contexts
<1>2. c # <<>>
  BY <1>1
<1> QED BY <1>1, <1>2, CountsNext

\* A table stays exact when the contexts it counts are those that end h lines ago.
LEMMA CountedTells ==
  ASSUME NEW s \in Seq(Line), NEW line \in Line, NEW h \in Nat \ {0},
         NEW lengths \in SUBSET (Nat \ {0}), NEW table, NEW contexts,
         Tells(table, lengths, h, s),
         \A c \in Contexts(lengths) : c \in contexts <=> Ends(s, Len(s) + 1 - h, c)
  PROVE  Tells(Counted(table, contexts, line), lengths, h, Append(s, line))
<1> SUFFICES ASSUME NEW c \in Contexts(lengths), NEW x \in Line
             PROVE  Times(At(Counted(table, contexts, line), c), x) = Counts(Append(s, line), c, x, h)
  BY DEF Tells
<1>1. Times(At(table, c), x) = Counts(s, c, x, h)
  BY DEF Tells
<1>2. TableRecurs(table, contexts, line, c, x)
  BY TableRecurrence
<1>3. CountRecurs(s, line, c, x, h)
  BY CountRecurrence
<1>4. c \in contexts <=> Ends(s, Len(s) + 1 - h, c)
  OBVIOUS
<1> DEFINE e == Ends(s, Len(s) + 1 - h, c)
           n == Counts(s, c, x, h)
<1>5. n \in Nat /\ Counts(Append(s, line), c, x, h) = n + (IF e /\ x = line THEN 1 ELSE 0)
  BY <1>3 DEF CountRecurs
<1>6. Times(At(Counted(table, contexts, line), c), x) = IF e /\ x = line THEN n + 1 ELSE n
  BY <1>1, <1>2, <1>4 DEF TableRecurs
<1> HIDE DEF e, n
<1> QED BY <1>5, <1>6

\* Nothing follows at a distance longer than the sequence.
LEMMA ShortTells ==
  ASSUME NEW s \in Seq(Line), NEW line \in Line, NEW h \in Nat \ {0},
         NEW lengths \in SUBSET (Nat \ {0}), NEW table,
         Tells(table, lengths, h, s), Len(s) + 1 <= h
  PROVE  Tells(table, lengths, h, Append(s, line))
<1> SUFFICES ASSUME NEW c \in Contexts(lengths), NEW x \in Line
             PROVE  Times(At(table, c), x) = Counts(Append(s, line), c, x, h)
  BY DEF Tells
<1>1. Len(c) \in Nat \ {0}
  BY DEF Contexts
<1>2. Times(At(table, c), x) = Counts(s, c, x, h)
  BY DEF Tells
<1>3. ~ Ends(s, Len(s) + 1 - h, c)
  <2>1. Len(s) \in Nat
    OBVIOUS
  <2> QED BY <1>1, <2>1 DEF Ends
<1>4. CountRecurs(s, line, c, x, h)
  BY CountRecurrence
<1> QED BY <1>2, <1>3, <1>4 DEF CountRecurs
\* The nodes that an update makes are contexts, and those it does not count hold
\* nothing: it is the count of the suffixes.
LEMMA TrieUpdateIs ==
  ASSUME NEW trie, NEW p \in Seq(Line), NEW line \in Line,
         DOMAIN trie \subseteq Contexts(1 .. Depth)
  PROVE  \E grown : /\ TrieUpdate(trie, p, line, Depth) =
                         Counted(grown, SuffixesOf(Recent(p, Depth)), line)
                    /\ DOMAIN grown \subseteq Contexts(1 .. Depth)
                    /\ \A c : At(grown, c) = At(trie, c)
<1> DEFINE suffixes == SuffixesOf(Recent(p, Depth))
           path == UNION {Prefixes(s) \ {<<>>} : s \in suffixes}
           grown == [n \in DOMAIN trie \cup path |-> At(trie, n)]
<1>1. TrieUpdate(trie, p, line, Depth) = Counted(grown, suffixes, line)
  BY DEF TrieUpdate
<1>2. suffixes \subseteq Contexts(1 .. Depth)
  BY SuffixesAre, PredictorsAssumption
<1>3. path \subseteq Contexts(1 .. Depth)
  <2> HIDE DEF suffixes
  <2> SUFFICES ASSUME NEW s \in suffixes, NEW n \in Prefixes(s), n # <<>>
               PROVE  n \in Contexts(1 .. Depth)
    OBVIOUS
  <2>1. s \in Seq(Line) /\ Len(s) \in 1 .. Depth
    BY <1>2 DEF Contexts
  <2>2. PICK l \in 0 .. Len(s) : n = SubSeq(s, 1, l)
    BY DEF Prefixes
  <2>3. n \in Seq(Line) /\ Len(n) = l
    BY <2>1, <2>2
  <2>4. l # 0
    BY <2>3
  <2>5. l \in 1 .. Depth
    BY <2>1, <2>4, PredictorsAssumption
  <2> QED BY <2>3, <2>5 DEF Contexts
<1> HIDE DEF suffixes, path
<1>4. DOMAIN grown \subseteq Contexts(1 .. Depth)
  BY <1>3
<1>5. \A c : At(grown, c) = At(trie, c)
  BY DEF At
<1> HIDE DEF grown
<1> QED BY <1>1, <1>4, <1>5 DEF suffixes

\* What a predictor that counts every suffix behind p learns.
LEMMA SuffixesTell ==
  ASSUME NEW s \in Seq(Line), NEW line \in Line, NEW h \in Nat \ {0}, NEW table, NEW p,
         Behind(p, s, h), Tells(table, 1 .. Depth, h, s)
  PROVE  Tells(Counted(table, SuffixesOf(Recent(p, Depth)), line), 1 .. Depth, h, Append(s, line))
<1>1. Depth \in Nat \ {0} /\ p \in Seq(Line)
  BY PredictorsAssumption DEF Behind
<1>2. \A c \in Contexts(1 .. Depth) :
        c \in SuffixesOf(Recent(p, Depth)) <=> Ends(s, Len(s) + 1 - h, c)
  BY <1>1, SuffixesAre DEF Behind
<1>3. 1 .. Depth \in SUBSET (Nat \ {0})
  OBVIOUS
<1> QED BY <1>2, <1>3, CountedTells

\* The tables of every context length: what they say is what the sequence holds,
\* and they know contexts only.
Told(table, h, s) == Tells(table, 1 .. Depth, h, s) /\ DOMAIN table \subseteq Contexts(1 .. Depth)

\* A table that counts every suffix of the recent lines stays true to the trace.
LEMMA SuffixesTold ==
  ASSUME NEW s \in Seq(Line), NEW line \in Line, NEW h \in Nat \ {0}, NEW table, NEW p,
         Behind(p, s, h), Told(table, h, s)
  PROVE  Told(Counted(table, SuffixesOf(Recent(p, Depth)), line), h, Append(s, line))
<1>1. Depth \in Nat \ {0} /\ p \in Seq(Line)
  BY PredictorsAssumption DEF Behind
<1>2. SuffixesOf(Recent(p, Depth)) \subseteq Contexts(1 .. Depth)
  BY <1>1, SuffixesAre
<1>3. DOMAIN Counted(table, SuffixesOf(Recent(p, Depth)), line)
        = DOMAIN table \cup SuffixesOf(Recent(p, Depth))
  BY CountedIs
<1>4. Tells(table, 1 .. Depth, h, s) /\ DOMAIN table \subseteq Contexts(1 .. Depth)
  BY DEF Told
<1> QED BY <1>2, <1>3, <1>4, SuffixesTell DEF Told

\* The trie stays true to the trace.
LEMMA TrieTold ==
  ASSUME NEW s \in Seq(Line), NEW line \in Line, NEW h \in Nat \ {0}, NEW trie, NEW p,
         Behind(p, s, h), Told(trie, h, s)
  PROVE  Told(TrieUpdate(trie, p, line, Depth), h, Append(s, line))
<1>1. p \in Seq(Line) /\ DOMAIN trie \subseteq Contexts(1 .. Depth)
  BY DEF Behind, Told
<1>2. PICK grown : /\ TrieUpdate(trie, p, line, Depth) =
                        Counted(grown, SuffixesOf(Recent(p, Depth)), line)
                   /\ DOMAIN grown \subseteq Contexts(1 .. Depth)
                   /\ \A c : At(grown, c) = At(trie, c)
  BY <1>1, TrieUpdateIs
<1>3. Told(grown, h, s)
  BY <1>2 DEF Told, Tells
<1> QED BY <1>2, <1>3, SuffixesTold

\* A trace too short to teach anything leaves a table true.
LEMMA ShortTold ==
  ASSUME NEW s \in Seq(Line), NEW line \in Line, NEW h \in Nat \ {0}, NEW table,
         Told(table, h, s), Len(s) + 1 <= h
  PROVE  Told(table, h, Append(s, line))
<1>1. 1 .. Depth \in SUBSET (Nat \ {0})
  OBVIOUS
<1> QED BY <1>1, ShortTells DEF Told

\* A context of full depth is the one that the flat table counts if it ends there.
LEMMA FullContext ==
  ASSUME NEW p \in Seq(Line), NEW n \in Nat \ {0}, NEW c \in Contexts({n})
  PROVE  c \in {Recent(p, n)} <=> Ends(p, Len(p), c)
<1> DEFINE l == Len(p)
<1>1. l \in Nat /\ c \in Seq(Line) /\ Len(c) = n
  BY DEF Contexts
<1>2. CASE l < n
  <2>1. Recent(p, n) = p
    BY <1>1, <1>2 DEF Recent
  <2>2. c # p
    BY <1>1, <1>2
  <2> QED BY <1>1, <1>2, <2>1, <2>2 DEF Ends
<1>3. CASE l = n
  <2>1. Recent(p, n) = p
    BY <1>1, <1>3 DEF Recent
  <2>2. l - n + 1 = 1 /\ SubSeq(p, 1, l) = p
    BY <1>1, <1>3
  <2>3. Ends(p, l, c) <=> p = c
    BY <1>1, <1>3, <2>2 DEF Ends
  <2> QED BY <2>1, <2>3
<1>4. CASE l > n
  <2>1. Recent(p, n) = SubSeq(p, l - n + 1, l)
    BY <1>1, <1>4 DEF Recent
  <2>2. Ends(p, l, c) <=> SubSeq(p, l - n + 1, l) = c
    BY <1>1, <1>4 DEF Ends
  <2> QED BY <2>1, <2>2
<1> QED BY <1>1, <1>2, <1>3, <1>4
\* A table that counts the one context of full depth stays true to the trace.
LEMMA FlatTells ==
  ASSUME NEW s \in Seq(Line), NEW line \in Line, NEW h \in Nat \ {0}, NEW table, NEW p,
         Behind(p, s, h), Tells(table, {Depth}, h, s)
  PROVE  Tells(Counted(table, {Recent(p, Depth)}, line), {Depth}, h, Append(s, line))
<1>1. Depth \in Nat \ {0} /\ p \in Seq(Line)
  BY PredictorsAssumption DEF Behind
<1>2. Contexts({Depth}) \subseteq Contexts(1 .. Depth)
  BY <1>1 DEF Contexts
<1>3. \A c \in Contexts({Depth}) : c \in {Recent(p, Depth)} <=> Ends(p, Len(p), c)
  BY <1>1, FullContext
<1>4. \A c \in Contexts({Depth}) : c \in {Recent(p, Depth)} <=> Ends(s, Len(s) + 1 - h, c)
  BY <1>2, <1>3 DEF Behind
<1>5. {Depth} \in SUBSET (Nat \ {0})
  BY <1>1
<1> QED BY <1>4, <1>5, CountedTells

\* A table that counts the last line alone stays true to the trace.
LEMMA LastTells ==
  ASSUME NEW s \in Seq(Line), NEW line \in Line, NEW table, Tells(table, 1 .. 1, 1, s)
  PROVE  Tells(Counted(table, SuffixesOf(Recent(s, 1)), line), 1 .. 1, 1, Append(s, line))
<1>1. 1 \in Nat \ {0} /\ 1 .. 1 \in SUBSET (Nat \ {0})
  OBVIOUS
<1>2. \A c \in Contexts(1 .. 1) : c \in SuffixesOf(Recent(s, 1)) <=> Ends(s, Len(s), c)
  BY <1>1, SuffixesAre
<1>3. Len(s) + 1 - 1 = Len(s)
  OBVIOUS
<1>4. \A c \in Contexts(1 .. 1) : c \in SuffixesOf(Recent(s, 1)) <=> Ends(s, Len(s) + 1 - 1, c)
  BY <1>2, <1>3
<1> QED BY <1>1, <1>4, CountedTells

\* The tables, one by one.
TablesTold ==
  /\ train \in Seq(Line)
  /\ {"trie", "direct", "markov", "markov1", "flat"} \subseteq DOMAIN model
  /\ Told(model.trie, 1, train)
  /\ Told(model.direct, Horizon, train)
  /\ Told(model.markov, 1, train)
  /\ Tells(model.markov1, 1 .. 1, 1, train)
  /\ Tells(model.flat, {Depth}, Horizon, train)

\* The empty table is true to the empty trace.
LEMMA NothingTold == \A lengths \in SUBSET Nat, h \in Nat \ {0} : Tells(<<>>, lengths, h, <<>>)
<1> SUFFICES ASSUME NEW lengths \in SUBSET Nat, NEW h \in Nat \ {0},
                    NEW c \in Contexts(lengths), NEW x \in Line
             PROVE  Times(At(<<>>, c), x) = Counts(<<>>, c, x, h)
  BY DEF Tells
<1>1. At(<<>>, c) = EmptyBag
  BY DEF At
<1>2. Times(EmptyBag, x) = 0
  BY TimesAdd
<1>3. Len(c) \in Nat
  BY DEF Contexts
<1>4. Len(c) .. Len(<<>>) - h = {}
  BY <1>3
<1>5. Counts(<<>>, c, x, h) = Cardinality({})
  BY <1>4 DEF Counts
<1> QED BY <1>1, <1>2, <1>5, FS_EmptySet

\* The tables start true.
LEMMA TablesInit == Init => TablesTold
<1> SUFFICES ASSUME Init PROVE TablesTold
  OBVIOUS
<1>1. Depth \in Nat \ {0} /\ Horizon \in Nat \ {0}
  BY PredictorsAssumption
<1>2. train = <<>> /\ model.trie = <<>> /\ model.direct = <<>> /\ model.markov = <<>>
      /\ model.markov1 = <<>> /\ model.flat = <<>>
      /\ {"trie", "direct", "markov", "markov1", "flat"} \subseteq DOMAIN model
  BY DEF Init
<1>3. /\ 1 .. Depth \in SUBSET Nat /\ {Depth} \in SUBSET Nat /\ 1 .. 1 \in SUBSET Nat
      /\ 1 \in Nat \ {0} /\ Horizon \in Nat \ {0}
  BY <1>1
<1>4. /\ Tells(<<>>, 1 .. Depth, 1, <<>>) /\ Tells(<<>>, 1 .. Depth, Horizon, <<>>)
      /\ Tells(<<>>, 1 .. 1, 1, <<>>) /\ Tells(<<>>, {Depth}, Horizon, <<>>)
  BY <1>3, NothingTold
<1>5. DOMAIN <<>> \subseteq Contexts(1 .. Depth) /\ <<>> \in Seq(Line)
  OBVIOUS
<1> QED BY <1>2, <1>4, <1>5, Zenon DEF TablesTold, Told

\* One line of the trace keeps them true.
LEMMA TablesObserve ==
  ASSUME TablesTold, NEW line \in Line, Observe(line) PROVE TablesTold'
<1> DEFINE values == Append(train, line)
<1>1. /\ train \in Seq(Line) /\ values \in Seq(Line)
      /\ Horizon \in Nat \ {0} /\ 1 \in Nat \ {0} /\ Depth \in Nat \ {0} /\ Len(train) \in Nat
      /\ Len(values) = Len(train) + 1
  BY PredictorsAssumption DEF TablesTold
<1>2. /\ train' = values
      /\ model'.trie = WAMLearns(model.trie, train, line)
      /\ model'.markov = MarkovLearns(model.markov, train, line)
      /\ model'.markov1 = LastTransitionLearns(model.markov1, train, line)
      /\ model'.direct = DirectLearns(model.direct, values)
      /\ model'.flat = FlatLearns(model.flat, values)
      /\ {"trie", "direct", "markov", "markov1", "flat"} \subseteq DOMAIN model'
  BY DEF Observe
<1>3. Behind(train, train, 1)
  BY <1>1, BehindOne
<1>4. Told(model'.trie, 1, values)
  <2>1. Told(model.trie, 1, train)
    BY DEF TablesTold
  <2>2. CASE train = <<>>
    <3>1. Len(train) + 1 <= 1 /\ model'.trie = model.trie
      BY <1>2, <2>2 DEF WAMLearns
    <3> QED BY <1>1, <2>1, <3>1, ShortTold
  <2>3. CASE train # <<>>
    <3>1. model'.trie = TrieUpdate(model.trie, train, line, Depth)
      BY <1>2, <2>3 DEF WAMLearns
    <3> QED BY <1>1, <1>3, <2>1, <3>1, TrieTold
  <2> QED BY <2>2, <2>3
<1>5. Told(model'.markov, 1, values)
  <2>1. Told(model.markov, 1, train)
    BY DEF TablesTold
  <2>2. model'.markov = Counted(model.markov, SuffixesOf(Recent(train, Depth)), line)
    BY <1>2 DEF MarkovLearns
  <2> QED BY <1>1, <1>3, <2>1, <2>2, SuffixesTold
<1>6. Tells(model'.markov1, 1 .. 1, 1, values)
  <2>1. Tells(model.markov1, 1 .. 1, 1, train)
    BY DEF TablesTold
  <2>2. model'.markov1 = Counted(model.markov1, SuffixesOf(Recent(train, 1)), line)
    BY <1>2 DEF LastTransitionLearns
  <2> QED BY <1>1, <2>1, <2>2, LastTells
<1>7. CASE Len(train) + 1 <= Horizon
  <2>1. model'.direct = model.direct /\ model'.flat = model.flat
    BY <1>1, <1>2, <1>7 DEF DirectLearns, FlatLearns
  <2>2. Told(model.direct, Horizon, train) /\ Tells(model.flat, {Depth}, Horizon, train)
    BY DEF TablesTold
  <2>3. Told(model.direct, Horizon, values)
    BY <1>1, <1>7, <2>2, ShortTold
  <2>4. {Depth} \in SUBSET (Nat \ {0})
    BY <1>1
  <2>5. Tells(model.flat, {Depth}, Horizon, values)
    BY <1>1, <1>7, <2>2, <2>4, ShortTells
  <2> HIDE DEF values
  <2> QED BY <1>2, <1>4, <1>5, <1>6, <1>1, <2>1, <2>3, <2>5 DEF TablesTold
<1>8. CASE Len(train) + 1 > Horizon
  <2>1. Behind(Past(values, Horizon), train, Horizon) /\ Last(values) = line
    BY <1>1, <1>8, BehindPast
  <2>2. /\ model'.direct = TrieUpdate(model.direct, Past(values, Horizon), Last(values), Depth)
        /\ model'.flat = Counted(model.flat, {Recent(Past(values, Horizon), Depth)}, Last(values))
    BY <1>1, <1>2, <1>8 DEF DirectLearns, FlatLearns
  <2>3. Told(model.direct, Horizon, train) /\ Tells(model.flat, {Depth}, Horizon, train)
    BY DEF TablesTold
  <2>4. Told(model'.direct, Horizon, values)
    BY <1>1, <2>1, <2>2, <2>3, TrieTold
  <2>5. Tells(model'.flat, {Depth}, Horizon, values)
    BY <1>1, <2>1, <2>2, <2>3, FlatTells
  <2> HIDE DEF values
  <2> QED BY <1>2, <1>4, <1>5, <1>6, <1>1, <2>4, <2>5 DEF TablesTold
<1> QED BY <1>1, <1>7, <1>8

\* So does every step: nothing else learns, and freeze() keeps the four tables.
LEMMA TablesStep == TablesTold /\ [Next]_vars => TablesTold'
<1> SUFFICES ASSUME TablesTold, [Next]_vars PROVE TablesTold'
  OBVIOUS
<1>1. CASE \E line \in Line : Observe(line)
  BY <1>1, TablesObserve
<1>2. CASE UNCHANGED <<train, model>>
  BY <1>2 DEF TablesTold, Told, Tells
<1>3. CASE Freeze
  <2>1. /\ train' = train /\ DOMAIN model' = DOMAIN model
        /\ model'.trie = model.trie /\ model'.direct = model.direct /\ model'.markov = model.markov
        /\ model'.markov1 = model.markov1 /\ model'.flat = model.flat
    BY <1>3 DEF Freeze, TablesTold
  <2> QED BY <2>1 DEF TablesTold, Told, Tells
<1>4. CASE \E line \in Line : Demand(line)
  <2>1. UNCHANGED <<train, model>>
    BY <1>4 DEF Demand
  <2> QED BY <1>2, <2>1
<1>5. CASE UNCHANGED vars
  BY <1>2, <1>5 DEF vars
<1> QED BY <1>1, <1>3, <1>4, <1>5 DEF Next

\* The contexts that the property looks at are contexts.
LEMMA CountsAre == TablesTold => CountsAreOccurrences
<1> SUFFICES ASSUME TablesTold PROVE CountsAreOccurrences
  OBVIOUS
<1> DEFINE seen == UNION {SuffixesOf(Recent(SubSeq(train, 1, i), Depth)) : i \in 1 .. Len(train)}
           Exact(table, contexts, h) ==
             \A c \in contexts, x \in Line : Times(At(table, c), x) = Occurrences(c, x, h)
<1>1. train \in Seq(Line) /\ Depth \in Nat \ {0}
  BY PredictorsAssumption DEF TablesTold
<1>2. seen \subseteq Contexts(1 .. Depth)
  <2> SUFFICES ASSUME NEW i \in 1 .. Len(train)
               PROVE  SuffixesOf(Recent(SubSeq(train, 1, i), Depth)) \subseteq Contexts(1 .. Depth)
    OBVIOUS
  <2>1. SubSeq(train, 1, i) \in Seq(Line)
    BY <1>1
  <2> QED BY <1>1, <2>1, SuffixesAre
<1>3. \A c, x, h : Occurrences(c, x, h) = Counts(train, c, x, h)
  BY DEF Occurrences, Counts
<1> HIDE DEF seen
<1>4. ASSUME NEW table, NEW lengths, NEW h, NEW contexts \in SUBSET Contexts(lengths),
             Tells(table, lengths, h, train)
      PROVE  Exact(table, contexts, h)
  BY <1>3, <1>4 DEF Tells
<1>5. /\ seen \cup DOMAIN model.trie \subseteq Contexts(1 .. Depth)
      /\ seen \cup DOMAIN model.direct \subseteq Contexts(1 .. Depth)
      /\ seen \cup DOMAIN model.markov \subseteq Contexts(1 .. Depth)
  BY <1>2 DEF TablesTold, Told
<1>6. /\ {c \in seen : Len(c) = 1} \subseteq Contexts(1 .. 1)
      /\ {c \in seen : Len(c) = Depth} \subseteq Contexts({Depth})
  BY <1>1, <1>2 DEF Contexts
<1> HIDE DEF Exact
<1>7. /\ Exact(model.trie, seen \cup DOMAIN model.trie, 1)
      /\ Exact(model.direct, seen \cup DOMAIN model.direct, Horizon)
      /\ Exact(model.markov, seen \cup DOMAIN model.markov, 1)
  BY <1>4, <1>5 DEF TablesTold, Told
<1>8. Exact(model.markov1, {c \in seen : Len(c) = 1}, 1)
  BY <1>4, <1>6 DEF TablesTold
<1>9. Exact(model.flat, {c \in seen : Len(c) = Depth}, Horizon)
  BY <1>4, <1>6 DEF TablesTold
<1> QED BY <1>7, <1>8, <1>9 DEF CountsAreOccurrences, seen, Exact

\* What a table learnt line by line says of a context is what one pass over the
\* training part would count, for every trace, depth and horizon.
THEOREM EveryCountIsOccurrences == Spec => []CountsAreOccurrences
BY TablesInit, TablesStep, CountsAre, PTL DEF Spec

--------------------------------------------------------------------------------
\* The hashed table against the flat table.

\* The buckets of the hashed table.
Buckets == 0 .. TableSize - 1

\* What is counted at one bucket: the occurrences that the flat table counts
\* behind any of some contexts.
Pairs(flat, contexts, x) == UNION {{c} \X (1 .. Times(At(flat, c), x)) : c \in contexts}

\* A table that counts in natural numbers, of known contexts only.
Counting(flat) == \A c, x : Times(At(flat, c), x) \in Nat

\* The members of Pairs, one by one.
LEMMA PairsAre ==
  ASSUME NEW flat, NEW contexts, NEW x, NEW e
  PROVE  e \in Pairs(flat, contexts, x) <=>
           \E c \in contexts : \E i \in 1 .. Times(At(flat, c), x) : e = <<c, i>>
BY DEF Pairs

\* One counter more for one pair.
PairsNext(flat, contexts, line, c, x, n) ==
  Pairs(Counted(flat, {c}, line), contexts \cup {c}, x) =
    IF x = line THEN Pairs(flat, contexts, x) \cup {<<c, n + 1>>} ELSE Pairs(flat, contexts, x)

\* One more occurrence of line behind c is one more pair where c is, and no
\* other anywhere.
LEMMA PairsGrow ==
  ASSUME NEW flat, NEW contexts, NEW line, NEW c, NEW x, NEW n \in Nat,
         Times(At(flat, c), x) = n,
         c \in contexts \/ n = 0
  PROVE  PairsNext(flat, contexts, line, c, x, n)
<1> DEFINE new == Counted(flat, {c}, line)
<1>1. \A k : TableRecurs(flat, {c}, line, k, x)
  BY CountedIs
<1>2. \A k : Times(At(new, k), x) = IF k = c /\ x = line THEN n + 1 ELSE Times(At(flat, k), x)
  BY <1>1 DEF TableRecurs
<1> HIDE DEF new
<1>3. CASE x = line
  <2>1. ASSUME NEW e
        PROVE  e \in Pairs(new, contexts \cup {c}, x)
                 <=> e \in Pairs(flat, contexts, x) \/ e = <<c, n + 1>>
    <3>1. ASSUME e \in Pairs(new, contexts \cup {c}, x)
          PROVE  e \in Pairs(flat, contexts, x) \/ e = <<c, n + 1>>
      <4>0. PICK k \in contexts \cup {c} : \E i \in 1 .. Times(At(new, k), x) : e = <<k, i>>
        BY <3>1, PairsAre
      <4>1. PICK i \in 1 .. Times(At(new, k), x) : e = <<k, i>>
        BY <4>0
      <4>2. CASE k = c
        <5>1. i \in 1 .. n + 1
          BY <1>2, <1>3, <4>1, <4>2
        <5>2. CASE i = n + 1
          BY <4>1, <4>2, <5>2
        <5>3. CASE i # n + 1
          <6>1. i \in 1 .. n /\ c \in contexts
            BY <5>1, <5>3
          <6> QED BY <4>1, <4>2, <6>1, PairsAre
        <5> QED BY <5>2, <5>3
      <4>3. CASE k # c
        <5>1. k \in contexts /\ i \in 1 .. Times(At(flat, k), x)
          BY <1>2, <4>1, <4>3
        <5> QED BY <4>1, <5>1, PairsAre
      <4> QED BY <4>2, <4>3
    <3>2. ASSUME e \in Pairs(flat, contexts, x) PROVE e \in Pairs(new, contexts \cup {c}, x)
      <4>0. PICK k \in contexts : \E i \in 1 .. Times(At(flat, k), x) : e = <<k, i>>
        BY <3>2, PairsAre
      <4>1. PICK i \in 1 .. Times(At(flat, k), x) : e = <<k, i>>
        BY <4>0
      <4>2. i \in 1 .. Times(At(new, k), x)
        BY <1>2, <1>3, <4>1
      <4> QED BY <4>1, <4>2, PairsAre
    <3>3. <<c, n + 1>> \in Pairs(new, contexts \cup {c}, x)
      <4>1. n + 1 \in 1 .. Times(At(new, c), x)
        BY <1>2, <1>3
      <4> QED BY <4>1, PairsAre
    <3> QED BY <3>1, <3>2, <3>3
  <2>2. Pairs(new, contexts \cup {c}, x) = Pairs(flat, contexts, x) \cup {<<c, n + 1>>}
    BY <2>1
  <2> QED BY <1>3, <2>2 DEF new, PairsNext
<1>4. CASE x # line
  <2>1. \A k : Times(At(new, k), x) = Times(At(flat, k), x)
    BY <1>2, <1>4
  <2>2. c \notin contexts => 1 .. Times(At(new, c), x) = {}
    BY <2>1
  <2>3. ASSUME NEW e
        PROVE  e \in Pairs(new, contexts \cup {c}, x) <=> e \in Pairs(flat, contexts, x)
    BY <2>1, <2>2, PairsAre
  <2>4. Pairs(new, contexts \cup {c}, x) = Pairs(flat, contexts, x)
    BY <2>3
  <2> QED BY <1>4, <2>4 DEF new, PairsNext
<1> QED BY <1>3, <1>4

\* Elsewhere nothing changes.
LEMMA PairsKept ==
  ASSUME NEW flat, NEW contexts, NEW line, NEW c, NEW x, c \notin contexts
  PROVE  Pairs(Counted(flat, {c}, line), contexts, x) = Pairs(flat, contexts, x)
<1>1. \A k : TableRecurs(flat, {c}, line, k, x)
  BY CountedIs
<1>2. \A k \in contexts : Times(At(Counted(flat, {c}, line), k), x) = Times(At(flat, k), x)
  BY <1>1 DEF TableRecurs
<1> QED BY <1>2 DEF Pairs
\* The buckets that some context has fallen into.
Taken(contexts) == {b \in Buckets : contexts[b] # {}}

\* The buckets against the flat table that counts the same contexts.
HashTold(flat, hash) ==
  /\ Counting(flat)
  /\ DOMAIN hash.counts = Buckets /\ DOMAIN hash.contexts = Buckets
  /\ \A b \in Buckets : \A c \in hash.contexts[b] : Bucket(c) = b
  /\ IsFiniteSet(DOMAIN flat)
  /\ \A c : c \in DOMAIN flat <=> \E b \in Buckets : c \in hash.contexts[b]
  /\ \A b \in Buckets, x \in Line :
       /\ IsFiniteSet(Pairs(flat, hash.contexts[b], x))
       /\ Times(hash.counts[b], x) = Cardinality(Pairs(flat, hash.contexts[b], x))
  /\ hash.collisions = Cardinality(DOMAIN flat) - Cardinality(Taken(hash.contexts))

\* new is the hash after one observation of a context.
BucketLearns(hash, new, c, line) ==
  /\ new.counts = [hash.counts EXCEPT ![Bucket(c)] = BG!BagAdd(@, line)]
  /\ new.contexts = [hash.contexts EXCEPT ![Bucket(c)] = @ \cup {c}]
  /\ new.collisions = hash.collisions
       + (IF hash.contexts[Bucket(c)] # {} /\ c \notin hash.contexts[Bucket(c)] THEN 1 ELSE 0)

\* One observation of a context, in the flat table and in its bucket.
LEMMA HashLearns ==
  ASSUME NEW flat, NEW hash, HashTold(flat, hash), NEW line \in Line, NEW c,
         Bucket(c) \in Buckets, NEW new, BucketLearns(hash, new, c, line)
  PROVE  HashTold(Counted(flat, {c}, line), new)
<1> DEFINE b == Bucket(c)
           table == Counted(flat, {c}, line)
           known == hash.contexts[b]
           n == Times(At(flat, c), line)
<1>1. /\ Counting(flat)
      /\ DOMAIN hash.counts = Buckets /\ DOMAIN hash.contexts = Buckets
      /\ \A a \in Buckets : \A k \in hash.contexts[a] : Bucket(k) = a
      /\ IsFiniteSet(DOMAIN flat)
      /\ \A k : k \in DOMAIN flat <=> \E a \in Buckets : k \in hash.contexts[a]
      /\ \A a \in Buckets, x \in Line :
           /\ IsFiniteSet(Pairs(flat, hash.contexts[a], x))
           /\ Times(hash.counts[a], x) = Cardinality(Pairs(flat, hash.contexts[a], x))
      /\ hash.collisions = Cardinality(DOMAIN flat) - Cardinality(Taken(hash.contexts))
  BY DEF HashTold
<1>2. b \in Buckets
  OBVIOUS
<1>3. /\ DOMAIN new.counts = Buckets /\ DOMAIN new.contexts = Buckets
      /\ new.counts[b] = BG!BagAdd(hash.counts[b], line)
      /\ new.contexts[b] = known \cup {c}
      /\ \A a \in Buckets : a # b => /\ new.counts[a] = hash.counts[a]
                                    /\ new.contexts[a] = hash.contexts[a]
  BY <1>1, <1>2 DEF BucketLearns
<1>4. new.collisions = hash.collisions + (IF known # {} /\ c \notin known THEN 1 ELSE 0)
  BY DEF BucketLearns
<1>5. /\ DOMAIN table = DOMAIN flat \cup {c}
      /\ \A k, x : TableRecurs(flat, {c}, line, k, x)
  BY CountedIs
<1>6. \A k, x : /\ Times(At(flat, k), x) \in Nat
                /\ Times(At(table, k), x) =
                     IF k = c /\ x = line THEN Times(At(flat, k), x) + 1 ELSE Times(At(flat, k), x)
  BY <1>1, <1>5 DEF Counting, TableRecurs
<1> HIDE DEF b, table, known
<1>7. c \in DOMAIN flat <=> c \in known
  BY <1>1, <1>2 DEF b, known
<1>8. \A x : c \in known \/ Times(At(flat, c), x) = 0
  <2>1. c \notin DOMAIN flat => At(flat, c) = EmptyBag
    BY DEF At
  <2> QED BY <1>7, <2>1, TimesAdd
<1>9. \A a \in Buckets : a # b => c \notin hash.contexts[a]
  BY <1>1 DEF b
<1>10. Counting(table)
  BY <1>6 DEF Counting
<1>11. \A a \in Buckets : \A k \in new.contexts[a] : Bucket(k) = a
  BY <1>1, <1>3 DEF b, known
<1>12. IsFiniteSet(DOMAIN table)
  BY <1>1, <1>5, FS_AddElement
<1>13. \A k : k \in DOMAIN table <=> \E a \in Buckets : k \in new.contexts[a]
  BY <1>1, <1>2, <1>3, <1>5 DEF known
<1>14. ASSUME NEW a \in Buckets, NEW x \in Line
       PROVE  /\ IsFiniteSet(Pairs(table, new.contexts[a], x))
              /\ Times(new.counts[a], x) = Cardinality(Pairs(table, new.contexts[a], x))
  <2>1. /\ IsFiniteSet(Pairs(flat, hash.contexts[a], x))
        /\ Times(hash.counts[a], x) = Cardinality(Pairs(flat, hash.contexts[a], x))
    BY <1>1
  <2>2. CASE a # b
    <3>1. Pairs(table, hash.contexts[a], x) = Pairs(flat, hash.contexts[a], x)
      BY <1>9, <2>2, PairsKept DEF table
    <3> QED BY <1>3, <2>1, <2>2, <3>1
  <2>3. CASE a = b
    <3> DEFINE m == Times(At(flat, c), x)
               P == Pairs(flat, known, x)
               Q == Pairs(table, known \cup {c}, x)
    <3>1. m \in Nat /\ (c \in known \/ m = 0)
      BY <1>6, <1>8
    <3>2. Q = IF x = line THEN P \cup {<<c, m + 1>>} ELSE P
      <4>1. PairsNext(flat, known, line, c, x, m)
        BY <3>1, PairsGrow
      <4> QED BY <4>1 DEF PairsNext, table
    <3>3. IsFiniteSet(P) /\ Times(hash.counts[b], x) = Cardinality(P)
      BY <2>1, <2>3 DEF known
    <3>4. <<c, m + 1>> \notin P
      <4>1. ASSUME <<c, m + 1>> \in P PROVE FALSE
        <5>1. PICK k \in known : \E i \in 1 .. Times(At(flat, k), x) : <<c, m + 1>> = <<k, i>>
          BY <4>1, PairsAre
        <5>2. PICK i \in 1 .. Times(At(flat, k), x) : <<c, m + 1>> = <<k, i>>
          BY <5>1
        <5>3. k = c /\ m + 1 = i
          BY <5>2
        <5>4. i \in 1 .. m
          BY <5>3
        <5> QED BY <3>1, <5>3, <5>4
      <4> QED BY <4>1
    <3>5. Times(new.counts[b], x) =
            IF x = line THEN Times(hash.counts[b], x) + 1 ELSE Times(hash.counts[b], x)
      BY <1>3, TimesAdd
    <3> HIDE DEF m, P, Q
    <3>6. IsFiniteSet(Q) /\ Times(new.counts[b], x) = Cardinality(Q)
      <4>1. CASE x = line
        <5> DEFINE e == <<c, m + 1>>
        <5>1. Q = P \cup {e} /\ e \notin P
          BY <3>2, <3>4, <4>1
        <5> HIDE DEF e
        <5>2. IsFiniteSet(Q) /\ Cardinality(Q) = Cardinality(P) + 1
          BY <3>3, <5>1, FS_AddElement
        <5> QED BY <3>3, <3>5, <4>1, <5>2
      <4>2. CASE x # line
        BY <3>2, <3>3, <3>5, <4>2
      <4> QED BY <4>1, <4>2
    <3> QED BY <1>3, <2>3, <3>6 DEF Q
  <2> QED BY <2>2, <2>3
<1>15. new.collisions = Cardinality(DOMAIN table) - Cardinality(Taken(new.contexts))
  <2> DEFINE T == Taken(hash.contexts)
  <2>1. Taken(new.contexts) = T \cup {b}
    <3>1. ASSUME NEW a \in Buckets PROVE new.contexts[a] # {} <=> hash.contexts[a] # {} \/ a = b
      BY <1>3
    <3> QED BY <1>2, <3>1 DEF Taken
  <2>2. IsFiniteSet(T)
    <3>1. IsFiniteSet(Buckets)
      <4>1. 0 \in Int /\ TableSize - 1 \in Int
        BY PredictorsAssumption
      <4> QED BY <4>1, FS_Interval DEF Buckets
    <3>2. T \subseteq Buckets
      BY DEF Taken
    <3> QED BY <3>1, <3>2, FS_Subset
  <2>3. b \in T <=> known # {}
    BY <1>2 DEF Taken, known
  <2>4. Cardinality(T \cup {b}) = IF b \in T THEN Cardinality(T) ELSE Cardinality(T) + 1
    <3> HIDE DEF T
    <3> QED BY <2>2, FS_AddElement
  <2>5. Cardinality(DOMAIN table) = IF c \in known THEN Cardinality(DOMAIN flat)
                                    ELSE Cardinality(DOMAIN flat) + 1
    BY <1>1, <1>5, <1>7, FS_AddElement
  <2>6. Cardinality(T) \in Nat /\ Cardinality(DOMAIN flat) \in Nat
    BY <1>1, <2>2, FS_CardinalityType
  <2>7. c \in known => known # {}
    OBVIOUS
  <2>8. hash.collisions = Cardinality(DOMAIN flat) - Cardinality(T)
    BY <1>1
  <2> DEFINE t == Cardinality(T)
             f == Cardinality(DOMAIN flat)
             free == known = {}
             found == c \in known
  <2>9. Cardinality(Taken(new.contexts)) = IF free THEN t + 1 ELSE t
    BY <2>1, <2>3, <2>4
  <2>10. new.collisions = hash.collisions + (IF ~ free /\ ~ found THEN 1 ELSE 0)
    BY <1>4
  <2>11. Cardinality(DOMAIN table) = IF found THEN f ELSE f + 1
    BY <2>5
  <2>12. t \in Nat /\ f \in Nat /\ hash.collisions = f - t /\ ~ (free /\ found)
    BY <2>6, <2>7, <2>8
  <2> HIDE DEF T, t, f, free, found
  <2> QED BY <2>9, <2>10, <2>11, <2>12
<1>16. HashTold(table, new)
  BY <1>3, <1>10, <1>11, <1>12, <1>13, <1>14, <1>15 DEF HashTold
<1> QED BY <1>16 DEF table
\* The inductive invariant of the hashed table.
HashInv ==
  /\ train \in Seq(Line)
  /\ {"flat", "hash"} \subseteq DOMAIN model
  /\ HashTold(model.flat, model.hash)
  /\ model.hash.observations = Judged(Len(train))

\* Every context falls into a bucket of the table.
LEMMA BucketIs ==
  ASSUME NEW p \in Seq(Line) PROVE Bucket(p) \in Buckets
<1> DEFINE c == Recent(p, Depth)
<1>1. Depth \in Nat \ {0} /\ TableSize \in Nat \ {0}
  BY PredictorsAssumption
<1>2. c \in Seq(Line) /\ Len(c) \in 0 .. Depth
  BY <1>1, RecentIs
<1> HIDE DEF c
<1>3. c \in [1 .. Len(c) -> Line]
  BY <1>2
<1>4. c \in SeqOf(Line, Depth)
  BY <1>2, <1>3 DEF SeqOf
<1>5. Mix(c) \in Nat
  BY <1>4, MixAssumption
<1>6. Mix(c) % TableSize \in 0 .. TableSize - 1
  BY <1>1, <1>5
<1> QED BY <1>6 DEF Bucket, Buckets, c

\* The hashed table starts empty.
LEMMA HashInit == Init => HashInv
<1> SUFFICES ASSUME Init PROVE HashInv
  OBVIOUS
<1>1. /\ train = <<>> /\ model.flat = <<>> /\ model.hash = EmptyHash
      /\ {"flat", "hash"} \subseteq DOMAIN model
  BY DEF Init
<1>2. /\ EmptyHash.counts = [b \in Buckets |-> EmptyBag]
      /\ EmptyHash.contexts = [b \in Buckets |-> {}]
      /\ EmptyHash.observations = 0 /\ EmptyHash.collisions = 0
  BY DEF EmptyHash, Buckets
<1>3. \A c, x : Times(At(<<>>, c), x) = 0
  <2>1. \A c : At(<<>>, c) = EmptyBag
    BY DEF At
  <2> QED BY <2>1, TimesAdd
<1>4. Counting(<<>>)
  BY <1>3 DEF Counting
<1>5. IsFiniteSet({}) /\ Cardinality({}) = 0
  BY FS_EmptySet
<1>6. Taken(EmptyHash.contexts) = {} /\ DOMAIN <<>> = {}
  BY <1>2 DEF Taken
<1>7. \A b \in Buckets : \A x : /\ Pairs(<<>>, EmptyHash.contexts[b], x) = {}
                                /\ Times(EmptyHash.counts[b], x) = 0
  <2>1. \A b \in Buckets : EmptyHash.contexts[b] = {} /\ EmptyHash.counts[b] = EmptyBag
    BY <1>2
  <2>2. \A x : Pairs(<<>>, {}, x) = {}
    BY DEF Pairs
  <2> QED BY <2>1, <2>2, TimesAdd
<1>8. HashTold(<<>>, EmptyHash)
  <2>1. DOMAIN EmptyHash.counts = Buckets /\ DOMAIN EmptyHash.contexts = Buckets
    BY <1>2
  <2>2. /\ \A b \in Buckets : \A c \in EmptyHash.contexts[b] : Bucket(c) = b
        /\ \A c : c \in DOMAIN <<>> <=> \E b \in Buckets : c \in EmptyHash.contexts[b]
    BY <1>2, <1>6
  <2>3. EmptyHash.collisions = Cardinality(DOMAIN <<>>) - Cardinality(Taken(EmptyHash.contexts))
    BY <1>2, <1>5, <1>6
  <2>4. \A b \in Buckets, x \in Line :
          /\ IsFiniteSet(Pairs(<<>>, EmptyHash.contexts[b], x))
          /\ Times(EmptyHash.counts[b], x) = Cardinality(Pairs(<<>>, EmptyHash.contexts[b], x))
    BY <1>5, <1>7
  <2>5. IsFiniteSet(DOMAIN <<>>)
    BY <1>5, <1>6
  <2> HIDE DEF EmptyHash
  <2> QED BY <1>4, <2>1, <2>2, <2>3, <2>4, <2>5 DEF HashTold
<1>9. Judged(Len(train)) = 0 /\ train \in Seq(Line)
  BY <1>1, PredictorsAssumption DEF Judged
<1> QED BY <1>1, <1>2, <1>8, <1>9 DEF HashInv

\* One line of the trace keeps the buckets true to the flat table.
LEMMA HashObserve ==
  ASSUME HashInv, NEW line \in Line, Observe(line) PROVE HashInv'
<1> DEFINE values == Append(train, line)
<1>1. /\ train \in Seq(Line) /\ values \in Seq(Line)
      /\ Horizon \in Nat \ {0} /\ Depth \in Nat \ {0} /\ Len(train) \in Nat
      /\ Len(values) = Len(train) + 1
  BY PredictorsAssumption DEF HashInv
<1>2. /\ train' = values
      /\ model'.flat = FlatLearns(model.flat, values)
      /\ model'.hash = HashedLearns(model.hash, values)
      /\ {"flat", "hash"} \subseteq DOMAIN model'
  BY DEF Observe
<1>3. /\ HashTold(model.flat, model.hash) /\ model.hash.observations = Judged(Len(train))
      /\ Judged(Len(train)) \in Nat
      /\ Judged(Len(train) + 1) =
           IF Len(train) + 1 - Horizon < 1 THEN Judged(Len(train)) ELSE Judged(Len(train)) + 1
  BY <1>1, JudgedNext DEF HashInv
<1>4. CASE Len(train) + 1 <= Horizon
  <2>1. model'.flat = model.flat /\ model'.hash = model.hash
    BY <1>1, <1>2, <1>4 DEF FlatLearns, HashedLearns
  <2>2. Judged(Len(train) + 1) = Judged(Len(train))
    BY <1>1, <1>3, <1>4
  <2> HIDE DEF values
  <2>3. model'.hash.observations = Judged(Len(train'))
    BY <1>1, <1>2, <1>3, <2>1, <2>2
  <2>4. HashTold(model'.flat, model'.hash)
    BY <1>3, <2>1
  <2> QED BY <1>1, <1>2, <2>3, <2>4 DEF HashInv, HashTold, Counting, Judged
<1>5. CASE Len(train) + 1 > Horizon
  <2> DEFINE c == Recent(Past(values, Horizon), Depth)
             flat == model.flat
             hash == model.hash
             new == model'.hash
  <2>1. Behind(Past(values, Horizon), train, Horizon) /\ Last(values) = line
    BY <1>1, <1>5, BehindPast
  <2>2. c \in Seq(Line)
    BY <1>1, <2>1, RecentIs DEF Behind
  <2>3. model'.flat = Counted(flat, {c}, line)
    BY <1>1, <1>2, <1>5, <2>1 DEF FlatLearns
  <2>4. new = [counts       |-> [hash.counts EXCEPT ![Bucket(c)] = BG!BagAdd(@, line)],
               contexts     |-> [hash.contexts EXCEPT ![Bucket(c)] = @ \cup {c}],
               observations |-> hash.observations + 1,
               collisions   |-> hash.collisions
                 + (IF hash.contexts[Bucket(c)] # {} /\ c \notin hash.contexts[Bucket(c)] THEN 1 ELSE 0)]
    BY <1>1, <1>2, <1>5, <2>1 DEF HashedLearns
  <2> HIDE DEF c, flat, hash, new, values
  <2>5. BucketLearns(hash, new, c, line) /\ new.observations = hash.observations + 1
    BY <2>4 DEF BucketLearns
  <2>6. HashTold(flat, hash)
    BY <1>3 DEF flat, hash
  <2>7. Bucket(c) \in Buckets
    BY <2>2, BucketIs
  <2>8. HashTold(Counted(flat, {c}, line), new)
    BY <2>5, <2>6, <2>7, HashLearns
  <2>9. new.observations = Judged(Len(train'))
    <3>1. Judged(Len(train) + 1) = Judged(Len(train)) + 1
      BY <1>1, <1>3, <1>5
    <3> QED BY <1>1, <1>2, <1>3, <2>5, <3>1 DEF hash
  <2>10. HashTold(model'.flat, model'.hash) /\ model'.hash.observations = Judged(Len(train'))
    BY <2>3, <2>8, <2>9 DEF new
  <2> QED BY <1>1, <1>2, <2>10 DEF HashInv, HashTold, Counting, Judged
<1> QED BY <1>1, <1>4, <1>5

\* So does every step.
LEMMA HashStep == HashInv /\ [Next]_vars => HashInv'
<1> SUFFICES ASSUME HashInv, [Next]_vars PROVE HashInv'
  OBVIOUS
<1>1. CASE \E line \in Line : Observe(line)
  BY <1>1, HashObserve
<1>2. CASE UNCHANGED <<train, model>>
  BY <1>2 DEF HashInv, HashTold, Counting, Judged
<1>3. CASE Freeze
  <2>1. /\ train' = train /\ DOMAIN model' = DOMAIN model
        /\ model'.flat = model.flat /\ model'.hash = model.hash
    BY <1>3 DEF Freeze, HashInv
  <2> QED BY <2>1 DEF HashInv, HashTold, Counting, Judged
<1>4. CASE \E line \in Line : Demand(line)
  <2>1. UNCHANGED <<train, model>>
    BY <1>4 DEF Demand
  <2> QED BY <1>2, <2>1
<1>5. CASE UNCHANGED vars
  BY <1>2, <1>5 DEF vars
<1> QED BY <1>1, <1>3, <1>4, <1>5 DEF Next

\* The inductive invariant says what HashedAccounts states.
LEMMA HashIs == HashInv => HashedAccounts
<1> SUFFICES ASSUME HashInv PROVE HashedAccounts
  OBVIOUS
<1>1. Len(train) \in Nat /\ Horizon \in Nat \ {0}
  BY PredictorsAssumption DEF HashInv
<1>2. Max({0, Len(train) - Horizon}) = Judged(Len(train))
  <2>1. Len(train) - Horizon \in Int
    BY <1>1
  <2>2. Max({0, Len(train) - Horizon}) = IF Len(train) - Horizon > 0 THEN Len(train) - Horizon ELSE 0
    BY <2>1, MaxOfTwo
  <2> QED BY <1>1, <2>2 DEF Judged
<1> DEFINE contexts == UNION {model.hash.contexts[b] : b \in Buckets}
<1>3. contexts = DOMAIN model.flat
  <2>1. \A c : c \in DOMAIN model.flat <=> \E b \in Buckets : c \in model.hash.contexts[b]
    BY DEF HashInv, HashTold
  <2>2. \A c : c \in contexts <=> \E b \in Buckets : c \in model.hash.contexts[b]
    OBVIOUS
  <2> HIDE DEF contexts
  <2> QED BY <2>1, <2>2
<1>4. /\ \A b \in Buckets, x \in Line :
           Times(model.hash.counts[b], x) = Cardinality(Pairs(model.flat, model.hash.contexts[b], x))
      /\ model.hash.collisions = Cardinality(DOMAIN model.flat) - Cardinality(Taken(model.hash.contexts))
      /\ model.hash.observations = Judged(Len(train))
  BY DEF HashInv, HashTold
<1>5. /\ \A b \in Buckets, x \in Line :
           Times(model.hash.counts[b], x) =
             Cardinality(UNION {{c} \X (1 .. Times(At(model.flat, c), x)) : c \in model.hash.contexts[b]})
      /\ model.hash.collisions = Cardinality(contexts)
           - Cardinality({b \in Buckets : model.hash.contexts[b] # {}})
  <2> HIDE DEF contexts
  <2> QED BY <1>3, <1>4 DEF Pairs, Taken
<1> QED BY <1>2, <1>3, <1>4, <1>5, Zenon DEF HashedAccounts, Buckets

\* A bucket's counts are those of the contexts that share it, and the collisions
\* reported are the contexts that found their bucket taken: for every trace,
\* number of buckets and hash.
THEOREM EveryBucketAccounted == Spec => []HashedAccounts
BY HashInit, HashStep, HashIs, PTL DEF Spec

--------------------------------------------------------------------------------
\* The bounded delta tables against the trace.

\* What a table in step says of a delta is at most the counters' limit.
LEMMA ReadsType ==
  ASSUME NEW table, InStep(table), NEW key, NEW d
  PROVE  Reads(table, key, d) \in 0 .. CounterMax
<1>1. CASE key \in DOMAIN table.counts /\ d \in DOMAIN table.counts[key]
  <2>1. table.counts[key][d] \in 1 .. CounterMax
    BY <1>1 DEF InStep
  <2> QED BY <1>1, <2>1, BoundedTableAssumption DEF Reads
<1>2. CASE ~ (key \in DOMAIN table.counts /\ d \in DOMAIN table.counts[key])
  <2>1. Reads(table, key, d) = 0
    BY <1>2 DEF Reads
  <2> QED BY <2>1, BoundedTableAssumption
<1> QED BY <1>1, <1>2

\* t is what t0 has become after each key of ks has been inserted once: nothing
\* but the target is counted, and where every key fits nothing is lost.
Becomes(t, t0, ks, target) ==
  /\ DOMAIN t.counts \subseteq DOMAIN t0.counts \cup ks
  /\ \A k, d : Reads(t, k, d) <= IF k \in ks /\ d = target THEN Saturated(Reads(t0, k, d))
                                ELSE Reads(t0, k, d)
  /\ IsFiniteSet(ks) /\ Cardinality(DOMAIN t0.counts \cup ks) <= EntryLimit =>
       /\ DOMAIN t.counts = DOMAIN t0.counts \cup ks
       /\ \A k, d : Reads(t, k, d) = IF k \in ks /\ d = target THEN Saturated(Reads(t0, k, d))
                                    ELSE Reads(t0, k, d)

\* What is read after one key has been inserted.
ReadsNext(table, key, target) ==
  LET new == Inserted(table, key, target)
  IN  /\ DOMAIN new.counts \subseteq DOMAIN table.counts \cup {key}
      /\ \A k, d : Reads(new, k, d) <= IF k = key /\ d = target THEN Saturated(Reads(table, k, d))
                                      ELSE Reads(table, k, d)
      /\ ~ Full(table, key) =>
           /\ DOMAIN new.counts = DOMAIN table.counts \cup {key}
           /\ \A k, d : Reads(new, k, d) = IF k = key /\ d = target THEN Saturated(Reads(table, k, d))
                                          ELSE Reads(table, k, d)

\* What is read of a key after it has been inserted, and of another.
LEMMA InsertedReads ==
  ASSUME NEW table, NEW K, table.order \in Seq(K), InStep(table), NEW key, NEW target
  PROVE  ReadsNext(table, key, target)
<1> DEFINE room == MadeRoom(table, key)
           D == DOMAIN room.counts
           seen == IF key \in D THEN room.counts[key] ELSE <<>>
           counted == CountedTarget(seen, target)
           new == Inserted(table, key, target)
           Was(k, d) == IF k = key /\ d = target THEN Saturated(Reads(table, k, d)) ELSE Reads(table, k, d)
           Has(k, d) == IF k = key /\ d = target THEN Saturated(Reads(room, k, d)) ELSE Reads(room, k, d)
<1>1. new.counts = [k \in D \cup {key} |-> IF k = key THEN counted ELSE room.counts[k]]
  BY DEF Inserted
<1>2. DOMAIN new.counts = D \cup {key}
  BY <1>1
<1>3. counted = [t \in DOMAIN seen \cup {target} |->
                   IF t # target THEN seen[t]
                   ELSE Saturated(IF t \in DOMAIN seen THEN seen[t] ELSE 0)]
  BY DEF CountedTarget
<1>4. \A d : Reads(room, key, d) = IF d \in DOMAIN seen THEN seen[d] ELSE 0
  BY DEF Reads
<1> HIDE DEF new, counted, seen
<1>5. \A d : Reads(new, key, d) = Has(key, d)
  <2>1. new.counts[key] = counted /\ key \in DOMAIN new.counts
    BY <1>1
  <2>2. \A d : Reads(new, key, d) = IF d \in DOMAIN counted THEN counted[d] ELSE 0
    BY <2>1 DEF Reads
  <2> QED BY <1>3, <1>4, <2>2
<1>6. \A k, d : k # key => Reads(new, k, d) = Has(k, d)
  <2>1. \A k : k # key => (k \in DOMAIN new.counts <=> k \in D)
    BY <1>2
  <2>2. \A k : k # key /\ k \in D => new.counts[k] = room.counts[k]
    BY <1>1
  <2> QED BY <2>1, <2>2 DEF Reads
<1>7. \A k, d : Reads(new, k, d) = Has(k, d)
  BY <1>5, <1>6
<1> HIDE DEF room
<1>8. CASE ~ Full(table, key)
  <2>1. room = table
    BY <1>8 DEF MadeRoom, room
  <2>2. \A k, d : Reads(new, k, d) = Was(k, d)
    BY <1>7, <2>1
  <2>3. \A k, d : Was(k, d) \in Nat
    <3>1. \A k, d : Reads(table, k, d) \in 0 .. CounterMax
      BY ReadsType
    <3>2. \A v \in 0 .. CounterMax : Saturated(v) \in Nat /\ v \in Nat
      BY SaturatedType, BoundedTableAssumption
    <3> QED BY <3>1, <3>2
  <2>4. DOMAIN new.counts = DOMAIN table.counts \cup {key}
    BY <1>2, <2>1
  <2> HIDE DEF Was, Has
  <2>5. \A k, d : Reads(new, k, d) <= Was(k, d)
    BY <2>2, <2>3
  <2> QED BY <2>2, <2>4, <2>5 DEF Was, new, ReadsNext
<1>9. CASE Full(table, key)
  <2>1. room.counts = [k \in DOMAIN table.counts \ {Head(table.order)} |-> table.counts[k]]
    BY <1>9 DEF MadeRoom, room
  <2>2. D \subseteq DOMAIN table.counts /\ key \notin DOMAIN table.counts /\ key \notin D
    BY <1>9, <2>1 DEF Full
  <2>3. \A k, d : Reads(room, k, d) = Reads(table, k, d) \/ Reads(room, k, d) = 0
    BY <2>1 DEF Reads
  <2>4. \A d : Reads(room, key, d) = 0 /\ Reads(table, key, d) = 0
    BY <2>2 DEF Reads
  <2>5. \A k, d : Reads(table, k, d) \in 0 .. CounterMax
    BY ReadsType
  <2>6. Saturated(0) \in Nat
    BY SaturatedType, BoundedTableAssumption
  <2>7. ASSUME NEW k, NEW d PROVE Has(k, d) <= Was(k, d)
    <3>1. CASE k = key
      BY <2>4, <2>6, <3>1
    <3>2. CASE k # key
      BY <2>3, <2>5, <3>2
    <3> QED BY <3>1, <3>2
  <2> HIDE DEF Was, Has
  <2>8. \A k, d : Reads(new, k, d) <= Was(k, d)
    BY <1>7, <2>7
  <2>9. DOMAIN new.counts \subseteq DOMAIN table.counts \cup {key}
    BY <1>2, <2>2
  <2> QED BY <1>9, <2>8, <2>9 DEF Was, new, ReadsNext
<1> QED BY <1>8, <1>9
\* What holds of 0 and passes on from each number to the next holds up to n.
LEMMA Climb ==
  ASSUME NEW n \in Nat, NEW T, 0 \in T, \A i \in 1 .. n : i - 1 \in T => i \in T
  PROVE  0 .. n \subseteq T
<1> DEFINE R == OpToRel(<, Nat)
           F == (0 .. n) \ T
<1>1. \A x, y \in Nat : x < y => <<x, y>> \in R
  BY DEF OpToRel
<1>2. IsWellFoundedOn(R, Nat)
  BY NatLessThanWellFounded, Zenon
<1> HIDE DEF R
<1> SUFFICES ASSUME F # {} PROVE FALSE
  OBVIOUS
<1>3. F \subseteq Nat
  OBVIOUS
<1>4. \E x \in F : \A y \in F : ~ (<<y, x>> \in R)
  <2> HIDE DEF F
  <2> QED BY <1>2, <1>3, WFMin
<1>5. PICK x \in F : \A y \in F : ~ (y < x)
  BY <1>1, <1>3, <1>4
<1>6. x # 0 /\ x \in 1 .. n
  OBVIOUS
<1>7. x - 1 \in T
  BY <1>5, <1>6
<1> QED BY <1>5, <1>6, <1>7

\* after is a run of the insertions of the keys.
Runs(after, n, table, keys, target) ==
  after = [i \in 0 .. n |-> IF i = 0 THEN table ELSE Inserted(after[i - 1], keys[i], target)]

\* The tables that fit() passes through exist, for any list of keys.
LEMMA RunExists ==
  ASSUME NEW n \in Nat, NEW table, NEW keys, NEW target
  PROVE  \E after : Runs(after, n, table, keys, target)
<1> DEFINE T == {m \in 0 .. n : \E after : Runs(after, m, table, keys, target)}
<1>1. 0 \in T
  <2> DEFINE after == [i \in 0 .. 0 |-> table]
  <2>1. Runs(after, 0, table, keys, target)
    BY DEF Runs
  <2> QED BY <2>1
<1>2. ASSUME NEW m \in 1 .. n, m - 1 \in T PROVE m \in T
  <2>1. PICK f : Runs(f, m - 1, table, keys, target)
    BY <1>2
  <2> DEFINE g == [i \in 0 .. m |-> IF i = m THEN Inserted(f[m - 1], keys[m], target) ELSE f[i]]
  <2>2. \A i \in 0 .. m - 1 : g[i] = f[i]
    OBVIOUS
  <2>3. \A i \in 0 .. m : g[i] = IF i = 0 THEN table ELSE Inserted(g[i - 1], keys[i], target)
    <3> SUFFICES ASSUME NEW i \in 0 .. m
                 PROVE  g[i] = IF i = 0 THEN table ELSE Inserted(g[i - 1], keys[i], target)
      OBVIOUS
    <3>1. CASE i = m
      <4>1. g[m] = Inserted(f[m - 1], keys[m], target) /\ g[m - 1] = f[m - 1]
        BY <2>2
      <4> QED BY <3>1, <4>1
    <3>2. CASE i # m
      <4>1. i \in 0 .. m - 1 /\ g[i] = f[i]
        BY <2>2, <3>2
      <4>2. f[i] = IF i = 0 THEN table ELSE Inserted(f[i - 1], keys[i], target)
        BY <2>1, <4>1 DEF Runs
      <4>3. i # 0 => g[i - 1] = f[i - 1]
        BY <2>2, <4>1
      <4> QED BY <4>1, <4>2, <4>3
    <3> QED BY <3>1, <3>2
  <2>4. g = [i \in 0 .. m |-> g[i]]
    OBVIOUS
  <2> HIDE DEF g
  <2>5. Runs(g, m, table, keys, target)
    BY <2>3, <2>4 DEF Runs
  <2> QED BY <2>5
<1> HIDE DEF T
<1>3. 0 .. n \subseteq T
  BY <1>1, <1>2, Climb
<1>4. n \in T
  BY <1>3
<1> QED BY <1>4 DEF T

\* fit() returns the last of them.
LEMMA InsertedAllRuns ==
  ASSUME NEW table, NEW keys, NEW target, Len(keys) \in Nat
  PROVE  \E after : /\ Runs(after, Len(keys), table, keys, target)
                    /\ InsertedAll(table, keys, target) = after[Len(keys)]
<1> DEFINE made == CHOOSE after : Runs(after, Len(keys), table, keys, target)
<1>1. \E after : Runs(after, Len(keys), table, keys, target)
  BY RunExists
<1>2. Runs(made, Len(keys), table, keys, target)
  BY <1>1
<1>3. InsertedAll(table, keys, target) = made[Len(keys)]
  BY DEF InsertedAll, Runs
<1> HIDE DEF made
<1> QED BY <1>2, <1>3

\* A table in step, and the kind of its keys.
Kept(table, K) == table.order \in Seq(K) /\ InStep(table)

\* One key keeps the table in step.
LEMMA InsertedKept ==
  ASSUME NEW table, NEW K, Kept(table, K), NEW key \in K, NEW target
  PROVE  Kept(Inserted(table, key, target), K)
BY InsertedInStep DEF Kept

\* A counter that is ahead stays ahead.
LEMMA SaturatedGrows ==
  \A v, w \in 0 .. CounterMax : v <= w => Saturated(v) <= Saturated(w)
BY BoundedTableAssumption DEF Saturated

\* Inserting one more key, which is not among those inserted before.
LEMMA BecomesNext ==
  ASSUME NEW t0, NEW t, NEW ks, NEW K, NEW target, Kept(t0, K), Kept(t, K),
         Becomes(t, t0, ks, target), NEW key \in K, key \notin ks
  PROVE  Becomes(Inserted(t, key, target), t0, ks \cup {key}, target)
<1> DEFINE new == Inserted(t, key, target)
           D0 == DOMAIN t0.counts
           D == DOMAIN t.counts
           Old(k, d) == IF k \in ks /\ d = target THEN Saturated(Reads(t0, k, d)) ELSE Reads(t0, k, d)
           Mid(k, d) == IF k = key /\ d = target THEN Saturated(Reads(t, k, d)) ELSE Reads(t, k, d)
           Was(k, d) == IF k \in ks \cup {key} /\ d = target THEN Saturated(Reads(t0, k, d))
                        ELSE Reads(t0, k, d)
<1>1. /\ D \subseteq D0 \cup ks
      /\ \A k, d : Reads(t, k, d) <= Old(k, d)
      /\ IsFiniteSet(ks) /\ Cardinality(D0 \cup ks) <= EntryLimit =>
           /\ D = D0 \cup ks
           /\ \A k, d : Reads(t, k, d) = Old(k, d)
  BY DEF Becomes
<1>2. ReadsNext(t, key, target) /\ Kept(new, K)
  BY InsertedReads, InsertedKept DEF Kept
<1>3. /\ DOMAIN new.counts \subseteq D \cup {key}
      /\ \A k, d : Reads(new, k, d) <= Mid(k, d)
      /\ ~ Full(t, key) => /\ DOMAIN new.counts = D \cup {key}
                          /\ \A k, d : Reads(new, k, d) = Mid(k, d)
  BY <1>2 DEF ReadsNext
<1>4. \A k, d : /\ Reads(t0, k, d) \in 0 .. CounterMax /\ Reads(t, k, d) \in 0 .. CounterMax
                /\ Reads(new, k, d) \in 0 .. CounterMax
  BY <1>2, ReadsType DEF Kept
<1>5. \A v \in 0 .. CounterMax : Saturated(v) \in 0 .. CounterMax
  BY SaturatedType, BoundedTableAssumption
<1> HIDE DEF new, D0, D
<1>6. ASSUME NEW k, NEW d PROVE Mid(k, d) <= Was(k, d) /\ Mid(k, d) \in Nat /\ Was(k, d) \in Nat
  <2>1. Reads(t, k, d) <= Old(k, d)
    BY <1>1
  <2>2. CASE k = key /\ d = target
    <3>1. Reads(t, k, d) <= Reads(t0, k, d)
      BY <2>1, <2>2
    <3>2. Saturated(Reads(t, k, d)) <= Saturated(Reads(t0, k, d))
      BY <1>4, <3>1, SaturatedGrows
    <3> QED BY <1>4, <1>5, <2>2, <3>2
  <2>3. CASE ~ (k = key /\ d = target)
    <3>1. Mid(k, d) = Reads(t, k, d) /\ Was(k, d) = Old(k, d)
      BY <2>3
    <3>2. Old(k, d) \in Nat
      BY <1>4, <1>5
    <3> HIDE DEF Mid, Was, Old
    <3> QED BY <1>4, <2>1, <3>1, <3>2
  <2> QED BY <2>2, <2>3
<1>7. ASSUME NEW k, NEW d PROVE Reads(new, k, d) <= Was(k, d)
  <2>1. Reads(new, k, d) <= Mid(k, d) /\ Reads(new, k, d) \in Nat
    BY <1>3, <1>4
  <2>2. Mid(k, d) <= Was(k, d) /\ Mid(k, d) \in Nat /\ Was(k, d) \in Nat
    BY <1>6
  <2> HIDE DEF Mid, Was, Old
  <2> QED BY <2>1, <2>2
<1>8. ASSUME IsFiniteSet(ks \cup {key}), Cardinality(D0 \cup (ks \cup {key})) <= EntryLimit
      PROVE  /\ DOMAIN new.counts = D0 \cup (ks \cup {key})
             /\ \A k, d : Reads(new, k, d) = Was(k, d)
  <2>1. IsFiniteSet(ks) /\ IsFiniteSet(D0)
    <3>1. IsFiniteSet(D0)
      BY SameSize DEF Kept, D0
    <3>2. IsFiniteSet(ks)
      BY <1>8, FS_Subset
    <3> QED BY <3>1, <3>2
  <2> DEFINE E == D0 \cup ks
  <2>2. IsFiniteSet(E)
    BY <2>1, FS_Union
  <2>3. D0 \cup (ks \cup {key}) = E \cup {key}
    OBVIOUS
  <2> HIDE DEF E
  <2>4. /\ Cardinality(E) \in Nat
        /\ Cardinality(E \cup {key}) = IF key \in E THEN Cardinality(E) ELSE Cardinality(E) + 1
    BY <2>2, FS_AddElement, FS_CardinalityType
  <2>5. Cardinality(E \cup {key}) <= EntryLimit /\ EntryLimit \in Nat
    BY <1>8, <2>3, BoundedTableAssumption
  <2>6. Cardinality(E) <= EntryLimit
    BY <2>4, <2>5
  <2>7. D = E /\ \A k, d : Reads(t, k, d) = Old(k, d)
    BY <1>1, <2>1, <2>6 DEF E
  <2>8. ~ Full(t, key)
    <3>1. ASSUME Full(t, key) PROVE FALSE
      <4>1. key \notin E /\ Cardinality(E) >= EntryLimit
        BY <2>7, <3>1 DEF Full, D
      <4> QED BY <2>4, <2>5, <4>1
    <3> QED BY <3>1
  <2>9. DOMAIN new.counts = E \cup {key} /\ \A k, d : Reads(new, k, d) = Mid(k, d)
    BY <1>3, <2>7, <2>8
  <2>10. ASSUME NEW k, NEW d PROVE Mid(k, d) = Was(k, d)
    <3>1. Reads(t, k, d) = Old(k, d)
      BY <2>7
    <3> QED BY <3>1
  <2> HIDE DEF Mid, Was
  <2> QED BY <2>3, <2>9, <2>10
<1>9. DOMAIN new.counts \subseteq D0 \cup (ks \cup {key})
  BY <1>1, <1>3
<1> QED BY <1>7, <1>8, <1>9 DEF Becomes, new, D0
\* fit() over the keys of one position keeps the table in step.
LEMMA InsertedAllKept ==
  ASSUME NEW t0, NEW K, Kept(t0, K), NEW keys, Len(keys) \in Nat,
         \A i \in 1 .. Len(keys) : keys[i] \in K, NEW target
  PROVE  Kept(InsertedAll(t0, keys, target), K)
<1> DEFINE n == Len(keys)
<1>1. PICK after : Runs(after, n, t0, keys, target) /\ InsertedAll(t0, keys, target) = after[n]
  BY InsertedAllRuns
<1> DEFINE T == {i \in 0 .. n : Kept(after[i], K)}
<1> HIDE DEF n
<1>2. n \in Nat /\ \A i \in 1 .. n : keys[i] \in K
  BY DEF n
<1>3. after[0] = t0 /\ \A i \in 1 .. n : after[i] = Inserted(after[i - 1], keys[i], target)
  BY <1>1, <1>2 DEF Runs
<1>4. 0 \in T
  BY <1>2, <1>3
<1>5. ASSUME NEW i \in 1 .. n, i - 1 \in T PROVE i \in T
  BY <1>2, <1>3, <1>5, InsertedKept
<1> HIDE DEF T
<1>6. 0 .. n \subseteq T
  BY <1>2, <1>4, <1>5, Climb
<1>7. n \in T
  BY <1>2, <1>6
<1> QED BY <1>1, <1>7 DEF T

\* What has become of the table after the distinct keys of one position.
LEMMA InsertedAllBecomes ==
  ASSUME NEW t0, NEW K, Kept(t0, K), NEW keys, Len(keys) \in Nat,
         \A i \in 1 .. Len(keys) : keys[i] \in K,
         \A i, j \in 1 .. Len(keys) : keys[i] = keys[j] => i = j, NEW target
  PROVE  Becomes(InsertedAll(t0, keys, target), t0, {keys[i] : i \in 1 .. Len(keys)}, target)
<1> DEFINE n == Len(keys)
           Ks(i) == {keys[j] : j \in 1 .. i}
<1>1. PICK after : Runs(after, n, t0, keys, target) /\ InsertedAll(t0, keys, target) = after[n]
  BY InsertedAllRuns
<1> DEFINE T == {i \in 0 .. n : Kept(after[i], K) /\ Becomes(after[i], t0, Ks(i), target)}
<1> HIDE DEF n
<1>2. /\ n \in Nat /\ \A i \in 1 .. n : keys[i] \in K
      /\ \A i, j \in 1 .. n : keys[i] = keys[j] => i = j
  BY DEF n
<1>3. after[0] = t0 /\ \A i \in 1 .. n : after[i] = Inserted(after[i - 1], keys[i], target)
  BY <1>1, <1>2 DEF Runs
<1>4. 0 \in T
  <2>1. Ks(0) = {}
    OBVIOUS
  <2>2. \A k, d : Reads(t0, k, d) \in 0 .. CounterMax
    BY ReadsType DEF Kept
  <2>3. \A k, d : Reads(t0, k, d) <= Reads(t0, k, d)
    BY <2>2, BoundedTableAssumption
  <2>4. Becomes(t0, t0, {}, target)
    BY <2>3 DEF Becomes
  <2> HIDE DEF Ks
  <2>5. Kept(after[0], K) /\ Becomes(after[0], t0, Ks(0), target)
    BY <1>3, <2>1, <2>4
  <2> QED BY <1>2, <2>5
<1>5. ASSUME NEW i \in 1 .. n, i - 1 \in T PROVE i \in T
  <2>1. Kept(after[i - 1], K) /\ Becomes(after[i - 1], t0, Ks(i - 1), target)
    BY <1>5
  <2>2. \A j : j \in 1 .. i <=> j \in 1 .. i - 1 \/ j = i
    BY <1>2
  <2>3. Ks(i) = Ks(i - 1) \cup {keys[i]}
    BY <2>2
  <2>4. keys[i] \notin Ks(i - 1)
    <3>1. \A j \in 1 .. i - 1 : j \in 1 .. n /\ j # i
      BY <1>2
    <3>2. \A j \in 1 .. i - 1 : keys[j] # keys[i]
      BY <1>2, <3>1
    <3> QED BY <3>2
  <2> HIDE DEF Ks
  <2>5. keys[i] \in K
    BY <1>2
  <2>6. Becomes(Inserted(after[i - 1], keys[i], target), t0, Ks(i - 1) \cup {keys[i]}, target)
    BY <2>1, <2>4, <2>5, BecomesNext
  <2>7. Kept(Inserted(after[i - 1], keys[i], target), K)
    BY <2>1, <2>5, InsertedKept
  <2>8. after[i] = Inserted(after[i - 1], keys[i], target)
    BY <1>3
  <2>9. Kept(after[i], K) /\ Becomes(after[i], t0, Ks(i), target)
    BY <2>3, <2>6, <2>7, <2>8
  <2>10. i \in 0 .. n
    BY <1>2
  <2> QED BY <2>9, <2>10
<1> HIDE DEF T
<1>6. 0 .. n \subseteq T
  BY <1>2, <1>4, <1>5, Climb
<1>7. n \in T
  BY <1>2, <1>6
<1> QED BY <1>1, <1>7 DEF T, n

\* The smaller of two numbers.
LEMMA MinOfTwo ==
  ASSUME NEW a \in Int, NEW b \in Int
  PROVE  Min({a, b}) = IF a <= b THEN a ELSE b
<1>1. CASE a <= b
  <2>1. \A x \in {a, b} : (\A y \in {a, b} : x <= y) => x = a
    BY <1>1
  <2>2. Min({a, b}) \in {a, b} /\ \A y \in {a, b} : Min({a, b}) <= y
    BY <1>1 DEF Min
  <2> QED BY <1>1, <2>1, <2>2
<1>2. CASE ~ (a <= b)
  <2>1. \A x \in {a, b} : (\A y \in {a, b} : x <= y) => x = b
    BY <1>2
  <2>2. Min({a, b}) \in {a, b} /\ \A y \in {a, b} : Min({a, b}) <= y
    BY <1>2 DEF Min
  <2> QED BY <1>2, <2>1, <2>2
<1> QED BY <1>1, <1>2
\* What _deltas() returns, index by index.
DeltasOf(s) ==
  /\ Deltas(s) \in Seq(Int)
  /\ Len(Deltas(s)) = IF Len(s) = 0 THEN 0 ELSE Len(s) - 1
  /\ \A i \in 1 .. Len(s) - 1 : Deltas(s)[i] = s[i + 1] - s[i]

\* A line is a number.
LEMMA LinesAreIntegers == \A line \in Line : line \in Int
BY LearningAssumption

\* _deltas() returns one delta less than there are lines.
LEMMA DeltasAre == \A s \in Seq(Line) : DeltasOf(s)
<1> SUFFICES ASSUME NEW s \in Seq(Line) PROVE DeltasOf(s)
  OBVIOUS
<1>1. \A i \in 1 .. Len(s) : s[i] \in Int
  <2>1. \A i \in 1 .. Len(s) : s[i] \in Line
    OBVIOUS
  <2> QED BY <2>1, LinesAreIntegers
<1>2. Len(s) \in Nat
  OBVIOUS
<1>3. \A i \in 1 .. Len(s) - 1 : s[i + 1] - s[i] \in Int
  BY <1>1, <1>2
<1>4. CASE Len(s) = 0
  <2>1. Deltas(s) = <<>>
    BY <1>4 DEF Deltas
  <2> QED BY <1>4, <2>1 DEF DeltasOf
<1>5. CASE Len(s) # 0
  <2> DEFINE n == Len(s) - 1
  <2>1. n \in Nat
    BY <1>2, <1>5
  <2>2. Deltas(s) = [i \in 1 .. n |-> s[i + 1] - s[i]]
    BY DEF Deltas
  <2> HIDE DEF n
  <2>3. /\ [i \in 1 .. n |-> s[i + 1] - s[i]] \in Seq(Int)
        /\ Len([i \in 1 .. n |-> s[i + 1] - s[i]]) = n
    BY <1>3, <2>1 DEF n
  <2> QED BY <1>5, <2>2, <2>3 DEF n, DeltasOf
<1> QED BY <1>4, <1>5

\* One more line is one more delta.
LEMMA DeltasNext ==
  ASSUME NEW s \in Seq(Line), s # <<>>, NEW line \in Line
  PROVE  /\ line - s[Len(s)] \in Int
         /\ Deltas(Append(s, line)) = Append(Deltas(s), line - s[Len(s)])
         /\ Len(Deltas(s)) = Len(s) - 1 /\ Deltas(s) \in Seq(Int)
<1> DEFINE t == Append(s, line)
           n == Len(s)
           d == line - s[n]
<1>1. /\ t \in Seq(Line) /\ n \in Nat \ {0} /\ Len(t) = n + 1 /\ t[n + 1] = line
      /\ \A i \in 1 .. n : t[i] = s[i]
  OBVIOUS
<1>2. line \in Int /\ s[n] \in Int
  <2>1. line \in Line /\ s[n] \in Line
    BY <1>1
  <2> QED BY <2>1, LinesAreIntegers
<1> HIDE DEF t
<1>3. /\ Deltas(s) \in Seq(Int) /\ Len(Deltas(s)) = n - 1
      /\ \A i \in 1 .. n - 1 : Deltas(s)[i] = s[i + 1] - s[i]
  <2>1. DeltasOf(s)
    BY DeltasAre
  <2> QED BY <1>1, <2>1 DEF DeltasOf
<1>4. /\ Deltas(t) \in Seq(Int) /\ Len(Deltas(t)) = n
      /\ \A i \in 1 .. n : Deltas(t)[i] = t[i + 1] - t[i]
  <2>1. DeltasOf(t)
    BY <1>1, DeltasAre
  <2>2. (n + 1) - 1 = n
    BY <1>1
  <2> QED BY <1>1, <2>1, <2>2 DEF DeltasOf
<1>5. d \in Int
  BY <1>2
<1>6. /\ Append(Deltas(s), d) \in Seq(Int) /\ Len(Append(Deltas(s), d)) = n
      /\ \A i \in 1 .. n : Append(Deltas(s), d)[i] = IF i = n THEN d ELSE Deltas(s)[i]
  BY <1>1, <1>3, <1>5
<1>7. ASSUME NEW i \in 1 .. n PROVE Deltas(t)[i] = Append(Deltas(s), d)[i]
  <2>1. Deltas(t)[i] = t[i + 1] - t[i]
    BY <1>4
  <2>2. CASE i = n
    BY <1>1, <1>6, <2>1, <2>2
  <2>3. CASE i # n
    <3>1. i \in 1 .. n - 1 /\ i + 1 \in 1 .. n /\ i \in 1 .. n
      BY <1>1, <2>3
    <3> QED BY <1>1, <1>3, <1>6, <2>1, <2>3, <3>1
  <2> QED BY <2>2, <2>3
<1> HIDE DEF n, d
<1>8. Deltas(t) = Append(Deltas(s), d)
  BY <1>4, <1>6, <1>7, SeqEqual
<1> QED BY <1>3, <1>5, <1>8 DEF t, n, d

\* The deltas up to the past line.
LEMMA PastDeltas ==
  ASSUME NEW s \in Seq(Line), NEW line \in Line, NEW h \in Nat \ {0}, Len(s) - h >= 1
  PROVE  /\ Deltas(Past(Append(s, line), h)) \in Seq(Int)
         /\ Len(Deltas(Past(Append(s, line), h))) = Len(s) - h
         /\ \A i \in 1 .. Len(s) - h : Deltas(Past(Append(s, line), h))[i] = Deltas(s)[i]
         /\ Last(Append(s, line)) - Last(Past(Append(s, line), h)) = line - s[Len(s) + 1 - h]
<1> DEFINE t == Append(s, line)
           q == Len(s) + 1 - h
           p == SubSeq(t, 1, q)
<1>1. /\ t \in Seq(Line) /\ Len(t) = Len(s) + 1 /\ t[Len(s) + 1] = line
      /\ \A i \in 1 .. Len(s) : t[i] = s[i]
      /\ q \in Nat /\ q <= Len(s) /\ q >= 2 /\ Len(s) \in Nat
  OBVIOUS
<1>2. Past(t, h) = p /\ Last(t) = line
  BY <1>1 DEF Past, Last
<1> HIDE DEF t, q
<1>3. p \in Seq(Line) /\ Len(p) = q /\ \A i \in 1 .. q : p[i] = t[i]
  BY <1>1
<1> HIDE DEF p
<1>4. /\ Deltas(p) \in Seq(Int) /\ Len(Deltas(p)) = q - 1
      /\ \A i \in 1 .. q - 1 : Deltas(p)[i] = p[i + 1] - p[i]
  <2>1. DeltasOf(p)
    BY <1>3, DeltasAre
  <2> QED BY <1>1, <1>3, <2>1 DEF DeltasOf
<1>5. \A i \in 1 .. Len(s) - 1 : Deltas(s)[i] = s[i + 1] - s[i]
  BY DeltasAre DEF DeltasOf
<1>6. ASSUME NEW i \in 1 .. q - 1 PROVE Deltas(p)[i] = Deltas(s)[i]
  <2>1. /\ i + 1 \in 1 .. q /\ i \in 1 .. q /\ i \in 1 .. Len(s) - 1
        /\ i + 1 \in 1 .. Len(s) /\ i \in 1 .. Len(s)
    BY <1>1
  <2> QED BY <1>1, <1>3, <1>4, <1>5, <2>1
<1>7. Last(p) = s[q]
  <2>1. q \in 1 .. q /\ q \in 1 .. Len(s)
    BY <1>1
  <2>2. Last(p) = p[q]
    BY <1>3 DEF Last
  <2> QED BY <1>1, <1>3, <2>1, <2>2
<1>8. q - 1 = Len(s) - h
  BY <1>1 DEF q
<1>9. Last(t) - Last(p) = line - s[q]
  BY <1>2, <1>7
<1> QED BY <1>2, <1>4, <1>6, <1>8, <1>9 DEF t, q
\* How the sightings of a key grow by one line.
SeenRecurs(s, line, key, d, h) ==
  /\ SeenOf(s, key, d, h) \in Nat
  /\ SeenOf(Append(s, line), key, d, h) =
       SeenOf(s, key, d, h)
         + (IF Ends(Deltas(s), Len(s) - h, key) /\ line - s[Len(s) + 1 - h] = d THEN 1 ELSE 0)

\* Before there is a delta with a target nothing has been seen.
LEMMA NothingYet ==
  ASSUME NEW s \in Seq(Line), NEW h \in Nat \ {0}, Len(Deltas(s)) <= h
  PROVE  /\ \A lengths : KeysOf(s, lengths, h) = {}
         /\ \A key, d : Len(key) \in Nat \ {0} => SeenOf(s, key, d, h) = 0
<1>1. Len(Deltas(s)) \in Nat
  <2>1. Deltas(s) \in Seq(Int)
    BY DeltasAre DEF DeltasOf
  <2> QED BY <2>1
<1> DEFINE m == Len(Deltas(s))
<1> HIDE DEF m
<1>2. m \in Nat /\ m - h <= 0 /\ m - h \in Int
  BY <1>1 DEF m
<1>3. 1 .. m - h = {}
  BY <1>2
<1>4. \A lengths : KeysOf(s, lengths, h) = {}
  BY <1>3 DEF KeysOf, m
<1>5. ASSUME NEW key, NEW d, Len(key) \in Nat \ {0} PROVE SeenOf(s, key, d, h) = 0
  <2>1. Len(key) .. m - h = {}
    BY <1>2, <1>5
  <2>2. SeenOf(s, key, d, h) = Cardinality({})
    BY <2>1 DEF SeenOf, m
  <2> QED BY <2>2, FS_EmptySet
<1> QED BY <1>4, <1>5

\* One more line adds one sighting of the key and the delta that it completes.
LEMMA SeenNext ==
  ASSUME NEW s \in Seq(Line), NEW line \in Line, NEW h \in Nat \ {0},
         NEW key \in Seq(Int), Len(key) # 0, NEW d
  PROVE  SeenRecurs(s, line, key, d, h)
<1> DEFINE t == Append(s, line)
           ds == Deltas(s)
           dt == Deltas(t)
           l == Len(key)
           n == Len(s)
           q == n - h
           A == {i \in l .. n - 1 - h : SubSeq(ds, i - l + 1, i) = key /\ s[i + 1 + h] - s[i + 1] = d}
           B == {i \in l .. n - h : SubSeq(dt, i - l + 1, i) = key /\ t[i + 1 + h] - t[i + 1] = d}
           new == Ends(ds, q, key) /\ line - s[n + 1 - h] = d
<1>1. n \in Nat /\ l \in Nat /\ l # 0 /\ q \in Int /\ q < n /\ t \in Seq(Line)
  OBVIOUS
<1>2. CASE n = 0
  <2>1. Len(ds) = 0 /\ Len(dt) = 0
    <3>1. DeltasOf(s)
      BY DeltasAre
    <3>2. Len(t) = 1
      BY <1>2
    <3>3. DeltasOf(t)
      <4> HIDE DEF t
      <4> QED BY <1>1, DeltasAre
    <3> QED BY <1>2, <3>1, <3>2, <3>3 DEF DeltasOf
  <2>2. Len(ds) <= h /\ Len(dt) <= h
    BY <2>1
  <2>3. SeenOf(s, key, d, h) = 0
    BY <1>1, <2>2, NothingYet
  <2>4. SeenOf(t, key, d, h) = 0
    <3> HIDE DEF t
    <3> QED BY <1>1, <2>2, NothingYet
  <2>5. ~ Ends(ds, q, key)
    BY <1>1, <1>2 DEF Ends
  <2> QED BY <2>3, <2>4, <2>5 DEF SeenRecurs
<1>3. CASE n # 0
  <2>1. Len(t) = n + 1 /\ t[n + 1] = line /\ \A i \in 1 .. n : t[i] = s[i]
    OBVIOUS
  <2>2. /\ line - s[n] \in Int /\ dt = Append(ds, line - s[n])
        /\ Len(ds) = n - 1 /\ ds \in Seq(Int) /\ Len(dt) = n
    <3>1. s # <<>>
      BY <1>3
    <3>2. /\ line - s[n] \in Int /\ dt = Append(ds, line - s[n])
          /\ Len(ds) = n - 1 /\ ds \in Seq(Int)
      BY <3>1, DeltasNext
    <3>3. Len(Append(ds, line - s[n])) = Len(ds) + 1
      BY <3>2
    <3> QED BY <1>1, <3>2, <3>3
  <2>3. \A i \in l .. n - h : SubSeq(dt, i - l + 1, i) = SubSeq(ds, i - l + 1, i)
    <3> SUFFICES ASSUME NEW i \in l .. n - h
        PROVE  SubSeq(dt, i - l + 1, i) = SubSeq(ds, i - l + 1, i)
      OBVIOUS
    <3> DEFINE a == i - l + 1
               last == line - s[n]
    <3>1. i \in Nat /\ i <= Len(ds) /\ a \in Int /\ a >= 1
      BY <1>1, <2>2
    <3>2. last \in Int /\ ds \in Seq(Int) /\ dt = Append(ds, last)
      BY <2>2
    <3> HIDE DEF ds, dt, a, last
    <3>3. SubSeq(Append(ds, last), a, i) = SubSeq(ds, a, i)
      BY <3>1, <3>2, AppendKeeps
    <3> QED BY <3>2, <3>3 DEF a
  <2> HIDE DEF t, l, n, q, ds, dt
  <2>4. IsFiniteSet(A) /\ Cardinality(A) \in Nat /\ q \notin A
    <3>1. l \in Int /\ n - 1 - h \in Int
      BY <1>1
    <3>2. IsFiniteSet(l .. n - 1 - h)
      BY <3>1, FS_Interval
    <3>3. IsFiniteSet(A)
      BY <3>2, FS_Subset
    <3>4. ~ (q <= n - 1 - h)
      BY <1>1 DEF q
    <3> QED BY <3>3, <3>4, FS_CardinalityType
  <2>5. B = IF new THEN A \cup {q} ELSE A
    <3>1. \A i : i \in l .. n - h <=> (i \in l .. n - 1 - h \/ (i = q /\ l <= q))
      BY <1>1 DEF q
    <3>2. \A i \in l .. n - 1 - h : i + 1 + h \in 1 .. n /\ i + 1 \in 1 .. n
      BY <1>1
    <3>3. \A i \in l .. n - 1 - h : i \in B <=> i \in A
      BY <2>1, <2>3, <3>1, <3>2
    <3>4. q + 1 + h = n + 1 /\ q + 1 = n + 1 - h /\ (l <= q => q + 1 \in 1 .. n)
      BY <1>1 DEF q
    <3>5. l <= q => (q \in B <=> SubSeq(ds, q - l + 1, q) = key /\ line - s[n + 1 - h] = d)
      BY <2>1, <2>3, <3>1, <3>4
    <3>6. new <=> l <= q /\ SubSeq(ds, q - l + 1, q) = key /\ line - s[n + 1 - h] = d
      BY DEF Ends, l
    <3>7. \A i \in B : i \in l .. n - 1 - h \/ (i = q /\ l <= q)
      BY <3>1
    <3>8. \A i \in A : i \in l .. n - 1 - h
      OBVIOUS
    <3>9. q \in B => l <= q
      BY <3>7, <2>4, <3>1, <1>1
    <3> HIDE DEF A, B, new
    <3>10. CASE new
      <4>1. q \in B
        BY <3>5, <3>6, <3>10
      <4>2. \A i : i \in B <=> i \in A \/ i = q
        BY <3>3, <3>7, <3>8, <4>1
      <4>3. B = A \cup {q}
        BY <4>2
      <4> QED BY <3>10, <4>3
    <3>11. CASE ~ new
      <4>1. q \notin B
        BY <3>5, <3>6, <3>9, <3>11
      <4>2. \A i : i \in B <=> i \in A
        BY <3>3, <3>7, <3>8, <4>1
      <4>3. B = A
        BY <4>2
      <4> QED BY <3>11, <4>3
    <3> QED BY <3>10, <3>11
  <2>6. SeenOf(s, key, d, h) = Cardinality(A) /\ SeenOf(t, key, d, h) = Cardinality(B)
    BY <1>1, <2>2 DEF SeenOf, l, ds, dt
  <2> HIDE DEF A, B, new
  <2>7. Cardinality(B) = Cardinality(A) + (IF new THEN 1 ELSE 0)
    <3>1. CASE new
      BY <2>4, <2>5, <3>1, FS_AddElement
    <3>2. CASE ~ new
      BY <2>4, <2>5, <3>2
    <3> QED BY <3>1, <3>2
  <2> QED BY <2>4, <2>6, <2>7 DEF SeenRecurs, t, new, q, n, ds
<1> QED BY <1>2, <1>3
\* The keys that end at position q of the deltas.
KeysAt(ds, q, lengths) == {SubSeq(ds, q - n + 1, q) : n \in {m \in lengths : m <= q}}

\* The keys of some lengths: sequences of deltas.
Strides(lengths) == {key \in Seq(Int) : Len(key) \in lengths}

\* KeysAt() has the keys that end at its position.
LEMMA KeysAtAre ==
  ASSUME NEW ds \in Seq(Int), NEW q \in Nat, q <= Len(ds), NEW lengths \in SUBSET (Nat \ {0})
  PROVE  /\ KeysAt(ds, q, lengths) \subseteq Strides(lengths)
         /\ \A key \in Strides(lengths) : key \in KeysAt(ds, q, lengths) <=> Ends(ds, q, key)
<1>1. ASSUME NEW n \in lengths, n <= q
      PROVE  SubSeq(ds, q - n + 1, q) \in Seq(Int) /\ Len(SubSeq(ds, q - n + 1, q)) = n
  <2>1. n \in Nat /\ n # 0
    OBVIOUS
  <2>2. q - n + 1 \in Nat /\ q - n + 1 >= 1 /\ q - n + 1 <= q
    BY <1>1, <2>1
  <2>3. \A i \in q - n + 1 .. q : i \in 1 .. Len(ds)
    BY <2>2
  <2>4. SubSeq(ds, q - n + 1, q) \in Seq(Int) /\ Len(SubSeq(ds, q - n + 1, q)) = q - (q - n + 1) + 1
    BY <2>2, <2>3
  <2> QED BY <2>1, <2>4
<1>2. KeysAt(ds, q, lengths) \subseteq Strides(lengths)
  BY <1>1 DEF KeysAt, Strides
<1>3. ASSUME NEW key \in Strides(lengths) PROVE key \in KeysAt(ds, q, lengths) <=> Ends(ds, q, key)
  <2>1. Len(key) \in lengths
    BY DEF Strides
  <2>2. ASSUME key \in KeysAt(ds, q, lengths) PROVE Ends(ds, q, key)
    <3>1. PICK n \in {m \in lengths : m <= q} : key = SubSeq(ds, q - n + 1, q)
      BY <2>2 DEF KeysAt
    <3>2. Len(key) = n
      BY <1>1, <3>1
    <3> QED BY <3>1, <3>2 DEF Ends
  <2>3. ASSUME Ends(ds, q, key) PROVE key \in KeysAt(ds, q, lengths)
    <3>1. Len(key) <= q /\ key = SubSeq(ds, q - Len(key) + 1, q)
      BY <2>3 DEF Ends
    <3> QED BY <2>1, <3>1 DEF KeysAt
  <2> QED BY <2>2, <2>3
<1> QED BY <1>2, <1>3

\* One more line adds the keys that end where its delta is the target.
LEMMA KeysNext ==
  ASSUME NEW s \in Seq(Line), NEW line \in Line, NEW h \in Nat \ {0}, Len(s) - h >= 1,
         NEW lengths \in SUBSET (Nat \ {0})
  PROVE  KeysOf(Append(s, line), lengths, h) =
           KeysOf(s, lengths, h) \cup KeysAt(Deltas(s), Len(s) - h, lengths)
<1> DEFINE t == Append(s, line)
           ds == Deltas(s)
           dt == Deltas(t)
           n == Len(s)
           q == n - h
<1>1. n \in Nat /\ n # 0 /\ q \in Nat /\ q >= 1 /\ q < n
  OBVIOUS
<1>2. /\ line - s[n] \in Int /\ dt = Append(ds, line - s[n])
      /\ Len(ds) = n - 1 /\ ds \in Seq(Int) /\ Len(dt) = n
  <2>1. s # <<>>
    BY <1>1
  <2>2. /\ line - s[n] \in Int /\ dt = Append(ds, line - s[n])
        /\ Len(ds) = n - 1 /\ ds \in Seq(Int)
    BY <2>1, DeltasNext
  <2>3. Len(Append(ds, line - s[n])) = Len(ds) + 1
    BY <2>2
  <2> QED BY <1>1, <2>2, <2>3
<1> HIDE DEF t, ds, dt, n, q
<1>3. ASSUME NEW i \in 1 .. q PROVE KeysAt(dt, i, lengths) = KeysAt(ds, i, lengths)
  <2>1. \A m \in {k \in lengths : k <= i} : SubSeq(dt, i - m + 1, i) = SubSeq(ds, i - m + 1, i)
    <3> SUFFICES ASSUME NEW m \in lengths, m <= i
                 PROVE  SubSeq(dt, i - m + 1, i) = SubSeq(ds, i - m + 1, i)
      OBVIOUS
    <3>1. i \in Nat /\ i <= Len(ds) /\ i - m + 1 \in Int /\ i - m + 1 >= 1
      BY <1>1, <1>2
    <3> QED BY <1>2, <3>1, AppendKeeps
  <2> QED BY <2>1 DEF KeysAt
<1>4. KeysOf(t, lengths, h) = UNION {KeysAt(dt, i, lengths) : i \in 1 .. q}
  BY <1>2 DEF KeysOf, KeysAt, dt, q
<1>5. KeysOf(s, lengths, h) = UNION {KeysAt(ds, i, lengths) : i \in 1 .. q - 1}
  <2>1. Len(ds) - h = q - 1
    BY <1>1, <1>2 DEF q
  <2> QED BY <2>1 DEF KeysOf, KeysAt, ds
<1>6. \A i : i \in 1 .. q <=> i \in 1 .. q - 1 \/ i = q
  BY <1>1
<1>7. UNION {KeysAt(dt, i, lengths) : i \in 1 .. q}
        = (UNION {KeysAt(ds, i, lengths) : i \in 1 .. q - 1}) \cup KeysAt(ds, q, lengths)
  <2>1. \A key : key \in UNION {KeysAt(dt, i, lengths) : i \in 1 .. q}
                 <=> \E i \in 1 .. q : key \in KeysAt(ds, i, lengths)
    BY <1>3
  <2>2. \A key : key \in (UNION {KeysAt(ds, i, lengths) : i \in 1 .. q - 1}) \cup KeysAt(ds, q, lengths)
                 <=> \E i \in 1 .. q : key \in KeysAt(ds, i, lengths)
    BY <1>6
  <2> QED BY <2>1, <2>2
<1> QED BY <1>4, <1>5, <1>7 DEF t, ds, q, n

\* A count that is cut off at the width of a counter.
Capped(n) == IF n <= CounterMax THEN n ELSE CounterMax

\* Counting with a saturating counter is counting and then capping.
LEMMA CappedIs ==
  \A n \in Nat : /\ Capped(n) \in 0 .. CounterMax
                 /\ Saturated(Capped(n)) = Capped(n + 1)
BY BoundedTableAssumption DEF Capped, Saturated
\* The context lengths of a delta predictor.
LengthSet(longest) == IF longest THEN {Depth} ELSE 1 .. Depth

\* ls lists the lengths that fit in q deltas, each once.
Lists(ls, lengths, q) ==
  /\ Len(ls) \in Nat
  /\ \A i \in 1 .. Len(ls) : ls[i] \in lengths /\ ls[i] <= q
  /\ \A i, j \in 1 .. Len(ls) : ls[i] = ls[j] => i = j
  /\ \A n \in lengths : n <= q => \E i \in 1 .. Len(ls) : ls[i] = n

\* _lengths() lists the lengths that fit, for both kinds of predictor.
LEMMA LengthsAre ==
  ASSUME NEW q \in Nat, q >= 1
  PROVE  /\ Lists(IF Depth <= q THEN <<Depth>> ELSE <<>>, LengthSet(TRUE), q)
         /\ Lists(UpTo(Min({Depth, q})), LengthSet(FALSE), q)
         /\ LengthSet(TRUE) \in SUBSET (Nat \ {0}) /\ LengthSet(FALSE) \in SUBSET (Nat \ {0})
<1>1. Depth \in Nat \ {0}
  BY PredictorsAssumption
<1>2. LengthSet(TRUE) = {Depth} /\ LengthSet(FALSE) = 1 .. Depth
  BY DEF LengthSet
<1>3. Lists(IF Depth <= q THEN <<Depth>> ELSE <<>>, LengthSet(TRUE), q)
  <2>1. ASSUME Depth <= q PROVE Lists(<<Depth>>, {Depth}, q)
    <3>1. Len(<<Depth>>) = 1 /\ <<Depth>>[1] = Depth /\ \A i : i \in 1 .. 1 <=> i = 1
      OBVIOUS
    <3> QED BY <1>1, <2>1, <3>1 DEF Lists
  <2>2. ASSUME ~ (Depth <= q) PROVE Lists(<<>>, {Depth}, q)
    <3>1. Len(<<>>) = 0 /\ 1 .. 0 = {}
      OBVIOUS
    <3> QED BY <1>1, <2>2, <3>1 DEF Lists
  <2>3. CASE Depth <= q
    <3>1. (IF Depth <= q THEN <<Depth>> ELSE <<>>) = <<Depth>>
      BY <2>3
    <3> QED BY <1>2, <2>1, <2>3, <3>1, Zenon
  <2>4. CASE ~ (Depth <= q)
    <3>1. (IF Depth <= q THEN <<Depth>> ELSE <<>>) = <<>>
      BY <2>4
    <3> QED BY <1>2, <2>2, <2>4, <3>1, Zenon
  <2> QED BY <2>3, <2>4
<1>4. Lists(UpTo(Min({Depth, q})), LengthSet(FALSE), q)
  <2> DEFINE m == IF Depth <= q THEN Depth ELSE q
             ls == [i \in 1 .. m |-> i]
  <2>1. Min({Depth, q}) = m
    BY <1>1, MinOfTwo
  <2>2. m \in Nat /\ m <= Depth /\ m <= q /\ \A n \in 1 .. Depth : n <= q => n <= m
    BY <1>1
  <2>3. UpTo(Min({Depth, q})) = ls
    BY <2>1 DEF UpTo
  <2> HIDE DEF m
  <2>4. Len(ls) = m /\ \A i \in 1 .. m : ls[i] = i
    BY <2>2
  <2> HIDE DEF ls
  <2>5. \A i \in 1 .. m : i \in 1 .. Depth /\ i <= q
    BY <1>1, <2>2
  <2>6. \A n \in 1 .. Depth : n <= q => n \in 1 .. m
    BY <2>2
  <2>7. Lists(ls, 1 .. Depth, q)
    BY <2>2, <2>4, <2>5, <2>6 DEF Lists
  <2> QED BY <1>2, <2>3, <2>7
<1>5. LengthSet(TRUE) \in SUBSET (Nat \ {0}) /\ LengthSet(FALSE) \in SUBSET (Nat \ {0})
  <2>1. \A n \in 1 .. Depth : n \in Nat \ {0}
    BY <1>1
  <2> QED BY <1>1, <1>2, <2>1
<1> QED BY <1>3, <1>4, <1>5

\* keys are those that end at position q of the deltas.
Names(keys, ds, q, lengths) ==
  /\ Len(keys) \in Nat
  /\ \A i \in 1 .. Len(keys) : keys[i] \in Seq(Int)
  /\ \A i, j \in 1 .. Len(keys) : keys[i] = keys[j] => i = j
  /\ {keys[i] : i \in 1 .. Len(keys)} = KeysAt(ds, q, lengths)

\* The keys that fit() builds are those that end at the newest position.
LEMMA KeysNamed ==
  ASSUME NEW ds \in Seq(Int), NEW q \in Nat, q >= 1, q <= Len(ds),
         NEW deltas \in Seq(Int), Len(deltas) = q, \A i \in 1 .. q : deltas[i] = ds[i],
         NEW lengths \in SUBSET (Nat \ {0}), NEW ls, Lists(ls, lengths, q)
  PROVE  Names([i \in 1 .. Len(ls) |-> Recent(deltas, ls[i])], ds, q, lengths)
<1> DEFINE m == Len(ls)
           keys == [i \in 1 .. m |-> Recent(deltas, ls[i])]
<1>1. /\ m \in Nat /\ \A i \in 1 .. m : ls[i] \in lengths /\ ls[i] <= q
      /\ \A i, j \in 1 .. m : ls[i] = ls[j] => i = j
      /\ \A n \in lengths : n <= q => \E i \in 1 .. m : ls[i] = n
  BY DEF Lists
<1>2. ASSUME NEW n \in lengths, n <= q
      PROVE  /\ Recent(deltas, n) = SubSeq(ds, q - n + 1, q)
             /\ Recent(deltas, n) \in Seq(Int) /\ Len(Recent(deltas, n)) = n
  <2> DEFINE r == Recent(deltas, n)
             u == SubSeq(ds, q - n + 1, q)
  <2>1. n \in Nat /\ n # 0 /\ n <= q
    BY <1>2
  <2>2. /\ r \in Seq(Int) /\ Len(r) = IF Len(deltas) <= n THEN Len(deltas) ELSE n
        /\ \A i \in 1 .. Len(r) : r[i] = deltas[Len(deltas) - Len(r) + i]
    BY <2>1, RecentIs
  <2> HIDE DEF r
  <2>3. Len(r) = n /\ \A i \in 1 .. n : r[i] = deltas[q - n + i]
    <3>1. Len(r) = n
      BY <2>1, <2>2
    <3> QED BY <2>2, <3>1
  <2>4. /\ q - n + 1 \in Nat /\ q - n + 1 >= 1 /\ q - n + 1 <= q
        /\ \A i \in 1 .. n : q - n + i \in 1 .. q /\ q - n + 1 + i - 1 = q - n + i
    BY <2>1
  <2>5. u \in Seq(Int) /\ Len(u) = n /\ \A i \in 1 .. n : u[i] = ds[q - n + i]
    <3>1. \A i \in q - n + 1 .. q : i \in 1 .. Len(ds)
      BY <2>4
    <3>2. u \in Seq(Int) /\ Len(u) = q - (q - n + 1) + 1
      BY <2>4, <3>1
    <3>3. q - (q - n + 1) + 1 = n
      BY <2>1
    <3>4. \A i \in 1 .. q - (q - n + 1) + 1 : u[i] = ds[q - n + 1 + i - 1]
      BY <2>4, <3>1
    <3> HIDE DEF u
    <3> QED BY <2>4, <3>2, <3>3, <3>4
  <2> HIDE DEF u
  <2>6. \A i \in 1 .. n : r[i] = u[i]
    BY <2>3, <2>4, <2>5
  <2>7. r = u
    BY <2>2, <2>3, <2>5, <2>6, SeqEqual
  <2> QED BY <2>2, <2>3, <2>7 DEF r, u
<1>3. \A i \in 1 .. m : keys[i] = Recent(deltas, ls[i])
  OBVIOUS
<1>4. Len(keys) = m
  BY <1>1
<1> HIDE DEF keys, m
<1>5. \A i \in 1 .. m : /\ keys[i] = SubSeq(ds, q - ls[i] + 1, q)
                       /\ keys[i] \in Seq(Int) /\ Len(keys[i]) = ls[i]
  BY <1>1, <1>2, <1>3
<1>6. \A i, j \in 1 .. m : keys[i] = keys[j] => i = j
  BY <1>1, <1>5
<1>7. ASSUME NEW key PROVE key \in {keys[i] : i \in 1 .. m} <=> key \in KeysAt(ds, q, lengths)
  <2>1. ASSUME NEW i \in 1 .. m, key = keys[i] PROVE key \in KeysAt(ds, q, lengths)
    <3>1. ls[i] \in {n \in lengths : n <= q} /\ key = SubSeq(ds, q - ls[i] + 1, q)
      BY <1>1, <1>5, <2>1
    <3> QED BY <3>1 DEF KeysAt
  <2>2. ASSUME key \in KeysAt(ds, q, lengths) PROVE \E i \in 1 .. m : key = keys[i]
    <3>1. PICK n \in {k \in lengths : k <= q} : key = SubSeq(ds, q - n + 1, q)
      BY <2>2 DEF KeysAt
    <3>2. PICK i \in 1 .. m : ls[i] = n
      BY <1>1, <3>1
    <3> QED BY <1>5, <3>1, <3>2
  <2> QED BY <2>1, <2>2
<1>8. {keys[i] : i \in 1 .. m} = KeysAt(ds, q, lengths)
  BY <1>7
<1>9. Names(keys, ds, q, lengths)
  BY <1>1, <1>4, <1>5, <1>6, <1>8 DEF Names
<1> QED BY <1>9 DEF keys, m

\* What a delta predictor learns of one line.
LEMMA DeltaLearnsIs ==
  ASSUME NEW s \in Seq(Line), NEW line \in Line, NEW h \in Nat \ {0}, Len(s) - h >= 1,
         NEW table, NEW longest \in BOOLEAN
  PROVE  \E keys : /\ Names(keys, Deltas(s), Len(s) - h, LengthSet(longest))
                   /\ DeltaLearns(table, Append(s, line), h, longest)
                        = InsertedAll(table, keys, line - s[Len(s) + 1 - h])
<1> DEFINE t == Append(s, line)
           q == Len(s) - h
           deltas == Deltas(Past(t, h))
           ls == IF longest THEN (IF Depth <= Len(deltas) THEN <<Depth>> ELSE <<>>)
                 ELSE UpTo(Min({Depth, Len(deltas)}))
           keys == [i \in 1 .. Len(ls) |-> Recent(deltas, ls[i])]
<1>1. q \in Nat /\ q >= 1 /\ Len(t) = Len(s) + 1 /\ Len(s) \in Nat /\ q <= Len(s) - 1
  OBVIOUS
<1>2. /\ deltas \in Seq(Int) /\ Len(deltas) = q /\ \A i \in 1 .. q : deltas[i] = Deltas(s)[i]
      /\ Last(t) - Last(Past(t, h)) = line - s[Len(s) + 1 - h]
  BY PastDeltas
<1>3. DeltaLearns(table, t, h, longest) = InsertedAll(table, keys, Last(t) - Last(Past(t, h)))
  BY <1>1 DEF DeltaLearns
<1>4. Deltas(s) \in Seq(Int) /\ Len(Deltas(s)) = Len(s) - 1
  BY <1>1, DeltasAre DEF DeltasOf
<1> HIDE DEF t, q, deltas
<1>5. Lists(ls, LengthSet(longest), q) /\ LengthSet(longest) \in SUBSET (Nat \ {0})
  <2>1. CASE longest = TRUE
    <3>1. ls = IF Depth <= q THEN <<Depth>> ELSE <<>>
      BY <1>2, <2>1
    <3> QED BY <1>1, <2>1, <3>1, LengthsAre
  <2>2. CASE longest = FALSE
    <3>1. ls = UpTo(Min({Depth, q}))
      BY <1>2, <2>2
    <3> QED BY <1>1, <2>2, <3>1, LengthsAre
  <2> QED BY <2>1, <2>2
<1> HIDE DEF ls
<1>6. Names(keys, Deltas(s), q, LengthSet(longest))
  BY <1>1, <1>2, <1>4, <1>5, KeysNamed
<1> HIDE DEF keys
<1> QED BY <1>2, <1>3, <1>6 DEF t, q
\* A table that is in step and says what a trace holds of the keys of some
\* lengths: at most that, and all of it where the keys of the trace fit.
SoundFor(table, lengths, h, s) ==
  LET keys == KeysOf(s, lengths, h)
  IN  /\ Kept(table, Seq(Int))
      /\ IsFiniteSet(keys)
      /\ DOMAIN table.counts \subseteq keys
      /\ \A key \in Strides(lengths) : \A d : Reads(table, key, d) <= Capped(SeenOf(s, key, d, h))
      /\ Cardinality(keys) <= EntryLimit =>
           /\ DOMAIN table.counts = keys
           /\ \A key \in Strides(lengths) : \A d : Reads(table, key, d) = Capped(SeenOf(s, key, d, h))

\* The line is too early to learn from.
LEMMA ShortSound ==
  ASSUME NEW s \in Seq(Line), NEW line \in Line, NEW h \in Nat \ {0}, Len(s) - h < 1,
         NEW lengths \in SUBSET (Nat \ {0}), NEW table, SoundFor(table, lengths, h, s)
  PROVE  SoundFor(table, lengths, h, Append(s, line))
<1> DEFINE t == Append(s, line)
<1>1. t \in Seq(Line) /\ Len(t) = Len(s) + 1 /\ Len(s) \in Nat
  OBVIOUS
<1> HIDE DEF t
<1>2. Len(Deltas(s)) <= h /\ Len(Deltas(t)) <= h
  <2>1. DeltasOf(s)
    BY DeltasAre
  <2>2. DeltasOf(t)
    BY <1>1, DeltasAre
  <2> QED BY <1>1, <2>1, <2>2 DEF DeltasOf
<1>3. \A key \in Strides(lengths) : Len(key) \in Nat \ {0}
  BY DEF Strides
<1>4. KeysOf(t, lengths, h) = KeysOf(s, lengths, h)
  BY <1>1, <1>2, NothingYet
<1>5. \A key \in Strides(lengths) : \A d : SeenOf(s, key, d, h) = 0
  BY <1>2, <1>3, NothingYet
<1>6. \A key \in Strides(lengths) : \A d : SeenOf(t, key, d, h) = 0
  BY <1>1, <1>2, <1>3, NothingYet
<1>7. SoundFor(table, lengths, h, t)
  BY <1>4, <1>5, <1>6 DEF SoundFor
<1> QED BY <1>7 DEF t

\* What a delta table learns of a line is what the line adds to the trace.
LEMMA LearnsSound ==
  ASSUME NEW s \in Seq(Line), NEW line \in Line, NEW h \in Nat \ {0}, Len(s) - h >= 1,
         NEW lengths \in SUBSET (Nat \ {0}), NEW table, SoundFor(table, lengths, h, s),
         NEW keys, Names(keys, Deltas(s), Len(s) - h, lengths)
  PROVE  SoundFor(InsertedAll(table, keys, line - s[Len(s) + 1 - h]), lengths, h, Append(s, line))
<1> DEFINE t == Append(s, line)
           q == Len(s) - h
           target == line - s[Len(s) + 1 - h]
           new == InsertedAll(table, keys, target)
           now == KeysAt(Deltas(s), q, lengths)
           old == KeysOf(s, lengths, h)
           all == KeysOf(t, lengths, h)
           D == DOMAIN table.counts
           Fit == Cardinality(old) <= EntryLimit
<1>1. /\ Kept(table, Seq(Int)) /\ IsFiniteSet(old) /\ D \subseteq old
      /\ \A key \in Strides(lengths) : \A d : Reads(table, key, d) <= Capped(SeenOf(s, key, d, h))
      /\ Fit => /\ D = old
                /\ \A key \in Strides(lengths) : \A d : Reads(table, key, d) = Capped(SeenOf(s, key, d, h))
  BY DEF SoundFor
<1>2. /\ Len(keys) \in Nat /\ \A i \in 1 .. Len(keys) : keys[i] \in Seq(Int)
      /\ \A i, j \in 1 .. Len(keys) : keys[i] = keys[j] => i = j
      /\ {keys[i] : i \in 1 .. Len(keys)} = now
  BY DEF Names
<1>3. Kept(new, Seq(Int))
  BY <1>1, <1>2, InsertedAllKept
<1>4. Becomes(new, table, now, target)
  <2> HIDE DEF target, now
  <2>1. Becomes(new, table, {keys[i] : i \in 1 .. Len(keys)}, target)
    BY <1>1, <1>2, InsertedAllBecomes
  <2> QED BY <1>2, <2>1
<1>5. all = old \cup now
  BY KeysNext
<1>6. IsFiniteSet(now) /\ IsFiniteSet(all)
  <2> DEFINE I == 1 .. Len(keys)
  <2>1. IsFiniteSet(I)
    <3>1. 1 \in Int /\ Len(keys) \in Int
      BY <1>2
    <3> QED BY <3>1, FS_Interval
  <2> HIDE DEF I
  <2> DEFINE f == [i \in I |-> keys[i]]
  <2>2. f \in Surjection(I, {keys[i] : i \in I})
    BY DEF Surjection
  <2> HIDE DEF f
  <2>3. IsFiniteSet({keys[i] : i \in I})
    BY <2>1, <2>2, FS_Surjection
  <2>4. IsFiniteSet(now)
    <3> HIDE DEF now
    <3> QED BY <1>2, <2>3 DEF I
  <2> HIDE DEF now, old, all
  <2> QED BY <1>1, <1>5, <2>4, FS_Union
<1>7. \A key \in Strides(lengths) : \A d :
        /\ SeenOf(s, key, d, h) \in Nat
        /\ SeenOf(t, key, d, h) = IF key \in now /\ d = target THEN SeenOf(s, key, d, h) + 1
                                  ELSE SeenOf(s, key, d, h)
  <2> SUFFICES ASSUME NEW key \in Strides(lengths), NEW d
               PROVE  /\ SeenOf(s, key, d, h) \in Nat
                      /\ SeenOf(t, key, d, h) = IF key \in now /\ d = target THEN SeenOf(s, key, d, h) + 1
                                                ELSE SeenOf(s, key, d, h)
    OBVIOUS
  <2>1. key \in Seq(Int) /\ Len(key) # 0
    BY DEF Strides
  <2>2. SeenRecurs(s, line, key, d, h)
    BY <2>1, SeenNext
  <2>3. key \in now <=> Ends(Deltas(s), q, key)
    <3>1. DeltasOf(s)
      BY DeltasAre
    <3>2. Deltas(s) \in Seq(Int) /\ q \in Nat /\ q <= Len(Deltas(s))
      BY <3>1 DEF DeltasOf
    <3> HIDE DEF q
    <3> QED BY <3>2, KeysAtAre
  <2> DEFINE n == SeenOf(s, key, d, h)
             e == Ends(Deltas(s), q, key)
             f == target = d
  <2>4. n \in Nat /\ SeenOf(t, key, d, h) = n + (IF e /\ f THEN 1 ELSE 0)
    BY <2>2 DEF SeenRecurs
  <2>5. key \in now /\ d = target <=> e /\ f
    BY <2>3
  <2> HIDE DEF n, e, f, now, target
  <2> QED BY <2>4, <2>5 DEF n
<1> HIDE DEF target, now, old, all, new, D, Fit, q, t
<1>8. /\ DOMAIN new.counts \subseteq D \cup now
      /\ \A k, d : Reads(new, k, d) <= IF k \in now /\ d = target THEN Saturated(Reads(table, k, d))
                                      ELSE Reads(table, k, d)
      /\ Cardinality(D \cup now) <= EntryLimit =>
           /\ DOMAIN new.counts = D \cup now
           /\ \A k, d : Reads(new, k, d) = IF k \in now /\ d = target THEN Saturated(Reads(table, k, d))
                                          ELSE Reads(table, k, d)
  BY <1>4, <1>6 DEF Becomes, D
<1>9. \A k, d : Reads(table, k, d) \in 0 .. CounterMax /\ Reads(new, k, d) \in 0 .. CounterMax
  BY <1>1, <1>3, ReadsType DEF Kept
<1>10. ASSUME NEW key \in Strides(lengths), NEW d
       PROVE  Reads(new, key, d) <= Capped(SeenOf(t, key, d, h))
  <2> DEFINE n == SeenOf(s, key, d, h)
             m == SeenOf(t, key, d, h)
             r == Reads(table, key, d)
             v == Reads(new, key, d)
  <2>1. r <= Capped(n) /\ n \in Nat /\ r \in 0 .. CounterMax /\ v \in 0 .. CounterMax
    BY <1>1, <1>7, <1>9
  <2>2. /\ m = (IF key \in now /\ d = target THEN n + 1 ELSE n)
        /\ v <= IF key \in now /\ d = target THEN Saturated(r) ELSE r
    BY <1>7, <1>8
  <2>3. Capped(n) \in 0 .. CounterMax /\ Saturated(Capped(n)) = Capped(n + 1)
    BY <2>1, CappedIs
  <2> HIDE DEF n, m, r, v
  <2>4. CASE key \in now /\ d = target
    <3>1. m = n + 1 /\ v <= Saturated(r)
      BY <2>2, <2>4
    <3>2. Saturated(r) <= Saturated(Capped(n))
      BY <2>1, <2>3, SaturatedGrows
    <3>3. Saturated(r) \in Nat /\ Capped(m) \in Nat /\ v \in Nat
      <4>1. Saturated(r) \in 1 .. CounterMax
        BY <2>1, SaturatedType
      <4>2. Saturated(Capped(n)) \in 1 .. CounterMax
        BY <2>3, SaturatedType
      <4> QED BY <2>1, <2>3, <3>1, <4>1, <4>2, BoundedTableAssumption
    <3> QED BY <2>3, <3>1, <3>2, <3>3 DEF m, v
  <2>5. CASE ~ (key \in now /\ d = target)
    <3>1. m = n /\ v <= r
      BY <2>2, <2>5
    <3> QED BY <2>1, <2>3, <3>1, BoundedTableAssumption DEF m, v
  <2> QED BY <2>4, <2>5
<1>11. ASSUME Cardinality(all) <= EntryLimit
       PROVE  /\ DOMAIN new.counts = all
              /\ \A key \in Strides(lengths) : \A d : Reads(new, key, d) = Capped(SeenOf(t, key, d, h))
  <2>1. Fit
    <3>1. old \subseteq all
      BY <1>5
    <3>2. Cardinality(old) <= Cardinality(all) /\ Cardinality(all) \in Nat /\ Cardinality(old) \in Nat
      BY <1>1, <1>6, <3>1, FS_Subset, FS_CardinalityType
    <3> QED BY <1>11, <3>2, BoundedTableAssumption DEF Fit
  <2>2. D \cup now = all
    BY <1>1, <1>5, <2>1
  <2>3. /\ DOMAIN new.counts = all
        /\ \A k, d : Reads(new, k, d) = IF k \in now /\ d = target THEN Saturated(Reads(table, k, d))
                                       ELSE Reads(table, k, d)
    BY <1>8, <1>11, <2>2
  <2>4. ASSUME NEW key \in Strides(lengths), NEW d
        PROVE  Reads(new, key, d) = Capped(SeenOf(t, key, d, h))
    <3> DEFINE n == SeenOf(s, key, d, h)
               r == Reads(table, key, d)
    <3>1. r = Capped(n) /\ n \in Nat
      BY <1>1, <1>7, <2>1
    <3>2. /\ SeenOf(t, key, d, h) = (IF key \in now /\ d = target THEN n + 1 ELSE n)
          /\ Reads(new, key, d) = IF key \in now /\ d = target THEN Saturated(r) ELSE r
      BY <1>7, <2>3
    <3>3. Saturated(Capped(n)) = Capped(n + 1)
      BY <3>1, CappedIs
    <3> HIDE DEF n, r
    <3> QED BY <3>1, <3>2, <3>3
  <2> QED BY <2>3, <2>4
<1>12. DOMAIN new.counts \subseteq all
  BY <1>1, <1>5, <1>8
<1>13. SoundFor(new, lengths, h, t)
  BY <1>3, <1>6, <1>10, <1>11, <1>12 DEF SoundFor, all
<1> QED BY <1>13 DEF new, target, t
\* One line, learnt from or too early.
LEMMA DeltaTableNext ==
  ASSUME NEW s \in Seq(Line), NEW line \in Line, NEW h \in Nat \ {0}, NEW longest \in BOOLEAN,
         NEW table, SoundFor(table, LengthSet(longest), h, s)
  PROVE  SoundFor(DeltaLearns(table, Append(s, line), h, longest), LengthSet(longest), h, Append(s, line))
<1>1. LengthSet(longest) \in SUBSET (Nat \ {0})
  <2>1. 1 \in Nat /\ 1 >= 1
    OBVIOUS
  <2> QED BY <2>1, LengthsAre
<1>2. Len(s) \in Nat /\ Len(Append(s, line)) = Len(s) + 1
  OBVIOUS
<1>3. CASE Len(s) - h < 1
  <2>1. DeltaLearns(table, Append(s, line), h, longest) = table
    BY <1>2, <1>3 DEF DeltaLearns
  <2> QED BY <1>1, <1>3, <2>1, ShortSound
<1>4. CASE Len(s) - h >= 1
  <2>1. PICK keys : /\ Names(keys, Deltas(s), Len(s) - h, LengthSet(longest))
                    /\ DeltaLearns(table, Append(s, line), h, longest)
                         = InsertedAll(table, keys, line - s[Len(s) + 1 - h])
    BY <1>4, DeltaLearnsIs
  <2> QED BY <1>1, <1>4, <2>1, LearnsSound
<1> QED BY <1>2, <1>3, <1>4

\* Markov-N's table is keyed by lines.
LEMMA AddressKept ==
  ASSUME NEW s \in Seq(Line), NEW line \in Line, NEW table, Kept(table, Seq(Line))
  PROVE  Kept(AddressLearns(table, Append(s, line), Horizon), Seq(Line))
<1> DEFINE t == Append(s, line)
           past == Past(t, Horizon)
           m == Min({Depth, Len(past)})
           keys == [n \in 1 .. m |-> Recent(past, n)]
<1>1. Len(s) \in Nat /\ Len(t) = Len(s) + 1 /\ Horizon \in Nat \ {0} /\ Depth \in Nat \ {0}
  BY PredictorsAssumption
<1>2. CASE Len(t) < Horizon + 2
  <2>1. AddressLearns(table, t, Horizon) = table
    BY <1>2 DEF AddressLearns
  <2> QED BY <2>1
<1>3. CASE ~ (Len(t) < Horizon + 2)
  <2>1. past \in Seq(Line)
    <3>1. Len(s) + 1 > Horizon
      BY <1>1, <1>3
    <3> QED BY <1>1, <3>1, BehindPast DEF Behind
  <2>2. AddressLearns(table, t, Horizon) = InsertedAll(table, keys, Last(t) - Last(past))
    BY <1>3 DEF AddressLearns
  <2> HIDE DEF t, past
  <2>3. m \in Nat
    <3>1. Len(past) \in Nat
      BY <2>1
    <3>2. m = IF Depth <= Len(past) THEN Depth ELSE Len(past)
      BY <1>1, <3>1, MinOfTwo
    <3> QED BY <1>1, <3>1, <3>2
  <2> HIDE DEF m
  <2>4. \A n \in 1 .. m : keys[n] \in Seq(Line)
    <3>1. \A n \in Nat : Recent(past, n) \in Seq(Line)
      BY <2>1, RecentIs
    <3> QED BY <2>3, <3>1
  <2>5. Len(keys) = m
    BY <2>3
  <2> HIDE DEF keys
  <2>6. Len(keys) \in Nat /\ \A n \in 1 .. Len(keys) : keys[n] \in Seq(Line)
    BY <2>3, <2>4, <2>5
  <2>7. Kept(InsertedAll(table, keys, Last(t) - Last(past)), Seq(Line))
    BY <2>6, InsertedAllKept
  <2> QED BY <2>2, <2>7 DEF t
<1> QED BY <1>2, <1>3

\* The inductive invariant of the bounded delta tables.
DeltaInv ==
  /\ train \in Seq(Line)
  /\ {"gmc", "vldp", "spp", "address"} \subseteq DOMAIN model
  /\ SoundFor(model.gmc, LengthSet(FALSE), Horizon, train)
  /\ SoundFor(model.vldp, LengthSet(TRUE), Horizon, train)
  /\ SoundFor(model.spp, LengthSet(TRUE), 1, train)
  /\ Kept(model.address, Seq(Line))

\* The empty table is in step.
LEMMA EmptyKept ==
  /\ \A K : Kept(EmptyTable, K)
  /\ DOMAIN EmptyTable.counts = {}
<1>1. EmptyTable.order = <<>> /\ EmptyTable.counts = <<>> /\ DOMAIN <<>> = {}
  BY DEF EmptyTable
<1>2. Len(<<>>) = 0 /\ 1 .. 0 = {} /\ \A K : <<>> \in Seq(K)
  OBVIOUS
<1>3. 0 <= EntryLimit
  BY BoundedTableAssumption
<1>4. InStep(EmptyTable)
  BY <1>1, <1>2, <1>3 DEF InStep
<1> QED BY <1>1, <1>2, <1>4 DEF Kept

\* The empty table is sound for the empty trace.
LEMMA EmptySound ==
  ASSUME NEW h \in Nat \ {0}, NEW longest \in BOOLEAN
  PROVE  SoundFor(EmptyTable, LengthSet(longest), h, <<>>)
<1> DEFINE lengths == LengthSet(longest)
<1>1. lengths \in SUBSET (Nat \ {0})
  <2>1. 1 \in Nat /\ 1 >= 1
    OBVIOUS
  <2> QED BY <2>1, LengthsAre
<1> HIDE DEF lengths
<1>2. <<>> \in Seq(Line) /\ Len(<<>>) = 0
  OBVIOUS
<1>3. Len(Deltas(<<>>)) <= h
  <2>1. DeltasOf(<<>>)
    BY <1>2, DeltasAre
  <2>2. Len(Deltas(<<>>)) = 0
    BY <1>2, <2>1 DEF DeltasOf
  <2> QED BY <2>2
<1>4. KeysOf(<<>>, lengths, h) = {}
  BY <1>2, <1>3, NothingYet
<1>5. \A key \in Strides(lengths) : \A d : SeenOf(<<>>, key, d, h) = 0
  <2>1. \A key \in Strides(lengths) : Len(key) \in Nat \ {0}
    BY <1>1 DEF Strides
  <2> QED BY <1>2, <1>3, <2>1, NothingYet
<1>6. \A key, d : Reads(EmptyTable, key, d) = 0
  BY EmptyKept DEF Reads
<1>7. Capped(0) = 0 /\ 0 <= 0
  BY BoundedTableAssumption DEF Capped
<1>8. IsFiniteSet({})
  BY FS_EmptySet
<1>9. SoundFor(EmptyTable, lengths, h, <<>>)
  <2>1. \A key \in Strides(lengths) : \A d :
          /\ Reads(EmptyTable, key, d) = Capped(SeenOf(<<>>, key, d, h))
          /\ Reads(EmptyTable, key, d) <= Capped(SeenOf(<<>>, key, d, h))
    BY <1>5, <1>6, <1>7
  <2> QED BY <1>4, <1>8, <2>1, EmptyKept DEF SoundFor
<1> QED BY <1>9 DEF lengths

\* The delta tables start sound.
LEMMA DeltaInit == Init => DeltaInv
<1> SUFFICES ASSUME Init PROVE DeltaInv
  OBVIOUS
<1>1. /\ train = <<>> /\ model.gmc = EmptyTable /\ model.vldp = EmptyTable
      /\ model.spp = EmptyTable /\ model.address = EmptyTable
      /\ {"gmc", "vldp", "spp", "address"} \subseteq DOMAIN model
  BY DEF Init
<1>2. 1 \in Nat \ {0} /\ Horizon \in Nat \ {0}
  BY PredictorsAssumption
<1>3. /\ SoundFor(EmptyTable, LengthSet(FALSE), Horizon, <<>>)
      /\ SoundFor(EmptyTable, LengthSet(TRUE), Horizon, <<>>)
      /\ SoundFor(EmptyTable, LengthSet(TRUE), 1, <<>>)
  BY <1>2, EmptySound
<1>4. <<>> \in Seq(Line) /\ Kept(EmptyTable, Seq(Line))
  BY EmptyKept
<1> QED BY <1>1, <1>3, <1>4, Zenon DEF DeltaInv

\* One line of the trace keeps them sound.
LEMMA DeltaObserve ==
  ASSUME DeltaInv, NEW line \in Line, Observe(line) PROVE DeltaInv'
<1> DEFINE values == Append(train, line)
<1>1. /\ train \in Seq(Line) /\ values \in Seq(Line) /\ 1 \in Nat \ {0} /\ Horizon \in Nat \ {0}
  BY PredictorsAssumption DEF DeltaInv
<1>2. /\ train' = values
      /\ model'.gmc = DeltaLearns(model.gmc, values, Horizon, FALSE)
      /\ model'.vldp = DeltaLearns(model.vldp, values, Horizon, TRUE)
      /\ model'.spp = DeltaLearns(model.spp, values, 1, TRUE)
      /\ model'.address = AddressLearns(model.address, values, Horizon)
      /\ {"gmc", "vldp", "spp", "address"} \subseteq DOMAIN model'
  BY DEF Observe
<1>3. /\ SoundFor(model.gmc, LengthSet(FALSE), Horizon, train)
      /\ SoundFor(model.vldp, LengthSet(TRUE), Horizon, train)
      /\ SoundFor(model.spp, LengthSet(TRUE), 1, train)
      /\ Kept(model.address, Seq(Line))
  BY DEF DeltaInv
<1>4. SoundFor(model'.gmc, LengthSet(FALSE), Horizon, values)
  BY <1>1, <1>2, <1>3, DeltaTableNext
<1>5. SoundFor(model'.vldp, LengthSet(TRUE), Horizon, values)
  BY <1>1, <1>2, <1>3, DeltaTableNext
<1>6. SoundFor(model'.spp, LengthSet(TRUE), 1, values)
  BY <1>1, <1>2, <1>3, DeltaTableNext
<1>7. Kept(model'.address, Seq(Line))
  BY <1>1, <1>2, <1>3, AddressKept
<1> HIDE DEF values
<1> QED BY <1>1, <1>2, <1>4, <1>5, <1>6, <1>7 DEF DeltaInv

\* So does every step.
LEMMA DeltaStep == DeltaInv /\ [Next]_vars => DeltaInv'
<1> SUFFICES ASSUME DeltaInv, [Next]_vars PROVE DeltaInv'
  OBVIOUS
<1>1. CASE \E line \in Line : Observe(line)
  BY <1>1, DeltaObserve
<1>2. CASE UNCHANGED <<train, model>>
  BY <1>2 DEF DeltaInv
<1>3. CASE Freeze
  <2>1. /\ train' = train /\ DOMAIN model' = DOMAIN model
        /\ model'.gmc = model.gmc /\ model'.vldp = model.vldp /\ model'.spp = model.spp
        /\ model'.address = model.address
    BY <1>3 DEF Freeze, DeltaInv
  <2> QED BY <2>1 DEF DeltaInv
<1>4. CASE \E line \in Line : Demand(line)
  <2>1. UNCHANGED <<train, model>>
    BY <1>4 DEF Demand
  <2> QED BY <1>2, <2>1
<1>5. CASE UNCHANGED vars
  BY <1>2, <1>5 DEF vars
<1> QED BY <1>1, <1>3, <1>4, <1>5 DEF Next

\* Counts of occurrences are numbers.
LEMMA SeenType ==
  ASSUME NEW s \in Seq(Line), NEW key \in Seq(Int), NEW d, NEW h \in Nat
  PROVE  SeenOf(s, key, d, h) \in Nat
<1> DEFINE m == Len(Deltas(s)) - h
           A == {i \in Len(key) .. m : SubSeq(Deltas(s), i - Len(key) + 1, i) = key
                                      /\ s[i + 1 + h] - s[i + 1] = d}
<1>1. Deltas(s) \in Seq(Int)
  BY DeltasAre DEF DeltasOf
<1>2. m \in Int /\ Len(key) \in Int
  BY <1>1
<1> HIDE DEF m
<1>3. IsFiniteSet(Len(key) .. m)
  BY <1>2, FS_Interval
<1>4. IsFiniteSet(A)
  BY <1>3, FS_Subset
<1>5. SeenOf(s, key, d, h) = Cardinality(A)
  BY DEF SeenOf, m
<1> HIDE DEF A
<1> QED BY <1>4, <1>5, FS_CardinalityType

\* The keys of a trace are sequences of deltas of the lengths asked for.
LEMMA KeysOfAre ==
  ASSUME NEW s \in Seq(Line), NEW h \in Nat \ {0}, NEW lengths \in SUBSET (Nat \ {0})
  PROVE  KeysOf(s, lengths, h) \subseteq Strides(lengths)
<1> DEFINE ds == Deltas(s)
<1>1. ds \in Seq(Int) /\ Len(ds) \in Nat
  BY DeltasAre DEF DeltasOf
<1> HIDE DEF ds
<1>2. ASSUME NEW i \in 1 .. Len(ds) - h PROVE KeysAt(ds, i, lengths) \subseteq Strides(lengths)
  <2>1. i \in Nat /\ i <= Len(ds)
    BY <1>1
  <2> QED BY <1>1, <2>1, KeysAtAre
<1>3. KeysOf(s, lengths, h) = UNION {KeysAt(ds, i, lengths) : i \in 1 .. Len(ds) - h}
  BY DEF KeysOf, KeysAt, ds
<1> QED BY <1>2, <1>3

\* SoundFor says what SoundTable states of the trace observed so far.
LEMMA SoundForIs ==
  ASSUME NEW table, NEW lengths \in SUBSET (Nat \ {0}), NEW h \in Nat \ {0},
         train \in Seq(Line), SoundFor(table, lengths, h, train)
  PROVE  SoundTable(table, lengths, h)
<1> DEFINE keys == KeysOf(train, lengths, h)
           fits == Cardinality(keys) <= EntryLimit
<1>1. /\ Kept(table, Seq(Int)) /\ DOMAIN table.counts \subseteq keys
      /\ \A key \in Strides(lengths) : \A d : Reads(table, key, d) <= Capped(SeenOf(train, key, d, h))
      /\ fits => /\ DOMAIN table.counts = keys
                 /\ \A key \in Strides(lengths) : \A d :
                      Reads(table, key, d) = Capped(SeenOf(train, key, d, h))
  BY DEF SoundFor
<1>2. keys \subseteq Strides(lengths)
  BY KeysOfAre
<1> HIDE DEF keys, fits
<1>3. ASSUME NEW key \in DOMAIN table.counts, NEW d
      PROVE  LET most == Min({CounterMax, SeenOf(train, key, d, h)})
             IN  Reads(table, key, d) <= most /\ (fits => Reads(table, key, d) = most)
  <2>1. key \in Strides(lengths)
    BY <1>1, <1>2
  <2> DEFINE m == SeenOf(train, key, d, h)
  <2>2. m \in Nat
    <3>1. key \in Seq(Int) /\ h \in Nat
      BY <2>1 DEF Strides
    <3> QED BY <3>1, SeenType
  <2> HIDE DEF m
  <2>3. Min({CounterMax, m}) = Capped(m)
    <3>1. Min({CounterMax, m}) = IF CounterMax <= m THEN CounterMax ELSE m
      BY <2>2, MinOfTwo, BoundedTableAssumption
    <3> QED BY <2>2, <3>1, BoundedTableAssumption DEF Capped
  <2>4. Reads(table, key, d) <= Capped(m) /\ (fits => Reads(table, key, d) = Capped(m))
    BY <1>1, <2>1 DEF m
  <2> QED BY <2>3, <2>4 DEF m
<1>4. InStep(table)
  BY <1>1 DEF Kept
<1> QED BY <1>1, <1>3, <1>4 DEF SoundTable, keys, fits

\* The inductive invariant says what DeltaTablesSound states.
LEMMA DeltaIs == DeltaInv => DeltaTablesSound
<1> SUFFICES ASSUME DeltaInv PROVE DeltaTablesSound
  OBVIOUS
<1>1. train \in Seq(Line) /\ 1 \in Nat \ {0} /\ Horizon \in Nat \ {0}
  BY PredictorsAssumption DEF DeltaInv
<1>2. /\ LengthSet(TRUE) = {Depth} /\ LengthSet(FALSE) = 1 .. Depth
      /\ {Depth} \in SUBSET (Nat \ {0}) /\ 1 .. Depth \in SUBSET (Nat \ {0})
  <2>1. 1 \in Nat /\ 1 >= 1
    OBVIOUS
  <2>2. LengthSet(TRUE) = {Depth} /\ LengthSet(FALSE) = 1 .. Depth
    BY DEF LengthSet
  <2> QED BY <2>1, <2>2, LengthsAre
<1>3. /\ SoundFor(model.gmc, 1 .. Depth, Horizon, train)
      /\ SoundFor(model.vldp, {Depth}, Horizon, train)
      /\ SoundFor(model.spp, {Depth}, 1, train)
  BY <1>2 DEF DeltaInv
<1>4. /\ SoundTable(model.gmc, 1 .. Depth, Horizon)
      /\ SoundTable(model.vldp, {Depth}, Horizon)
      /\ SoundTable(model.spp, {Depth}, 1)
  BY <1>1, <1>2, <1>3, SoundForIs
<1>5. InStep(model.address)
  BY DEF DeltaInv, Kept
<1> QED BY <1>4, <1>5 DEF DeltaTablesSound

\* A delta table's dictionary and queue stay in step, its counters never say more
\* than the trace does, and where the keys of the trace fit they say all of it: for
\* every trace, table size and counter width.
THEOREM EveryDeltaTableSound == Spec => []DeltaTablesSound
BY DeltaInit, DeltaStep, DeltaIs, PTL DEF Spec

--------------------------------------------------------------------------------
\* A pruned trie against the whole one.

\* Where the context c ends in s with a line h further on, and what follows it.
Ways(s, c, h) == {i \in Len(c) .. Len(s) - h : SubSeq(s, i - Len(c) + 1, i) = c}

\* A bag of lines, none of them counted zero times.
WellCounted(seen) == seen \in [DOMAIN seen -> Nat \ {0}] /\ DOMAIN seen \subseteq Line

\* What Total() counts.
PairsIn(seen) == UNION {{x} \X (1 .. seen[x]) : x \in DOMAIN seen}

\* A bag with so many occurrences.
Holds(seen, n) == WellCounted(seen) /\ IsFiniteSet(PairsIn(seen)) /\ Total(seen) = n

\* Every bag of a table has as many occurrences as its context has.
Totals(table, lengths, h, s) ==
  \A c \in Contexts(lengths) : Holds(At(table, c), Cardinality(Ways(s, c, h)))

\* The members of PairsIn, one by one.
LEMMA PairsInAre ==
  ASSUME NEW seen, NEW e
  PROVE  e \in PairsIn(seen) <=> \E x \in DOMAIN seen : \E i \in 1 .. seen[x] : e = <<x, i>>
BY DEF PairsIn

\* The empty bag holds nothing.
LEMMA EmptyHolds == Holds(EmptyBag, 0)
<1>1. DOMAIN EmptyBag = {} /\ EmptyBag \in [{} -> Nat \ {0}]
  BY DEF EmptyBag, SetToBag
<1>2. PairsIn(EmptyBag) = {}
  BY <1>1 DEF PairsIn
<1>3. Total(EmptyBag) = Cardinality(PairsIn(EmptyBag))
  BY DEF Total, PairsIn
<1> QED BY <1>1, <1>2, <1>3, FS_EmptySet DEF Holds, WellCounted

\* BagAdd() adds one occurrence.
LEMMA HoldsMore ==
  ASSUME NEW seen, NEW n \in Nat, Holds(seen, n), NEW line \in Line
  PROVE  Holds(BG!BagAdd(seen, line), n + 1) /\ BG!BagAdd(seen, line) # EmptyBag
<1> DEFINE new == BG!BagAdd(seen, line)
           t == Times(seen, line)
           p == <<line, t + 1>>
<1>1. /\ seen \in [DOMAIN seen -> Nat \ {0}] /\ DOMAIN seen \subseteq Line
      /\ IsFiniteSet(PairsIn(seen)) /\ Total(seen) = n
  BY DEF Holds, WellCounted
<1>2. t \in Nat
  BY <1>1 DEF Times
<1>3. new = [x \in DOMAIN seen \cup {line} |-> IF x = line THEN t + 1 ELSE seen[x]]
  <2>1. CASE line \in DOMAIN seen
    <3>1. new = [e \in DOMAIN seen |-> IF e = line THEN seen[e] + 1 ELSE seen[e]]
      BY <2>1 DEF BG!BagAdd
    <3>2. DOMAIN seen \cup {line} = DOMAIN seen /\ t = seen[line]
      BY <2>1 DEF Times
    <3> HIDE DEF new, t
    <3> QED BY <3>1, <3>2
  <2>2. CASE line \notin DOMAIN seen
    <3>1. new = [e \in DOMAIN seen \cup {line} |-> IF e = line THEN 1 ELSE seen[e]]
      BY <2>2 DEF BG!BagAdd
    <3>2. t + 1 = 1
      BY <2>2 DEF Times
    <3> HIDE DEF new, t
    <3> QED BY <3>1, <3>2
  <2> QED BY <2>1, <2>2
<1>4. line \in DOMAIN seen => seen[line] = t
  BY DEF Times
<1>5. line \notin DOMAIN seen => t = 0
  BY DEF Times
<1> HIDE DEF new, t
<1>6. DOMAIN new = DOMAIN seen \cup {line}
  BY <1>3
<1>7. new[line] = t + 1 /\ \A x \in DOMAIN seen : x # line => new[x] = seen[x]
  BY <1>3
<1>8. WellCounted(new)
  <2>1. \A x \in DOMAIN new : new[x] \in Nat \ {0}
    BY <1>1, <1>2, <1>6, <1>7
  <2>2. new = [x \in DOMAIN new |-> new[x]]
    BY <1>3
  <2> QED BY <1>1, <1>6, <2>1, <2>2 DEF WellCounted
<1>9. p \notin PairsIn(seen)
  <2>1. ~ \E x \in DOMAIN seen : \E i \in 1 .. seen[x] : p = <<x, i>>
    BY <1>1, <1>2, <1>4
  <2> HIDE DEF p
  <2> QED BY <2>1, PairsInAre
<1>10. PairsIn(new) = PairsIn(seen) \cup {p}
  <2>1. ASSUME NEW e \in PairsIn(new) PROVE e \in PairsIn(seen) \/ e = p
    <3>1. PICK x \in DOMAIN new : \E i \in 1 .. new[x] : e = <<x, i>>
      BY PairsInAre
    <3>2. PICK i \in 1 .. new[x] : e = <<x, i>>
      BY <3>1
    <3>3. CASE x # line
      BY <1>6, <1>7, <3>2, <3>3, PairsInAre
    <3>4. CASE x = line /\ i = t + 1
      BY <3>2, <3>4
    <3>5. CASE x = line /\ i # t + 1
      <4>1. i \in 1 .. t
        BY <1>2, <1>7, <3>2, <3>5
      <4>2. line \in DOMAIN seen
        BY <1>5, <4>1
      <4> QED BY <1>4, <3>2, <3>5, <4>1, <4>2, PairsInAre
    <3> QED BY <3>3, <3>4, <3>5
  <2>2. ASSUME NEW e \in PairsIn(seen) PROVE e \in PairsIn(new)
    <3>1. PICK x \in DOMAIN seen : \E i \in 1 .. seen[x] : e = <<x, i>>
      BY PairsInAre
    <3>2. PICK i \in 1 .. seen[x] : e = <<x, i>>
      BY <3>1
    <3>3. i \in 1 .. new[x]
      BY <1>1, <1>2, <1>4, <1>7, <3>2
    <3> QED BY <1>6, <3>2, <3>3, PairsInAre
  <2>3. p \in PairsIn(new)
    <3>1. t + 1 \in 1 .. new[line]
      BY <1>2, <1>7
    <3> QED BY <1>6, <3>1, PairsInAre
  <2> QED BY <2>1, <2>2, <2>3
<1> HIDE DEF p
<1>11. IsFiniteSet(PairsIn(new)) /\ Cardinality(PairsIn(new)) = Cardinality(PairsIn(seen)) + 1
  BY <1>1, <1>9, <1>10, FS_AddElement
<1>12. \A b : Total(b) = Cardinality(PairsIn(b))
  BY DEF Total, PairsIn
<1>13. new # EmptyBag
  <2>1. DOMAIN EmptyBag = {}
    BY DEF EmptyBag, SetToBag
  <2> QED BY <1>6, <2>1
<1> QED BY <1>1, <1>8, <1>11, <1>12, <1>13 DEF Holds, new

\* How the places of a context grow by one line.
WaysRecur(s, line, c, h) ==
  /\ IsFiniteSet(Ways(s, c, h)) /\ Cardinality(Ways(s, c, h)) \in Nat
  /\ Cardinality(Ways(Append(s, line), c, h)) =
       IF Ends(s, Len(s) + 1 - h, c) THEN Cardinality(Ways(s, c, h)) + 1 ELSE Cardinality(Ways(s, c, h))

\* The places of a context are finitely many.
LEMMA WaysFinite ==
  ASSUME NEW s \in Seq(Line), NEW h \in Nat, NEW c \in Seq(Line)
  PROVE  IsFiniteSet(Ways(s, c, h)) /\ Cardinality(Ways(s, c, h)) \in Nat
<1>1. Len(c) \in Int /\ Len(s) - h \in Int
  OBVIOUS
<1>2. IsFiniteSet(Len(c) .. Len(s) - h)
  BY <1>1, FS_Interval
<1>3. IsFiniteSet(Ways(s, c, h))
  BY <1>2, FS_Subset DEF Ways
<1> QED BY <1>3, FS_CardinalityType

\* One more line gives the context that ended h lines before it one more place.
LEMMA WaysNext ==
  ASSUME NEW s \in Seq(Line), NEW line \in Line, NEW h \in Nat \ {0},
         NEW c \in Seq(Line), Len(c) # 0
  PROVE  WaysRecur(s, line, c, h)
<1> DEFINE t == Append(s, line)
           l == Len(c)
           n == Len(s)
           A == {i \in l .. n - h : SubSeq(s, i - l + 1, i) = c}
           B == {i \in l .. n + 1 - h : SubSeq(t, i - l + 1, i) = c}
           q == n + 1 - h
           new == Ends(s, q, c)
<1>1. n \in Nat /\ l \in Nat /\ l # 0 /\ q \in Int /\ q <= n
  OBVIOUS
<1>2. Len(t) = n + 1
  OBVIOUS
<1>3. \A i \in l .. n + 1 - h : SubSeq(t, i - l + 1, i) = SubSeq(s, i - l + 1, i)
  <2> SUFFICES ASSUME NEW i \in l .. n + 1 - h
      PROVE  SubSeq(t, i - l + 1, i) = SubSeq(s, i - l + 1, i)
    OBVIOUS
  <2> DEFINE a == i - l + 1
  <2>1. i \in Nat /\ i <= n /\ a \in Int /\ a >= 1
    BY <1>1
  <2> HIDE DEF a
  <2>2. SubSeq(t, a, i) = SubSeq(s, a, i)
    BY <2>1, AppendKeeps
  <2> QED BY <2>2 DEF a
<1>4. Ways(s, c, h) = A /\ Ways(t, c, h) = B
  BY <1>2 DEF Ways
<1> HIDE DEF t, l, n, q
<1>5. IsFiniteSet(A) /\ Cardinality(A) \in Nat
  BY <1>4, WaysFinite
<1>6. q \notin A
  BY <1>1 DEF q
<1>7. \A i : i \in l .. n + 1 - h <=> (i \in l .. n - h \/ (i = q /\ l <= q))
  BY <1>1 DEF q
<1>8. new <=> l <= q /\ SubSeq(s, q - l + 1, q) = c
  BY DEF Ends, l
<1>9. \A i : i \in B <=> i \in A \/ (i = q /\ new)
  <2>1. \A i : i \in B <=> i \in l .. n + 1 - h /\ SubSeq(s, i - l + 1, i) = c
    BY <1>3
  <2>2. \A i : i \in A <=> i \in l .. n - h /\ SubSeq(s, i - l + 1, i) = c
    OBVIOUS
  <2> HIDE DEF A, B, new
  <2> QED BY <1>7, <1>8, <2>1, <2>2
<1> HIDE DEF A, B, new
<1>10. CASE new
  <2>1. B = A \cup {q}
    BY <1>9, <1>10
  <2>2. Cardinality(B) = Cardinality(A) + 1
    BY <1>5, <1>6, <2>1, FS_AddElement
  <2> QED BY <1>4, <1>5, <1>10, <2>2 DEF WaysRecur, t, new, q, n
<1>11. CASE ~ new
  <2>1. B = A
    BY <1>9, <1>11
  <2> QED BY <1>4, <1>5, <1>11, <2>1 DEF WaysRecur, t, new, q, n
<1> QED BY <1>10, <1>11

\* A bag that was added to is not empty.
LEMMA AddedNotEmpty == \A seen, line : BG!BagAdd(seen, line) # EmptyBag
<1> SUFFICES ASSUME NEW seen, NEW line PROVE BG!BagAdd(seen, line) # EmptyBag
  OBVIOUS
<1>1. line \in DOMAIN BG!BagAdd(seen, line)
  BY DEF BG!BagAdd
<1>2. DOMAIN EmptyBag = {}
  BY DEF EmptyBag, SetToBag
<1> QED BY <1>1, <1>2

\* One observation in each of the counted contexts.
LEMMA AtCounted ==
  ASSUME NEW table, NEW contexts, NEW line, NEW c
  PROVE  At(Counted(table, contexts, line), c) =
           IF c \in contexts THEN BG!BagAdd(At(table, c), line) ELSE At(table, c)
<1> DEFINE new == Counted(table, contexts, line)
<1>1. new = [k \in DOMAIN table \cup contexts |->
               IF k \in contexts THEN BG!BagAdd(At(table, k), line) ELSE table[k]]
  BY DEF Counted
<1> HIDE DEF new
<1>2. DOMAIN new = DOMAIN table \cup contexts
  BY <1>1
<1>3. CASE c \in contexts
  <2>1. new[c] = BG!BagAdd(At(table, c), line)
    BY <1>1, <1>3
  <2> QED BY <1>2, <1>3, <2>1 DEF At, new
<1>4. CASE c \notin contexts /\ c \in DOMAIN table
  <2>1. new[c] = table[c]
    BY <1>1, <1>4
  <2> QED BY <1>2, <1>4, <2>1 DEF At, new
<1>5. CASE c \notin contexts /\ c \notin DOMAIN table
  BY <1>2, <1>5 DEF At, new
<1> QED BY <1>3, <1>4, <1>5

\* The totals stay right when the contexts counted are those that end h lines ago.
LEMMA CountedTotals ==
  ASSUME NEW s \in Seq(Line), NEW line \in Line, NEW h \in Nat \ {0},
         NEW lengths \in SUBSET (Nat \ {0}), NEW table, NEW contexts,
         Totals(table, lengths, h, s),
         \A c \in Contexts(lengths) : c \in contexts <=> Ends(s, Len(s) + 1 - h, c)
  PROVE  Totals(Counted(table, contexts, line), lengths, h, Append(s, line))
<1> SUFFICES ASSUME NEW c \in Contexts(lengths)
             PROVE  Holds(At(Counted(table, contexts, line), c), Cardinality(Ways(Append(s, line), c, h)))
  BY DEF Totals
<1>1. c \in Seq(Line) /\ Len(c) # 0
  BY DEF Contexts
<1>2. WaysRecur(s, line, c, h)
  BY <1>1, WaysNext
<1> DEFINE n == Cardinality(Ways(s, c, h))
           m == Cardinality(Ways(Append(s, line), c, h))
<1>3. Holds(At(table, c), n)
  BY DEF Totals
<1>4. n \in Nat /\ m = IF Ends(s, Len(s) + 1 - h, c) THEN n + 1 ELSE n
  BY <1>2 DEF WaysRecur
<1> HIDE DEF n, m
<1>5. At(Counted(table, contexts, line), c) =
        IF Ends(s, Len(s) + 1 - h, c) THEN BG!BagAdd(At(table, c), line) ELSE At(table, c)
  BY AtCounted
<1>6. CASE Ends(s, Len(s) + 1 - h, c)
  <2>1. Holds(BG!BagAdd(At(table, c), line), n + 1)
    BY <1>3, <1>4, HoldsMore
  <2> QED BY <1>4, <1>5, <1>6, <2>1 DEF m
<1>7. CASE ~ Ends(s, Len(s) + 1 - h, c)
  BY <1>3, <1>4, <1>5, <1>7 DEF m
<1> QED BY <1>6, <1>7

\* A trace too short to teach anything leaves the totals right.
LEMMA ShortTotals ==
  ASSUME NEW s \in Seq(Line), NEW line \in Line, NEW h \in Nat \ {0},
         NEW lengths \in SUBSET (Nat \ {0}), NEW table,
         Totals(table, lengths, h, s), Len(s) + 1 <= h
  PROVE  Totals(table, lengths, h, Append(s, line))
<1> SUFFICES ASSUME NEW c \in Contexts(lengths)
             PROVE  Holds(At(table, c), Cardinality(Ways(Append(s, line), c, h)))
  BY DEF Totals
<1>1. c \in Seq(Line) /\ Len(c) \in Nat \ {0}
  BY DEF Contexts
<1>2. WaysRecur(s, line, c, h)
  BY <1>1, WaysNext
<1>3. ~ Ends(s, Len(s) + 1 - h, c)
  <2>1. Len(s) \in Nat
    OBVIOUS
  <2> QED BY <1>1, <2>1 DEF Ends
<1>4. Holds(At(table, c), Cardinality(Ways(s, c, h)))
  BY DEF Totals
<1> QED BY <1>2, <1>3, <1>4 DEF WaysRecur

\* Counting every suffix of the recent lines keeps the totals of all lengths right.
LEMMA SuffixesTotals ==
  ASSUME NEW s \in Seq(Line), NEW line \in Line, NEW h \in Nat \ {0}, NEW table, NEW p,
         Behind(p, s, h), Totals(table, 1 .. Depth, h, s)
  PROVE  Totals(Counted(table, SuffixesOf(Recent(p, Depth)), line), 1 .. Depth, h, Append(s, line))
<1>1. Depth \in Nat \ {0} /\ p \in Seq(Line)
  BY PredictorsAssumption DEF Behind
<1>2. \A c \in Contexts(1 .. Depth) :
        c \in SuffixesOf(Recent(p, Depth)) <=> Ends(s, Len(s) + 1 - h, c)
  BY <1>1, SuffixesAre DEF Behind
<1>3. 1 .. Depth \in SUBSET (Nat \ {0})
  OBVIOUS
<1> QED BY <1>2, <1>3, CountedTotals

\* So does the trie, whose new nodes hold nothing until they are counted.
LEMMA TrieTotals ==
  ASSUME NEW s \in Seq(Line), NEW line \in Line, NEW h \in Nat \ {0}, NEW trie, NEW p,
         Behind(p, s, h), Totals(trie, 1 .. Depth, h, s), DOMAIN trie \subseteq Contexts(1 .. Depth)
  PROVE  Totals(TrieUpdate(trie, p, line, Depth), 1 .. Depth, h, Append(s, line))
<1>1. p \in Seq(Line)
  BY DEF Behind
<1>2. PICK grown : /\ TrieUpdate(trie, p, line, Depth) =
                        Counted(grown, SuffixesOf(Recent(p, Depth)), line)
                   /\ DOMAIN grown \subseteq Contexts(1 .. Depth)
                   /\ \A c : At(grown, c) = At(trie, c)
  BY <1>1, TrieUpdateIs
<1>3. Totals(grown, 1 .. Depth, h, s)
  BY <1>2 DEF Totals
<1> QED BY <1>2, <1>3, SuffixesTotals

\* The flat table counts the one context of full depth.
LEMMA FlatTotals ==
  ASSUME NEW s \in Seq(Line), NEW line \in Line, NEW h \in Nat \ {0}, NEW table, NEW p,
         Behind(p, s, h), Totals(table, {Depth}, h, s)
  PROVE  Totals(Counted(table, {Recent(p, Depth)}, line), {Depth}, h, Append(s, line))
<1>1. Depth \in Nat \ {0} /\ p \in Seq(Line)
  BY PredictorsAssumption DEF Behind
<1>2. Contexts({Depth}) \subseteq Contexts(1 .. Depth)
  BY <1>1 DEF Contexts
<1>3. \A c \in Contexts({Depth}) : c \in {Recent(p, Depth)} <=> Ends(p, Len(p), c)
  BY <1>1, FullContext
<1>4. \A c \in Contexts({Depth}) : c \in {Recent(p, Depth)} <=> Ends(s, Len(s) + 1 - h, c)
  BY <1>2, <1>3 DEF Behind
<1>5. {Depth} \in SUBSET (Nat \ {0})
  BY <1>1
<1> QED BY <1>4, <1>5, CountedTotals

\* A table of contexts that were all observed.
Observed(table) == \A c \in DOMAIN table : c \in Contexts(1 .. Depth) /\ table[c] # EmptyBag

\* Counting one more context.
LEMMA CountedObserved ==
  ASSUME NEW table, Observed(table), NEW c \in Contexts(1 .. Depth), NEW line
  PROVE  Observed(Counted(table, {c}, line))
<1> DEFINE new == Counted(table, {c}, line)
<1>1. new = [k \in DOMAIN table \cup {c} |->
               IF k \in {c} THEN BG!BagAdd(At(table, k), line) ELSE table[k]]
  BY DEF Counted
<1> HIDE DEF new
<1> SUFFICES ASSUME NEW k \in DOMAIN new PROVE k \in Contexts(1 .. Depth) /\ new[k] # EmptyBag
  BY DEF Observed, new
<1>2. CASE k = c
  <2>1. new[k] = BG!BagAdd(At(table, k), line)
    BY <1>1, <1>2
  <2> QED BY <1>2, <2>1, AddedNotEmpty
<1>3. CASE k # c
  <2>1. k \in DOMAIN table /\ new[k] = table[k]
    BY <1>1, <1>3
  <2> QED BY <2>1 DEF Observed
<1> QED BY <1>2, <1>3

\* The invariant of the bags: how many occurrences each holds.
BagsTold ==
  /\ TablesTold
  /\ Totals(model.trie, 1 .. Depth, 1, train)
  /\ Totals(model.markov, 1 .. Depth, 1, train)
  /\ Totals(model.flat, {Depth}, Horizon, train)
  /\ Observed(model.flat)

\* The empty table has the totals of the empty trace.
LEMMA NothingTotals == \A lengths \in SUBSET Nat, h \in Nat \ {0} : Totals(<<>>, lengths, h, <<>>)
<1> SUFFICES ASSUME NEW lengths \in SUBSET Nat, NEW h \in Nat \ {0}, NEW c \in Contexts(lengths)
             PROVE  Holds(At(<<>>, c), Cardinality(Ways(<<>>, c, h)))
  BY DEF Totals
<1>1. At(<<>>, c) = EmptyBag
  BY DEF At
<1>2. Len(c) \in Nat
  BY DEF Contexts
<1>3. Len(c) .. Len(<<>>) - h = {}
  BY <1>2
<1>4. Ways(<<>>, c, h) = {}
  BY <1>3 DEF Ways
<1> QED BY <1>1, <1>4, EmptyHolds, FS_EmptySet

\* The bags start empty.
LEMMA BagsInit == Init => BagsTold
<1> SUFFICES ASSUME Init PROVE BagsTold
  OBVIOUS
<1>1. Depth \in Nat \ {0} /\ Horizon \in Nat \ {0}
  BY PredictorsAssumption
<1>2. train = <<>> /\ model.trie = <<>> /\ model.markov = <<>> /\ model.flat = <<>>
  BY DEF Init
<1>3. /\ 1 .. Depth \in SUBSET Nat /\ {Depth} \in SUBSET Nat
      /\ 1 \in Nat \ {0} /\ Horizon \in Nat \ {0}
  BY <1>1
<1>4. /\ Totals(<<>>, 1 .. Depth, 1, <<>>) /\ Totals(<<>>, {Depth}, Horizon, <<>>)
  BY <1>3, NothingTotals
<1>5. Observed(<<>>)
  BY DEF Observed
<1>6. TablesTold
  BY TablesInit
<1> QED BY <1>2, <1>4, <1>5, <1>6, Zenon DEF BagsTold

\* One line of the trace keeps the totals right.
LEMMA BagsObserve ==
  ASSUME BagsTold, NEW line \in Line, Observe(line) PROVE BagsTold'
<1> DEFINE values == Append(train, line)
<1>0. TablesTold /\ TablesTold'
  BY TablesObserve DEF BagsTold
<1>1. /\ train \in Seq(Line) /\ values \in Seq(Line)
      /\ Horizon \in Nat \ {0} /\ 1 \in Nat \ {0} /\ Depth \in Nat \ {0} /\ Len(train) \in Nat
      /\ Len(values) = Len(train) + 1
  BY <1>0, PredictorsAssumption DEF TablesTold
<1>2. /\ train' = values
      /\ model'.trie = WAMLearns(model.trie, train, line)
      /\ model'.markov = MarkovLearns(model.markov, train, line)
      /\ model'.flat = FlatLearns(model.flat, values)
  BY DEF Observe
<1>3. Behind(train, train, 1)
  BY <1>1, BehindOne
<1>4. Totals(model'.trie, 1 .. Depth, 1, values)
  <2>1. Totals(model.trie, 1 .. Depth, 1, train) /\ DOMAIN model.trie \subseteq Contexts(1 .. Depth)
    BY DEF BagsTold, TablesTold, Told
  <2>2. CASE train = <<>>
    <3>1. Len(train) + 1 <= 1 /\ model'.trie = model.trie
      BY <1>2, <2>2 DEF WAMLearns
    <3>2. 1 .. Depth \in SUBSET (Nat \ {0})
      OBVIOUS
    <3> QED BY <1>1, <2>1, <3>1, <3>2, ShortTotals
  <2>3. CASE train # <<>>
    <3>1. model'.trie = TrieUpdate(model.trie, train, line, Depth)
      BY <1>2, <2>3 DEF WAMLearns
    <3> QED BY <1>1, <1>3, <2>1, <3>1, TrieTotals
  <2> QED BY <2>2, <2>3
<1>5. Totals(model'.markov, 1 .. Depth, 1, values)
  <2>1. Totals(model.markov, 1 .. Depth, 1, train)
    BY DEF BagsTold
  <2>2. model'.markov = Counted(model.markov, SuffixesOf(Recent(train, Depth)), line)
    BY <1>2 DEF MarkovLearns
  <2> QED BY <1>1, <1>3, <2>1, <2>2, SuffixesTotals
<1>6. Totals(model.flat, {Depth}, Horizon, train) /\ Observed(model.flat)
  BY DEF BagsTold
<1>7. CASE Len(train) + 1 <= Horizon
  <2>1. model'.flat = model.flat
    BY <1>1, <1>2, <1>7 DEF FlatLearns
  <2>2. {Depth} \in SUBSET (Nat \ {0})
    BY <1>1
  <2>3. Totals(model.flat, {Depth}, Horizon, values)
    BY <1>1, <1>6, <1>7, <2>2, ShortTotals
  <2> HIDE DEF values
  <2> QED BY <1>0, <1>2, <1>4, <1>5, <1>6, <2>1, <2>3 DEF BagsTold
<1>8. CASE Len(train) + 1 > Horizon
  <2> DEFINE p == Past(values, Horizon)
  <2>1. Behind(p, train, Horizon) /\ Last(values) = line /\ Len(p) = Len(train) + 1 - Horizon
    BY <1>1, <1>8, BehindPast
  <2>2. model'.flat = Counted(model.flat, {Recent(p, Depth)}, Last(values))
    BY <1>1, <1>2, <1>8 DEF FlatLearns
  <2>3. Totals(model'.flat, {Depth}, Horizon, values)
    BY <1>1, <1>6, <2>1, <2>2, FlatTotals
  <2>4. Len(p) \in Nat \ {0}
    BY <1>1, <1>8, <2>1
  <2> HIDE DEF values, p
  <2>5. p \in Seq(Line)
    BY <2>1 DEF Behind
  <2>6. /\ Recent(p, Depth) \in Seq(Line)
        /\ Len(Recent(p, Depth)) = IF Len(p) <= Depth THEN Len(p) ELSE Depth
    BY <1>1, <2>5, RecentIs
  <2>7. Recent(p, Depth) \in Contexts(1 .. Depth)
    <3>1. Len(Recent(p, Depth)) \in 1 .. Depth
      BY <1>1, <2>4, <2>6
    <3> QED BY <2>6, <3>1 DEF Contexts
  <2>8. Observed(model'.flat)
    BY <1>6, <2>2, <2>7, CountedObserved
  <2> QED BY <1>0, <1>2, <1>4, <1>5, <2>3, <2>8 DEF BagsTold
<1> QED BY <1>1, <1>7, <1>8

\* So does every step.
LEMMA BagsStep == BagsTold /\ [Next]_vars => BagsTold'
<1> SUFFICES ASSUME BagsTold, [Next]_vars PROVE BagsTold'
  OBVIOUS
<1>0. TablesTold /\ TablesTold'
  BY TablesStep DEF BagsTold
<1>1. CASE \E line \in Line : Observe(line)
  BY <1>1, BagsObserve
<1>2. CASE UNCHANGED <<train, model>>
  BY <1>0, <1>2 DEF BagsTold, Totals, Observed
<1>3. CASE Freeze
  <2>1. /\ train' = train
        /\ model'.trie = model.trie /\ model'.markov = model.markov /\ model'.flat = model.flat
    BY <1>0, <1>3 DEF Freeze, TablesTold
  <2> QED BY <1>0, <2>1 DEF BagsTold, Totals, Observed
<1>4. CASE \E line \in Line : Demand(line)
  <2>1. UNCHANGED <<train, model>>
    BY <1>4 DEF Demand
  <2> QED BY <1>2, <2>1
<1>5. CASE UNCHANGED vars
  BY <1>2, <1>5 DEF vars
<1> QED BY <1>1, <1>3, <1>4, <1>5 DEF Next

\* Where a context ends, its prefix has ended before.
LEMMA PrefixWays ==
  ASSUME NEW s \in Seq(Line), NEW h \in Nat, NEW c \in Seq(Line), NEW d \in 1 .. Len(c)
  PROVE  Cardinality(Ways(s, c, h)) <= Cardinality(Ways(s, SubSeq(c, 1, d), h))
<1> DEFINE p == SubSeq(c, 1, d)
           l == Len(c)
           k == l - d
           S == Ways(s, c, h)
           T == Ways(s, p, h)
           f == [i \in S |-> i - k]
<1>1. /\ l \in Nat /\ d \in Nat /\ d >= 1 /\ k \in Nat /\ l = d + k /\ Len(s) \in Nat
      /\ p \in Seq(Line) /\ Len(p) = d /\ \A j \in 1 .. d : p[j] = c[j]
  OBVIOUS
<1> HIDE DEF k, l, p
<1>2. ASSUME NEW i \in S PROVE i - k \in T /\ i \in Int
  <2>1. i \in l .. Len(s) - h /\ SubSeq(s, i - l + 1, i) = c
    BY DEF Ways, l
  <2> DEFINE a == i - l + 1
             q == i - k
  <2>2. /\ i \in Nat /\ i <= Len(s) /\ a \in Nat /\ a >= 1 /\ a <= q /\ q <= i /\ q \in Nat
        /\ q - a + 1 = d /\ i - a + 1 = l /\ q \in d .. Len(s) - h /\ q - d + 1 = a
    BY <1>1, <2>1
  <2> HIDE DEF a, q
  <2>3. /\ SubSeq(s, a, q) \in Seq(Line) /\ Len(SubSeq(s, a, q)) = d
        /\ \A j \in 1 .. d : SubSeq(s, a, q)[j] = s[a + j - 1]
    BY <2>2
  <2>4. \A j \in 1 .. l : c[j] = s[a + j - 1]
    <3>1. SubSeq(s, a, i) = c
      BY <2>1 DEF a
    <3>2. \A j \in 1 .. l : SubSeq(s, a, i)[j] = s[a + j - 1]
      BY <2>2
    <3> QED BY <3>1, <3>2
  <2>5. \A j \in 1 .. d : SubSeq(s, a, q)[j] = p[j]
    <3>1. \A j \in 1 .. d : j \in 1 .. l
      BY <1>1
    <3> QED BY <1>1, <2>3, <2>4, <3>1
  <2>6. SubSeq(s, a, q) = p
    BY <1>1, <2>3, <2>5, SeqEqual
  <2>7. q \in T
    BY <1>1, <2>2, <2>6 DEF Ways
  <2> QED BY <2>2, <2>7 DEF q
<1> HIDE DEF S, T
<1>3. f \in Injection(S, T)
  <2>1. f \in [S -> T]
    BY <1>2
  <2>2. \A i, j \in S : f[i] = f[j] => i = j
    BY <1>1, <1>2
  <2> HIDE DEF f
  <2> QED BY <2>1, <2>2 DEF Injection, IsInjective
<1>4. IsFiniteSet(T)
  BY <1>1, WaysFinite DEF T
<1> HIDE DEF f
<1>5. Cardinality(S) <= Cardinality(T)
  BY <1>3, <1>4, FS_Injection
<1> QED BY <1>5 DEF S, T, p

\* A node that answers, for the pruned predictor.
Worth(trie, c) == At(trie, c) # EmptyBag /\ Total(At(trie, c)) >= Least

\* The end of a context, of some length.
LEMMA SuffixIs ==
  ASSUME NEW context \in Seq(Line), NEW n \in 1 .. Len(Recent(context, Depth))
  PROVE  Recent(context, n) \in Contexts(1 .. Depth) /\ Len(Recent(context, n)) = n
<1>1. Depth \in Nat \ {0} /\ Len(context) \in Nat
  BY PredictorsAssumption
<1>2. Len(Recent(context, Depth)) = IF Len(context) <= Depth THEN Len(context) ELSE Depth
  BY <1>1, RecentIs
<1>3. n \in Nat /\ n >= 1 /\ n <= Len(context) /\ n <= Depth
  BY <1>1, <1>2
<1>4. /\ Recent(context, n) \in Seq(Line)
      /\ Len(Recent(context, n)) = IF Len(context) <= n THEN Len(context) ELSE n
  BY <1>3, RecentIs
<1>5. Len(Recent(context, n)) = n
  BY <1>1, <1>3, <1>4
<1> QED BY <1>1, <1>3, <1>4, <1>5 DEF Contexts

\* Two tries with the same answers match to the same depth.
LEMMA MatchedSame ==
  ASSUME NEW trie, NEW other, \A c \in Contexts(1 .. Depth) : Worth(trie, c) <=> Worth(other, c),
         NEW context \in Seq(Line)
  PROVE  MatchedDepth(other, context, Depth, Least, FALSE) = MatchedDepth(trie, context, Depth, Least, FALSE)
<1> DEFINE requested == Len(Recent(context, Depth))
           Known(t) == {n \in (1 .. requested) \ {0} :
                          /\ At(t, Recent(context, n)) # EmptyBag
                          /\ Total(At(t, Recent(context, n))) >= Least}
<1>1. \A t : MatchedDepth(t, context, Depth, Least, FALSE) = IF Known(t) = {} THEN 0 ELSE Max(Known(t))
  BY DEF MatchedDepth
<1>2. \A t : \A n : n \in Known(t) <=> n \in (1 .. requested) \ {0} /\ Worth(t, Recent(context, n))
  BY DEF Worth
<1>3. \A n \in 1 .. requested : Recent(context, n) \in Contexts(1 .. Depth)
  BY SuffixIs
<1> HIDE DEF Known, requested
<1>4. \A n : n \in Known(trie) <=> n \in Known(other)
  BY <1>2, <1>3
<1>5. Known(trie) = Known(other)
  BY <1>4
<1> QED BY <1>1, <1>5

\* The match is a node that answers.
LEMMA MatchedWorth ==
  ASSUME NEW trie, NEW context \in Seq(Line), NEW n,
         n = MatchedDepth(trie, context, Depth, Least, FALSE), n > 0
  PROVE  n \in 1 .. Len(Recent(context, Depth)) /\ Worth(trie, Recent(context, n))
<1> DEFINE requested == Len(Recent(context, Depth))
           known == {m \in (1 .. requested) \ {0} :
                       /\ At(trie, Recent(context, m)) # EmptyBag
                       /\ Total(At(trie, Recent(context, m))) >= Least}
<1>1. n = IF known = {} THEN 0 ELSE Max(known)
  BY DEF MatchedDepth
<1>2. requested \in Nat
  BY RecentIs, PredictorsAssumption
<1>3. \A m \in known : m \in 1 .. requested /\ Worth(trie, Recent(context, m))
  BY DEF Worth
<1> HIDE DEF known, requested
<1>4. known # {} /\ n = Max(known)
  <2>1. ASSUME known = {} PROVE FALSE
    <3>1. n = 0
      BY <1>1, <2>1
    <3>2. ~ (0 > 0)
      OBVIOUS
    <3> QED BY <3>1, <3>2
  <2> QED BY <1>1, <2>1
<1>5. known \in SUBSET (0 .. requested)
  <2>1. \A m \in 1 .. requested : m \in 0 .. requested
    BY <1>2
  <2> QED BY <1>3, <2>1
<1>6. n \in known
  BY <1>2, <1>4, <1>5, MaxIs
<1> QED BY <1>3, <1>6 DEF requested

\* What holds of a node that answers: it is kept as it was, and only such are.
KeptNode(trie, c) ==
  /\ Worth(trie, c) <=> Worth(Pruned(trie, Least), c)
  /\ Worth(trie, c) => Pruned(trie, Least)[c] = trie[c]

\* Pruning keeps every node that answers, since the nodes above it were seen at
\* least as often.
LEMMA PrunedKeeps ==
  ASSUME NEW s \in Seq(Line), NEW trie, Totals(trie, 1 .. Depth, 1, s),
         NEW c \in Contexts(1 .. Depth)
  PROVE  KeptNode(trie, c)
<1> DEFINE K == {n \in DOMAIN trie : \A d \in 1 .. Len(n) : Total(At(trie, SubSeq(n, 1, d))) >= Least}
           pruned == Pruned(trie, Least)
<1>1. CASE Least <= 1
  <2>1. pruned = trie
    BY <1>1 DEF Pruned
  <2> QED BY <2>1 DEF KeptNode
<1>2. CASE ~ (Least <= 1)
  <2>1. pruned = [n \in K |-> trie[n]]
    BY <1>2 DEF Pruned, Restrict
  <2>2. K \subseteq DOMAIN trie
    OBVIOUS
  <2>3. \A n \in DOMAIN trie :
          n \in K <=> \A d \in 1 .. Len(n) : Total(At(trie, SubSeq(n, 1, d))) >= Least
    OBVIOUS
  <2> HIDE DEF K, pruned
  <2>4. DOMAIN pruned = K /\ \A n \in K : pruned[n] = trie[n]
    BY <2>1
  <2>5. \A n \in K : At(pruned, n) = At(trie, n)
    BY <2>2, <2>4 DEF At
  <2>6. c \notin K => At(pruned, c) = EmptyBag
    BY <2>4 DEF At
  <2>7. ASSUME Worth(trie, c) PROVE c \in K
    <3>1. c \in DOMAIN trie
      BY <2>7 DEF Worth, At
    <3>2. ASSUME NEW d \in 1 .. Len(c) PROVE Total(At(trie, SubSeq(c, 1, d))) >= Least
      <4>1. c \in Seq(Line) /\ Len(c) \in 1 .. Depth /\ 1 \in Nat /\ Depth \in Nat
        BY PredictorsAssumption DEF Contexts
      <4>2. SubSeq(c, 1, d) \in Seq(Line) /\ Len(SubSeq(c, 1, d)) = d /\ d \in 1 .. Depth
        BY <4>1
      <4>3. SubSeq(c, 1, d) \in Contexts(1 .. Depth)
        BY <4>2 DEF Contexts
      <4> DEFINE n == Cardinality(Ways(s, c, 1))
                 m == Cardinality(Ways(s, SubSeq(c, 1, d), 1))
      <4>4. n <= m
        BY <4>1, PrefixWays
      <4>5. n \in Nat /\ m \in Nat
        BY <4>1, <4>2, WaysFinite
      <4>6. Total(At(trie, c)) = n /\ Total(At(trie, SubSeq(c, 1, d))) = m
        BY <4>3 DEF Totals, Holds
      <4>7. n >= Least
        BY <2>7, <4>6 DEF Worth
      <4>8. Least \in Nat
        BY LearningAssumption
      <4> HIDE DEF n, m
      <4> QED BY <4>4, <4>5, <4>6, <4>7, <4>8
    <3> QED BY <2>3, <3>1, <3>2
  <2>8. Worth(pruned, c) => c \in K
    BY <2>6 DEF Worth
  <2>9. Worth(trie, c) <=> Worth(pruned, c)
    BY <2>5, <2>7, <2>8 DEF Worth
  <2>10. Worth(trie, c) => pruned[c] = trie[c]
    BY <2>4, <2>7
  <2> QED BY <2>9, <2>10 DEF KeptNode, pruned
<1> QED BY <1>1, <1>2

\* The inductive invariant of the pruned predictor.
PruneInv ==
  /\ BagsTold
  /\ ScoreInv
  /\ "pruned" \in DOMAIN model
  /\ frozen => model.pruned = Pruned(model.trie, Least)

\* Nothing is frozen at first.
LEMMA PruneInit == Init => PruneInv
<1> SUFFICES ASSUME Init PROVE PruneInv
  OBVIOUS
<1>1. BagsTold /\ ScoreInv
  BY BagsInit, ScoreInit
<1>2. "pruned" \in DOMAIN model /\ ~ frozen
  BY DEF Init
<1> QED BY <1>1, <1>2 DEF PruneInv

\* freeze() prunes, and nothing is learnt afterwards.
LEMMA PruneStep == PruneInv /\ [Next]_vars => PruneInv'
<1> SUFFICES ASSUME PruneInv, [Next]_vars PROVE PruneInv'
  OBVIOUS
<1>1. BagsTold' /\ ScoreInv'
  BY BagsStep, ScoreStep DEF PruneInv
<1>2. CASE \E line \in Line : Observe(line)
  <2>1. frozen' = frozen /\ ~ frozen /\ "pruned" \in DOMAIN model'
    BY <1>2 DEF Observe
  <2> QED BY <1>1, <2>1 DEF PruneInv
<1>3. CASE Freeze
  <2>1. DOMAIN model' = DOMAIN model /\ "pruned" \in DOMAIN model /\ "trie" \in DOMAIN model
    BY <1>3 DEF Freeze, PruneInv, BagsTold, TablesTold
  <2>2. model'.pruned = Pruned(model.trie, Least) /\ model'.trie = model.trie
    BY <1>3, <2>1 DEF Freeze
  <2> QED BY <1>1, <2>1, <2>2 DEF PruneInv
<1>4. CASE UNCHANGED <<frozen, model>>
  BY <1>1, <1>4 DEF PruneInv
<1>5. CASE \E line \in Line : Demand(line)
  <2>1. UNCHANGED <<frozen, model>>
    BY <1>5 DEF Demand
  <2> QED BY <1>4, <2>1
<1>6. CASE UNCHANGED vars
  BY <1>4, <1>6 DEF vars
<1> QED BY <1>2, <1>3, <1>5, <1>6 DEF Next

\* The inductive invariant says what PruneInvisible states.
LEMMA PruneIs == PruneInv => PruneInvisible
<1> SUFFICES ASSUME PruneInv, frozen PROVE PruneInvisible
  BY DEF PruneInvisible
<1> DEFINE known == train \o evaluation
           Depth_(t, context) == MatchedDepth(t, context, Depth, Least, FALSE)
<1>1. known \in Seq(Line) /\ train \in Seq(Line) /\ Totals(model.trie, 1 .. Depth, 1, train)
  BY DEF PruneInv, ScoreInv, ScoreTypeOK, BagsTold
<1>2. model.pruned = Pruned(model.trie, Least)
  BY DEF PruneInv
<1>3. \A c \in Contexts(1 .. Depth) : KeptNode(model.trie, c)
  BY <1>1, PrunedKeeps
<1>4. \A c \in Contexts(1 .. Depth) : Worth(model.trie, c) <=> Worth(model.pruned, c)
  BY <1>2, <1>3 DEF KeptNode
<1> HIDE DEF known
<1>5. ASSUME NEW i \in 1 .. Len(known)
      PROVE  LET n == Depth_(model.trie, SubSeq(known, 1, i))
             IN  /\ Depth_(model.pruned, SubSeq(known, 1, i)) = n
                 /\ n > 0 => model.pruned[Recent(SubSeq(known, 1, i), n)]
                               = model.trie[Recent(SubSeq(known, 1, i), n)]
  <2> DEFINE context == SubSeq(known, 1, i)
             n == Depth_(model.trie, context)
  <2>1. context \in Seq(Line)
    BY <1>1
  <2> HIDE DEF context
  <2>2. Depth_(model.pruned, context) = n
    BY <1>4, <2>1, MatchedSame
  <2>3. ASSUME n > 0
        PROVE  model.pruned[Recent(context, n)] = model.trie[Recent(context, n)]
    <3>1. n \in 1 .. Len(Recent(context, Depth)) /\ Worth(model.trie, Recent(context, n))
      BY <2>1, <2>3, MatchedWorth
    <3> HIDE DEF n
    <3>2. Recent(context, n) \in Contexts(1 .. Depth)
      BY <2>1, <3>1, SuffixIs
    <3> QED BY <1>2, <1>3, <3>1, <3>2 DEF KeptNode
  <2> QED BY <2>2, <2>3 DEF context
<1> QED BY <1>5 DEF PruneInvisible, known

\* Pruning hides no answer: for every trace, depth and number of observations asked for.
THEOREM PruningIsInvisible == Spec => []PruneInvisible
BY PruneInit, PruneStep, PruneIs, PTL DEF Spec

--------------------------------------------------------------------------------
\* Tables counted in one pass: the oracles against the predictors.

\* The bag of the lines that came h lines after c.
BagOf(s, c, h) ==
  LET here == Ways(s, c, h)
  IN  [x \in {s[i + h] : i \in here} |-> Cardinality({i \in here : s[i + h] = x})]

\* A bag without a zero that counts the occurrences is the bag of the occurrences.
LEMMA BagIs ==
  ASSUME NEW s \in Seq(Line), NEW h \in Nat \ {0}, NEW c \in Seq(Line), NEW seen, WellCounted(seen),
         \A x \in Line : Times(seen, x) = Counts(s, c, x, h)
  PROVE  seen = BagOf(s, c, h)
<1> DEFINE here == Ways(s, c, h)
           D == {s[i + h] : i \in here}
           At_(x) == {i \in here : s[i + h] = x}
<1>1. seen \in [DOMAIN seen -> Nat \ {0}] /\ DOMAIN seen \subseteq Line
  BY DEF WellCounted
<1>2. \A x : Counts(s, c, x, h) = Cardinality(At_(x))
  <2> SUFFICES ASSUME NEW x PROVE Counts(s, c, x, h) = Cardinality(At_(x))
    OBVIOUS
  <2>1. At_(x) = {i \in Len(c) .. Len(s) - h : SubSeq(s, i - Len(c) + 1, i) = c /\ s[i + h] = x}
    BY DEF Ways
  <2> QED BY <2>1 DEF Counts
<1>3. \A i \in here : s[i + h] \in Line
  <2>1. \A i \in Len(c) .. Len(s) - h : i + h \in 1 .. Len(s)
    OBVIOUS
  <2> QED BY <2>1 DEF Ways
<1>4. IsFiniteSet(here)
  BY WaysFinite
<1>5. BagOf(s, c, h) = [x \in D |-> Cardinality(At_(x))]
  BY DEF BagOf
<1>6. \A x : x \in D <=> At_(x) # {}
  OBVIOUS
<1>7. D \subseteq Line
  BY <1>3
<1>8. \A x : IsFiniteSet(At_(x))
  BY <1>4, FS_Subset
<1> HIDE DEF here, D, At_
<1>9. \A x : Cardinality(At_(x)) = 0 <=> At_(x) = {}
  BY <1>8, FS_EmptySet
<1>10. \A x \in Line : x \in DOMAIN seen <=> x \in D
  <2> SUFFICES ASSUME NEW x \in Line PROVE x \in DOMAIN seen <=> x \in D
    OBVIOUS
  <2>1. Times(seen, x) = Cardinality(At_(x))
    BY <1>2
  <2>2. x \in DOMAIN seen => Times(seen, x) # 0
    BY <1>1 DEF Times
  <2>3. x \notin DOMAIN seen => Times(seen, x) = 0
    BY DEF Times
  <2> QED BY <1>6, <1>9, <2>1, <2>2, <2>3
<1>11. DOMAIN seen = D
  BY <1>1, <1>7, <1>10
<1>12. \A x \in D : seen[x] = Cardinality(At_(x))
  <2> SUFFICES ASSUME NEW x \in D PROVE seen[x] = Cardinality(At_(x))
    OBVIOUS
  <2>1. x \in Line
    BY <1>7
  <2>2. Times(seen, x) = Cardinality(At_(x))
    BY <1>2, <2>1
  <2>3. Times(seen, x) = seen[x]
    BY <1>11 DEF Times
  <2> QED BY <2>2, <2>3
<1>13. seen = [x \in D |-> seen[x]]
  BY <1>1, <1>11
<1> QED BY <1>5, <1>12, <1>13

\* Nothing follows a context that has not occurred.
LEMMA BagEmpty ==
  ASSUME NEW s, NEW c, NEW h
  PROVE  BagOf(s, c, h) = EmptyBag <=> Ways(s, c, h) = {}
<1>1. DOMAIN BagOf(s, c, h) = {s[i + h] : i \in Ways(s, c, h)}
  BY DEF BagOf
<1>2. EmptyBag = [e \in {} |-> 1]
  BY DEF EmptyBag, SetToBag
<1>3. ASSUME Ways(s, c, h) = {} PROVE BagOf(s, c, h) = EmptyBag
  <2>1. BagOf(s, c, h) = [x \in {} |-> Cardinality({i \in Ways(s, c, h) : s[i + h] = x})]
    BY <1>1, <1>3 DEF BagOf
  <2> QED BY <1>2, <2>1
<1>4. ASSUME BagOf(s, c, h) = EmptyBag PROVE Ways(s, c, h) = {}
  <2>1. DOMAIN BagOf(s, c, h) = {}
    BY <1>2, <1>4
  <2> QED BY <1>1, <2>1
<1> QED BY <1>3, <1>4

\* The part of a sequence up to a position has its end where the sequence has it.
LEMMA UpToEnds ==
  ASSUME NEW s \in Seq(Line), NEW i \in 1 .. Len(s), NEW c \in Seq(Line)
  PROVE  /\ SubSeq(s, 1, i) \in Seq(Line) /\ Len(SubSeq(s, 1, i)) = i
         /\ Len(c) # 0 => (Ends(SubSeq(s, 1, i), i, c) <=> Ends(s, i, c))
<1> DEFINE p == SubSeq(s, 1, i)
           l == Len(c)
           a == i - l + 1
<1>1. /\ p \in Seq(Line) /\ Len(p) = i /\ \A j \in 1 .. i : p[j] = s[j]
      /\ i \in Nat /\ l \in Nat /\ Len(s) \in Nat /\ i <= Len(s)
  OBVIOUS
<1>2. ASSUME l <= i, l # 0 PROVE SubSeq(p, a, i) = SubSeq(s, a, i)
  <2>1. a \in Nat /\ a >= 1 /\ a <= i /\ i - a + 1 = l
    BY <1>1, <1>2
  <2> HIDE DEF p, a
  <2>2. /\ SubSeq(p, a, i) \in Seq(Line) /\ Len(SubSeq(p, a, i)) = l
        /\ \A j \in 1 .. l : SubSeq(p, a, i)[j] = p[a + j - 1]
    BY <1>1, <2>1
  <2>3. /\ SubSeq(s, a, i) \in Seq(Line) /\ Len(SubSeq(s, a, i)) = l
        /\ \A j \in 1 .. l : SubSeq(s, a, i)[j] = s[a + j - 1]
    BY <1>1, <2>1
  <2>4. \A j \in 1 .. l : a + j - 1 \in 1 .. i
    BY <1>1, <2>1
  <2>5. \A j \in 1 .. l : SubSeq(p, a, i)[j] = SubSeq(s, a, i)[j]
    BY <1>1, <2>2, <2>3, <2>4
  <2> QED BY <2>2, <2>3, <2>5, SeqEqual
<1> HIDE DEF p
<1>3. l # 0 => (Ends(p, i, c) <=> Ends(s, i, c))
  BY <1>2 DEF Ends
<1> QED BY <1>1, <1>3 DEF p

\* The positions whose recent lines are a context of full depth are where it ends.
LEMMA FullEnds ==
  ASSUME NEW s \in Seq(Line), NEW i \in 1 .. Len(s), NEW c \in Contexts({Depth})
  PROVE  Recent(SubSeq(s, 1, i), Depth) = c <=> Ends(s, i, c)
<1>1. c \in Seq(Line) /\ Len(c) = Depth /\ Depth \in Nat \ {0}
  BY PredictorsAssumption DEF Contexts
<1> DEFINE p == SubSeq(s, 1, i)
<1>2. p \in Seq(Line) /\ Len(p) = i /\ (Ends(p, i, c) <=> Ends(s, i, c))
  BY <1>1, UpToEnds
<1> HIDE DEF p
<1>3. c \in {Recent(p, Depth)} <=> Ends(p, Len(p), c)
  BY <1>1, <1>2, FullContext
<1> QED BY <1>2, <1>3 DEF p

\* The context that the oracles read off a position.
ContextAt(s, i) == Recent(SubSeq(s, 1, i), Depth)

\* A sequence that begins with another one has its contexts.
Begins(t, s) ==
  /\ t \in Seq(Line) /\ Len(s) <= Len(t)
  /\ \A i \in 1 .. Len(s) : t[i] = s[i]

\* Both read the same context off a position of the shorter one.
LEMMA BeginsContext ==
  ASSUME NEW s \in Seq(Line), NEW t, Begins(t, s), NEW i \in 1 .. Len(s)
  PROVE  SubSeq(t, 1, i) = SubSeq(s, 1, i) /\ SubSeq(s, 1, i) \in Seq(Line)
<1> DEFINE p == SubSeq(s, 1, i)
           q == SubSeq(t, 1, i)
<1>1. /\ p \in Seq(Line) /\ Len(p) = i /\ \A j \in 1 .. i : p[j] = s[j]
      /\ i \in Nat /\ Len(s) \in Nat /\ i <= Len(s)
  OBVIOUS
<1>2. t \in Seq(Line) /\ i \in 1 .. Len(t) /\ i <= Len(t)
  BY <1>1 DEF Begins
<1>3. q \in Seq(Line) /\ Len(q) = i /\ \A j \in 1 .. i : q[j] = t[j]
  BY <1>2
<1>4. \A j \in 1 .. i : q[j] = p[j]
  <2> SUFFICES ASSUME NEW j \in 1 .. i PROVE q[j] = p[j]
    OBVIOUS
  <2>1. j \in 1 .. Len(s)
    BY <1>1
  <2>2. t[j] = s[j]
    BY <2>1 DEF Begins
  <2> QED BY <1>1, <1>3, <2>2
<1> HIDE DEF p, q
<1>5. q = p
  BY <1>1, <1>3, <1>4, SeqEqual
<1> QED BY <1>1, <1>5 DEF p, q

\* What a table counted in one pass holds.
FollowingTable(t, P, h) ==
  [c \in {ContextAt(t, i) : i \in P} |->
     [x \in {t[i + h] : i \in {j \in P : ContextAt(t, j) = c}} |->
        Cardinality({i \in {j \in P : ContextAt(t, j) = c} : t[i + h] = x})]]

\* Following() spelt out.
LEMMA FollowingTableIs ==
  ASSUME NEW t, NEW P, NEW h PROVE Following(t, P, h) = FollowingTable(t, P, h)
BY DEF Following, Tabulated, FollowingTable, ContextAt

\* The positions that a pass counts for a context.
Here(t, P, c) == {j \in P : ContextAt(t, j) = c}

\* Positions that a pass counts which has a target for each and leaves no full
\* context out.
Pass(P, s, h) == P \subseteq 1 .. Len(s) - h /\ Depth .. Len(s) - h \subseteq P

\* For a context of full depth they are its ways.
PassWays(t, P, s, c, h) == Here(t, P, c) = Ways(s, c, h)

\* The counted positions have the context, and the others do not.
LEMMA FollowingWays ==
  ASSUME NEW s \in Seq(Line), NEW t, Begins(t, s), NEW h \in Nat \ {0}, NEW P,
         Pass(P, s, h), NEW c \in Contexts({Depth})
  PROVE  PassWays(t, P, s, c, h)
<1>1. /\ c \in Seq(Line) /\ Len(c) = Depth /\ Depth \in Nat \ {0}
      /\ Len(s) \in Nat /\ h \in Nat /\ h >= 1
  BY PredictorsAssumption DEF Contexts
<1>2. ASSUME NEW j \in P PROVE ContextAt(t, j) = c <=> Ends(s, j, c)
  <2>1. j \in 1 .. Len(s) - h
    BY <1>2 DEF Pass
  <2>2. j \in 1 .. Len(s)
    BY <1>1, <2>1
  <2>3. Recent(SubSeq(s, 1, j), Depth) = c <=> Ends(s, j, c)
    BY <2>2, FullEnds
  <2>4. SubSeq(t, 1, j) = SubSeq(s, 1, j)
    BY <2>2, BeginsContext
  <2> QED BY <2>3, <2>4 DEF ContextAt
<1>3. \A j : j \in Ways(s, c, h) <=> j \in Depth .. Len(s) - h /\ Ends(s, j, c)
  <2>1. Ways(s, c, h) = {i \in Depth .. Len(s) - h : SubSeq(s, i - Depth + 1, i) = c}
    BY <1>1 DEF Ways
  <2>2. \A j \in Depth .. Len(s) - h : Ends(s, j, c) <=> SubSeq(s, j - Depth + 1, j) = c
    BY <1>1 DEF Ends
  <2> QED BY <2>1, <2>2
<1>4. \A j \in P : Ends(s, j, c) => j \in Depth .. Len(s) - h
  BY <1>1 DEF Ends, Pass
<1> QED BY <1>2, <1>3, <1>4 DEF Here, Pass, PassWays

\* A table that knows the contexts that have occurred and has the bag of what came
\* behind them.
Follows(table, s, c, h) ==
  /\ c \in DOMAIN table <=> Ways(s, c, h) # {}
  /\ At(table, c) = BagOf(s, c, h)

\* A table counted in one pass does, at a context of full depth.
LEMMA FollowingIs ==
  ASSUME NEW s \in Seq(Line), NEW t, Begins(t, s), NEW h \in Nat \ {0}, NEW P,
         Pass(P, s, h), NEW c \in Contexts({Depth})
  PROVE  Follows(Following(t, P, h), s, c, h)
<1> DEFINE table == FollowingTable(t, P, h)
           here == Here(t, P, c)
<1>1. Following(t, P, h) = table
  BY FollowingTableIs
<1>2. here = Ways(s, c, h)
  BY FollowingWays DEF PassWays
<1>3. DOMAIN table = {ContextAt(t, i) : i \in P}
  BY DEF FollowingTable
<1>4. c \in DOMAIN table <=> here # {}
  BY <1>3 DEF Here
<1>5. ASSUME here # {} PROVE table[c] = BagOf(s, c, h)
  <2>1. table[c] = [x \in {t[i + h] : i \in here} |-> Cardinality({i \in here : t[i + h] = x})]
    BY <1>3, <1>4, <1>5 DEF FollowingTable, Here
  <2>2. ASSUME NEW i \in here PROVE t[i + h] = s[i + h]
    <3>1. i \in 1 .. Len(s) - h /\ Len(s) \in Nat
      BY <2>2 DEF Here, Pass
    <3>2. i + h \in 1 .. Len(s)
      BY <3>1
    <3> QED BY <3>2 DEF Begins
  <2> HIDE DEF here
  <2>3. {t[i + h] : i \in here} = {s[i + h] : i \in here}
    BY <2>2
  <2>4. \A x : {i \in here : t[i + h] = x} = {i \in here : s[i + h] = x}
    BY <2>2
  <2>5. table[c] = [x \in {s[i + h] : i \in here} |-> Cardinality({i \in here : s[i + h] = x})]
    BY <2>1, <2>3, <2>4
  <2> QED BY <1>2, <2>5 DEF BagOf
<1>6. ASSUME here = {} PROVE BagOf(s, c, h) = EmptyBag
  BY <1>2, <1>6, BagEmpty
<1> HIDE DEF table, here
<1>7. At(table, c) = BagOf(s, c, h)
  BY <1>4, <1>5, <1>6 DEF At
<1> QED BY <1>1, <1>2, <1>4, <1>7 DEF Follows

\* There is a least number in a nonempty set.
LEMMA LeastIs ==
  ASSUME NEW S \in SUBSET Nat, S # {}
  PROVE  \E n \in S : \A m \in S : n <= m
<1>1. IsWellFoundedOn(OpToRel(<, Nat), Nat)
  BY NatLessThanWellFounded, Zenon
<1>2. PICK n \in S : \A m \in S : <<m, n>> \notin OpToRel(<, Nat)
  BY <1>1, WFMin, Zenon
<1>3. \A m \in S : ~ (m < n)
  BY <1>2 DEF OpToRel
<1> QED BY <1>3

\* Of a nonempty bag there is a best line.
LEMMA TopAnswers ==
  ASSUME NEW seen, WellCounted(seen), NEW n \in Nat, \A x \in DOMAIN seen : seen[x] <= n
  PROVE  Top(seen, 1) # {} <=> seen # EmptyBag
<1>1. seen \in [DOMAIN seen -> Nat \ {0}] /\ DOMAIN seen \subseteq Nat
  BY LearningAssumption DEF WellCounted
<1>2. seen = EmptyBag <=> DOMAIN seen = {}
  <2>1. EmptyBag = [e \in {} |-> 1]
    BY DEF EmptyBag, SetToBag
  <2>2. DOMAIN seen = {} => seen = [e \in {} |-> 1]
    BY <1>1
  <2> QED BY <2>1, <2>2
<1>3. ASSUME DOMAIN seen # {} PROVE Top(seen, 1) # {}
  <2> DEFINE S == {seen[x] : x \in DOMAIN seen}
             m == Max(S)
             E == {x \in DOMAIN seen : seen[x] = m}
  <2>1. S \in SUBSET (0 .. n) /\ S # {}
    BY <1>1, <1>3
  <2> HIDE DEF S
  <2>2. m \in S /\ \A v \in S : v <= m
    BY <2>1, MaxIs
  <2> HIDE DEF m
  <2>3. E # {} /\ E \in SUBSET Nat
    BY <1>1, <2>2 DEF S
  <2>4. PICK l \in E : \A x \in E : l <= x
    BY <2>3, LeastIs
  <2>5. l \in DOMAIN seen /\ seen[l] = m /\ l \in Nat /\ m \in Nat
    BY <1>1, <2>4
  <2>6. ASSUME NEW y \in DOMAIN seen PROVE ~ Better(seen, y, l)
    <3>1. seen[y] <= m /\ seen[y] \in Nat /\ y \in Nat
      BY <1>1, <2>2 DEF S
    <3>2. seen[y] = m => l <= y
      BY <2>4
    <3> QED BY <2>5, <3>1, <3>2 DEF Better
  <2>7. {y \in DOMAIN seen : Better(seen, y, l)} = {}
    BY <2>6
  <2>8. Cardinality({y \in DOMAIN seen : Better(seen, y, l)}) = 0
    BY <2>7, FS_EmptySet
  <2>9. l \in Top(seen, 1)
    BY <2>5, <2>8 DEF Top
  <2> QED BY <2>9
<1>4. ASSUME DOMAIN seen = {} PROVE Top(seen, 1) = {}
  BY <1>4 DEF Top
<1> QED BY <1>2, <1>3, <1>4

\* The bag of what came behind a context is such a bag.
LEMMA BagAnswers ==
  ASSUME NEW s \in Seq(Line), NEW h \in Nat \ {0}, NEW c \in Seq(Line)
  PROVE  Top(BagOf(s, c, h), 1) # {} <=> Ways(s, c, h) # {}
<1> DEFINE here == Ways(s, c, h)
           D == {s[i + h] : i \in here}
           At_(x) == {i \in here : s[i + h] = x}
           bag == BagOf(s, c, h)
<1>1. bag = [x \in D |-> Cardinality(At_(x))]
  BY DEF BagOf
<1>2. IsFiniteSet(here) /\ Cardinality(here) \in Nat
  BY WaysFinite
<1>3. \A x : IsFiniteSet(At_(x)) /\ Cardinality(At_(x)) <= Cardinality(here)
  BY <1>2, FS_Subset
<1>4. D \subseteq Line
  <2>1. \A i \in Len(c) .. Len(s) - h : i + h \in 1 .. Len(s)
    OBVIOUS
  <2>2. \A i \in here : s[i + h] \in Line
    BY <2>1 DEF Ways
  <2> QED BY <2>2
<1>5. \A x \in D : At_(x) # {}
  OBVIOUS
<1> HIDE DEF here, D, At_, bag
<1>6. \A x \in D : Cardinality(At_(x)) \in Nat \ {0}
  BY <1>3, <1>5, FS_EmptySet, FS_CardinalityType
<1>7. DOMAIN bag = D /\ bag \in [D -> Nat \ {0}]
  BY <1>1, <1>6
<1>8. WellCounted(bag) /\ \A x \in DOMAIN bag : bag[x] <= Cardinality(here)
  BY <1>1, <1>3, <1>4, <1>7 DEF WellCounted
<1>9. Top(bag, 1) # {} <=> bag # EmptyBag
  BY <1>2, <1>8, TopAnswers
<1> QED BY <1>9, BagEmpty DEF bag, here

\* The recent lines of a long sequence are a context of full depth.
LEMMA FullRecent ==
  ASSUME NEW p \in Seq(Line), Len(p) >= Depth
  PROVE  Recent(p, Depth) \in Contexts({Depth}) /\ Len(Recent(p, Depth)) = Depth
<1>1. Depth \in Nat \ {0} /\ Len(p) \in Nat
  BY PredictorsAssumption
<1>2. Recent(p, Depth) \in Seq(Line) /\ Len(Recent(p, Depth)) = IF Len(p) <= Depth THEN Len(p) ELSE Depth
  BY <1>1, RecentIs
<1>3. Len(Recent(p, Depth)) = Depth
  BY <1>1, <1>2
<1> QED BY <1>2, <1>3 DEF Contexts

\* A context of full depth is a context.
LEMMA FullIs ==
  /\ Contexts({Depth}) \subseteq Contexts(1 .. Depth)
  /\ \A c \in Contexts({Depth}) : c \in Seq(Line) /\ Len(c) = Depth
<1>1. Depth \in 1 .. Depth
  BY PredictorsAssumption
<1> QED BY <1>1 DEF Contexts

\* What a table says of a context of full depth, when it says how often each line
\* came and how many came.
LEMMA TableBag ==
  ASSUME NEW s \in Seq(Line), NEW h \in Nat \ {0}, NEW lengths, NEW table,
         Tells(table, lengths, h, s), Totals(table, lengths, h, s), NEW c \in Contexts(lengths)
  PROVE  /\ At(table, c) = BagOf(s, c, h)
         /\ Total(BagOf(s, c, h)) = Cardinality(Ways(s, c, h))
         /\ WellCounted(BagOf(s, c, h))
<1>1. c \in Seq(Line)
  BY DEF Contexts
<1>2. WellCounted(At(table, c)) /\ Total(At(table, c)) = Cardinality(Ways(s, c, h))
  BY DEF Totals, Holds
<1>3. \A x \in Line : Times(At(table, c), x) = Counts(s, c, x, h)
  BY DEF Tells
<1>4. At(table, c) = BagOf(s, c, h)
  BY <1>1, <1>2, <1>3, BagIs
<1> QED BY <1>2, <1>4

\* The tables of the exact predictors hold the bags of the training part.
LEMMA ModelBags ==
  ASSUME BagsTold, NEW c \in Contexts({Depth})
  PROVE  /\ At(model.trie, c) = BagOf(train, c, 1)
         /\ At(model.markov, c) = BagOf(train, c, 1)
         /\ At(model.flat, c) = BagOf(train, c, Horizon)
         /\ Total(BagOf(train, c, 1)) = Cardinality(Ways(train, c, 1))
         /\ Total(BagOf(train, c, Horizon)) = Cardinality(Ways(train, c, Horizon))
         /\ WellCounted(BagOf(train, c, 1))
<1>1. c \in Contexts(1 .. Depth)
  BY FullIs
<1>2. train \in Seq(Line) /\ 1 \in Nat \ {0} /\ Horizon \in Nat \ {0}
  BY PredictorsAssumption DEF BagsTold, TablesTold
<1>3. /\ Tells(model.trie, 1 .. Depth, 1, train) /\ Totals(model.trie, 1 .. Depth, 1, train)
      /\ Tells(model.markov, 1 .. Depth, 1, train) /\ Totals(model.markov, 1 .. Depth, 1, train)
      /\ Tells(model.flat, {Depth}, Horizon, train) /\ Totals(model.flat, {Depth}, Horizon, train)
  BY DEF BagsTold, TablesTold, Told
<1>4. At(model.trie, c) = BagOf(train, c, 1)
  BY <1>1, <1>2, <1>3, TableBag
<1>5. /\ At(model.markov, c) = BagOf(train, c, 1)
      /\ Total(BagOf(train, c, 1)) = Cardinality(Ways(train, c, 1))
      /\ WellCounted(BagOf(train, c, 1))
  BY <1>1, <1>2, <1>3, TableBag
<1>6. /\ At(model.flat, c) = BagOf(train, c, Horizon)
      /\ Total(BagOf(train, c, Horizon)) = Cardinality(Ways(train, c, Horizon))
  BY <1>2, <1>3, TableBag
<1> QED BY <1>4, <1>5, <1>6

\* The places of a context have been counted if there are any.
LEMMA WaysSome ==
  ASSUME NEW s \in Seq(Line), NEW h \in Nat \ {0}, NEW c \in Seq(Line)
  PROVE  Cardinality(Ways(s, c, h)) \in Nat /\ (Cardinality(Ways(s, c, h)) >= 1 <=> Ways(s, c, h) # {})
<1>1. IsFiniteSet(Ways(s, c, h)) /\ Cardinality(Ways(s, c, h)) \in Nat
  BY WaysFinite
<1>2. Cardinality(Ways(s, c, h)) = 0 <=> Ways(s, c, h) = {}
  BY <1>1, FS_EmptySet
<1> QED BY <1>1, <1>2

\* The trie matches in full depth where the context has been seen.
LEMMA ExactMatch ==
  ASSUME BagsTold, NEW known \in Seq(Line), Len(known) >= Depth
  PROVE  MatchedDepth(model.trie, known, Depth, 1, FALSE) = Depth
           <=> Ways(train, Recent(known, Depth), 1) # {}
<1> DEFINE c == Recent(known, Depth)
           n == MatchedDepth(model.trie, known, Depth, 1, FALSE)
           matches == {m \in (1 .. Depth) \ {0} :
                         /\ At(model.trie, Recent(known, m)) # EmptyBag
                         /\ Total(At(model.trie, Recent(known, m))) >= 1}
<1>1. c \in Contexts({Depth}) /\ Len(c) = Depth /\ c \in Seq(Line)
  BY FullRecent, FullIs
<1>2. n = IF matches = {} THEN 0 ELSE Max(matches)
  BY <1>1 DEF MatchedDepth
<1>3. Depth \in Nat \ {0} /\ train \in Seq(Line) /\ 1 \in Nat \ {0}
  BY PredictorsAssumption DEF BagsTold, TablesTold
<1>4. /\ At(model.trie, c) = BagOf(train, c, 1)
      /\ Total(BagOf(train, c, 1)) = Cardinality(Ways(train, c, 1))
  BY <1>1, ModelBags
<1>5. /\ BagOf(train, c, 1) = EmptyBag <=> Ways(train, c, 1) = {}
      /\ Cardinality(Ways(train, c, 1)) >= 1 <=> Ways(train, c, 1) # {}
  BY <1>1, <1>3, BagEmpty, WaysSome
<1>6. Depth \in matches <=> Ways(train, c, 1) # {}
  BY <1>3, <1>4, <1>5
<1>7. matches \in SUBSET (0 .. Depth)
  BY <1>3
<1> HIDE DEF matches, c, n
<1>8. ASSUME matches # {}
      PROVE  n \in matches /\ n \in 0 .. Depth /\ \A m \in matches : m <= n
  <2>1. n = Max(matches)
    BY <1>2, <1>8
  <2> QED BY <1>3, <1>7, <1>8, <2>1, MaxIs
<1>9. ASSUME Depth \in matches PROVE n = Depth
  <2>1. n \in 0 .. Depth /\ Depth <= n
    BY <1>8, <1>9
  <2> QED BY <1>3, <2>1
<1>10. ASSUME n = Depth PROVE Depth \in matches
  <2>1. matches # {}
    BY <1>2, <1>3, <1>10
  <2> QED BY <1>8, <1>10, <2>1
<1> QED BY <1>6, <1>9, <1>10 DEF c, n

\* Where it does, it answers as a table of full contexts would.
LEMMA ExactForecast ==
  ASSUME BagsTold, NEW known \in Seq(Line), Len(known) >= Depth,
         Ways(train, Recent(known, Depth), 1) # {}
  PROVE  NearForecast("WAM", known) = Top(BagOf(train, Recent(known, Depth), 1), 1)
<1> DEFINE c == Recent(known, Depth)
           seen == At(model.trie, c)
           confident == {x \in DOMAIN seen : seen[x] * 1 >= 0 * (Total(seen) + 0)}
<1>1. c \in Contexts({Depth}) /\ c \in Seq(Line)
  BY FullRecent, FullIs
<1>2. MatchedDepth(model.trie, known, Depth, 1, FALSE) = Depth
  BY ExactMatch
<1>3. Depth # 0 /\ train \in Seq(Line) /\ 1 \in Nat \ {0}
  BY PredictorsAssumption DEF BagsTold, TablesTold
<1>4. /\ seen = BagOf(train, c, 1) /\ WellCounted(seen)
      /\ Total(seen) = Cardinality(Ways(train, c, 1))
  BY <1>1, ModelBags
<1>5. Total(seen) \in Nat
  BY <1>1, <1>3, <1>4, WaysSome
<1>6. /\ Plain.least = 1 /\ Plain.exact = FALSE /\ Plain.num = 0 /\ Plain.den = 1
      /\ Plain.support = 0 /\ Plain.gated = FALSE
  BY DEF Plain
<1>7. WAMForecast(model.trie, known, Plain, 1) = Top(Restrict(seen, confident), 1)
  BY <1>2, <1>3, <1>6 DEF WAMForecast
<1>8. seen \in [DOMAIN seen -> Nat \ {0}]
  BY <1>4 DEF WellCounted
<1>9. \A x \in DOMAIN seen : seen[x] * 1 >= 0 * (Total(seen) + 0)
  BY <1>5, <1>8
<1>10. confident = DOMAIN seen
  BY <1>9
<1> HIDE DEF confident, seen, c
<1>11. Restrict(seen, confident) = seen
  BY <1>8, <1>10 DEF Restrict
<1>12. NearForecast("WAM", known) = WAMForecast(model.trie, known, Plain, 1)
  BY DEF NearForecast
<1> QED BY <1>4, <1>7, <1>11, <1>12 DEF c

\* The exact predictors and the oracles answer alike, from the bag of the context.
LEMMA NearAgree ==
  ASSUME BagsTold, NEW known \in Seq(Line), Len(known) >= Depth
  PROVE  /\ NearForecast("Markov", known) = Top(BagOf(train, Recent(known, Depth), 1), 1)
         /\ NearForecast("ContextOracle", known) = Top(BagOf(train, Recent(known, Depth), 1), 1)
         /\ NearForecast("FlatMetrics", known) = Top(BagOf(train, Recent(known, Depth), 1), 1)
<1> DEFINE c == Recent(known, Depth)
           P == 1 .. Len(train) - 1
           Q == Depth .. Len(train) - 1
<1>1. c \in Contexts({Depth})
  BY FullRecent
<1>2. train \in Seq(Line) /\ 1 \in Nat \ {0} /\ Depth \in Nat \ {0} /\ Len(train) \in Nat
  BY PredictorsAssumption DEF BagsTold, TablesTold
<1>3. Begins(train, train)
  BY <1>2 DEF Begins
<1>4. Pass(P, train, 1) /\ Pass(Q, train, 1)
  BY <1>2 DEF Pass
<1>5. At(model.markov, c) = BagOf(train, c, 1)
  BY <1>1, ModelBags
<1> HIDE DEF c, P, Q
<1>6. At(Following(train, P, 1), c) = BagOf(train, c, 1)
  <2>1. Follows(Following(train, P, 1), train, c, 1)
    BY <1>1, <1>2, <1>3, <1>4, FollowingIs
  <2> QED BY <2>1 DEF Follows
<1>7. At(Following(train, Q, 1), c) = BagOf(train, c, 1)
  <2>1. Follows(Following(train, Q, 1), train, c, 1)
    BY <1>1, <1>2, <1>3, <1>4, FollowingIs
  <2> QED BY <2>1 DEF Follows
<1>8. NearForecast("Markov", known) = Top(At(model.markov, c), 1)
  BY DEF NearForecast, MarkovForecast, c
<1>9. NearForecast("ContextOracle", known) = Top(At(Following(train, P, 1), c), 1)
  BY DEF NearForecast, ContextOracleTable, c, P, Q
<1>10. NearForecast("FlatMetrics", known) = Top(At(Following(train, Q, 1), c), 1)
  BY DEF NearForecast, FlatMetricsTable, c, P, Q
<1> QED BY <1>5, <1>6, <1>7, <1>8, <1>9, <1>10 DEF c

\* So do those at the horizon.
LEMMA FarAgree ==
  ASSUME BagsTold, NEW before, NEW context \in Seq(Line), Len(context) >= Depth
  PROVE  /\ FarForecast("DirectMarkov", before, context)
              = Top(BagOf(train, Recent(context, Depth), Horizon), 1)
         /\ FarForecast("LongAccuracy", before, context)
              = Top(BagOf(train, Recent(context, Depth), Horizon), 1)
<1> DEFINE c == Recent(context, Depth)
           P == 1 .. Len(train) - Horizon
<1>1. c \in Contexts({Depth})
  BY FullRecent
<1>2. /\ train \in Seq(Line) /\ Horizon \in Nat \ {0} /\ Depth \in Nat \ {0} /\ Len(train) \in Nat
  BY PredictorsAssumption DEF BagsTold, TablesTold
<1>3. Begins(train, train)
  BY <1>2 DEF Begins
<1>4. Pass(P, train, Horizon)
  BY <1>2 DEF Pass
<1>5. At(model.flat, c) = BagOf(train, c, Horizon)
  BY <1>1, ModelBags
<1> HIDE DEF c, P
<1>6. At(Following(train, P, Horizon), c) = BagOf(train, c, Horizon)
  <2>1. Follows(Following(train, P, Horizon), train, c, Horizon)
    BY <1>1, <1>2, <1>3, <1>4, FollowingIs
  <2> QED BY <2>1 DEF Follows
<1>7. FarForecast("DirectMarkov", before, context) = Top(At(model.flat, c), 1)
  BY DEF FarForecast, FlatForecast, c
<1>8. FarForecast("LongAccuracy", before, context) = Top(At(Following(train, P, Horizon), c), 1)
  BY DEF FarForecast, HorizonOracleTable, c, P
<1> QED BY <1>5, <1>6, <1>7, <1>8 DEF c

\* What the scores of the predictors say of those of the oracles.
Agreed ==
  /\ score["Markov"] = score["ContextOracle"]
  /\ score["FlatMetrics"] = score["ContextOracle"]
  /\ score["DirectMarkov"] = score["LongAccuracy"]
  /\ score["WAM"].right >= score["ContextOracle"].right
  /\ score["WAM"].asked >= score["ContextOracle"].asked
  /\ reuse.exact = score["ContextOracle"].asked

\* The inductive invariant of the oracles: training that fills no context and is
\* not over has been compared with nothing yet.
OracleInv ==
  /\ BagsTold
  /\ ScoreInv
  /\ (frozen => Len(train) >= Depth) => Agreed

\* Nothing has been asked yet.
LEMMA OracleInit == Init => OracleInv
<1> SUFFICES ASSUME Init PROVE OracleInv
  OBVIOUS
<1>1. BagsTold /\ ScoreInv
  BY BagsInit, ScoreInit
<1>2. /\ score = [p \in Near \cup Far |-> [asked |-> 0, right |-> 0]]
      /\ reuse.exact = 0
  BY DEF Init
<1>3. {"WAM", "Markov", "ContextOracle", "FlatMetrics", "DirectMarkov", "LongAccuracy"} \subseteq Near \cup Far
  BY DEF Near, Far
<1>4. Agreed
  BY <1>2, <1>3 DEF Agreed
<1> QED BY <1>1, <1>4 DEF OracleInv

\* The lines known at some point of the evaluation fill a context if the training
\* part does.
LEMMA KnownLong ==
  ASSUME NEW s \in Seq(Line), Len(s) >= Depth, NEW e \in Seq(Line)
  PROVE  /\ s \o e \in Seq(Line) /\ Len(s \o e) >= Depth
         /\ \A at \in 1 .. Len(e) : s \o SubSeq(e, 1, at) \in Seq(Line) /\ Len(s \o SubSeq(e, 1, at)) >= Depth
<1>1. Depth \in Nat /\ Len(s) \in Nat
  BY PredictorsAssumption
<1>2. \A f \in Seq(Line) : s \o f \in Seq(Line) /\ Len(s \o f) = Len(s) + Len(f) /\ Len(f) \in Nat
  OBVIOUS
<1>3. \A f \in Seq(Line) : s \o f \in Seq(Line) /\ Len(s \o f) >= Depth
  <2> SUFFICES ASSUME NEW f \in Seq(Line) PROVE s \o f \in Seq(Line) /\ Len(s \o f) >= Depth
    OBVIOUS
  <2> DEFINE k == Len(s \o f)
             l == Len(f)
  <2>1. s \o f \in Seq(Line) /\ k = Len(s) + l /\ l \in Nat
    BY <1>2
  <2> HIDE DEF k, l
  <2>2. k >= Depth
    BY <1>1, <2>1
  <2> QED BY <2>1, <2>2 DEF k
<1>4. \A at \in 1 .. Len(e) : SubSeq(e, 1, at) \in Seq(Line)
  OBVIOUS
<1> QED BY <1>3, <1>4

\* A tally of the same forecast, and of one that is the same or nothing.
LEMMA ScoredAlike ==
  ASSUME NEW old \in Tally, NEW other \in Tally, NEW f, NEW g, NEW line,
         old.right >= other.right, old.asked >= other.asked, g = {} \/ f = g
  PROVE  /\ Scored(old, f, line).right >= Scored(other, g, line).right
         /\ Scored(old, f, line).asked >= Scored(other, g, line).asked
<1> DEFINE a == IF f # {} THEN 1 ELSE 0
           r == IF line \in f THEN 1 ELSE 0
           b == IF g # {} THEN 1 ELSE 0
           q == IF line \in g THEN 1 ELSE 0
<1>1. a \in 0 .. 1 /\ r \in 0 .. 1 /\ b \in 0 .. 1 /\ q \in 0 .. 1 /\ b <= a /\ q <= r
  OBVIOUS
<1>2. /\ Scored(old, f, line).asked = old.asked + a /\ Scored(old, f, line).right = old.right + r
      /\ Scored(other, g, line).asked = other.asked + b /\ Scored(other, g, line).right = other.right + q
  BY DEF Scored
<1> HIDE DEF a, r, b, q
<1>3. old.asked \in Nat /\ old.right \in Nat /\ other.asked \in Nat /\ other.right \in Nat
  BY DEF Tally
<1> QED BY <1>1, <1>2, <1>3

\* A scored line keeps the predictors and the oracles in agreement.
LEMMA OracleDemand ==
  ASSUME BagsTold, ScoreInv, Agreed, Len(train) >= Depth, NEW line \in Line, Demand(line)
  PROVE  Agreed'
<1> DEFINE n == Len(evaluation)
           known == train \o evaluation
           at == n + 1 - Horizon
           context == train \o SubSeq(evaluation, 1, at)
           before == train \o SubSeq(evaluation, 1, at - 1)
           bag == Top(BagOf(train, Recent(known, Depth), 1), 1)
           matched == MatchedDepth(model.trie, known, Depth, 1, FALSE)
<1>1. /\ train \in Seq(Line) /\ evaluation \in Seq(Line)
      /\ n \in Nat /\ Horizon \in Nat \ {0} /\ Depth \in Nat \ {0} /\ 1 \in Nat \ {0}
      /\ score \in [Near \cup Far -> Tally] /\ reuse.exact \in Nat
  BY PredictorsAssumption DEF ScoreInv, ScoreTypeOK
<1>2. /\ score' = [p \in Near \cup Far |->
                     IF p \in Near THEN Scored(score[p], NearForecast(p, known), line)
                     ELSE IF at < 1 THEN score[p]
                     ELSE Scored(score[p], FarForecast(p, before, context), line)]
      /\ reuse'.exact = reuse.exact + (IF matched = Len(Recent(known, Depth)) THEN 1 ELSE 0)
  BY DEF Demand
<1>3. /\ known \in Seq(Line) /\ Len(known) >= Depth
      /\ at >= 1 => context \in Seq(Line) /\ Len(context) >= Depth
  <2>1. at >= 1 => at \in 1 .. Len(evaluation)
    BY <1>1
  <2> HIDE DEF at
  <2> QED BY <1>1, <2>1, KnownLong
<1>4. at \in Int
  BY <1>1
<1> HIDE DEF n, known, at, context, before, bag, matched
<1>5. /\ NearForecast("Markov", known) = bag /\ NearForecast("ContextOracle", known) = bag
      /\ NearForecast("FlatMetrics", known) = bag
  BY <1>3, NearAgree DEF bag
<1>6. /\ {"WAM", "Markov", "ContextOracle", "FlatMetrics"} \subseteq Near
      /\ {"DirectMarkov", "LongAccuracy"} \subseteq Far /\ {"DirectMarkov", "LongAccuracy"} \cap Near = {}
  BY DEF Near, Far
<1>7. /\ score'["Markov"] = Scored(score["Markov"], bag, line)
      /\ score'["ContextOracle"] = Scored(score["ContextOracle"], bag, line)
      /\ score'["FlatMetrics"] = Scored(score["FlatMetrics"], bag, line)
      /\ score'["WAM"] = Scored(score["WAM"], NearForecast("WAM", known), line)
  BY <1>2, <1>5, <1>6
<1>8. score'["Markov"] = score'["ContextOracle"] /\ score'["FlatMetrics"] = score'["ContextOracle"]
  BY <1>7 DEF Agreed
<1>9. score'["DirectMarkov"] = score'["LongAccuracy"]
  <2>1. \A p \in {"DirectMarkov", "LongAccuracy"} :
          score'[p] = IF at < 1 THEN score[p] ELSE Scored(score[p], FarForecast(p, before, context), line)
    BY <1>2, <1>6
  <2>2. at >= 1 => FarForecast("DirectMarkov", before, context) = FarForecast("LongAccuracy", before, context)
    BY <1>3, FarAgree
  <2>3. at < 1 \/ at >= 1
    BY <1>4
  <2> QED BY <2>1, <2>2, <2>3 DEF Agreed
<1>10. /\ Len(Recent(known, Depth)) = Depth /\ Recent(known, Depth) \in Seq(Line)
       /\ Recent(known, Depth) \in Contexts({Depth})
  BY <1>3, FullRecent, FullIs
<1>11. bag # {} <=> matched = Len(Recent(known, Depth))
  <2>1. bag # {} <=> Ways(train, Recent(known, Depth), 1) # {}
    BY <1>1, <1>10, BagAnswers DEF bag
  <2>2. matched = Depth <=> Ways(train, Recent(known, Depth), 1) # {}
    BY <1>3, ExactMatch DEF matched
  <2> QED BY <1>10, <2>1, <2>2
<1>12. reuse'.exact = score'["ContextOracle"].asked
  <2>1. score'["ContextOracle"].asked = score["ContextOracle"].asked + (IF bag # {} THEN 1 ELSE 0)
    BY <1>7 DEF Scored
  <2> QED BY <1>2, <1>11, <2>1 DEF Agreed
<1>13. bag = {} \/ NearForecast("WAM", known) = bag
  <2>1. ASSUME bag # {} PROVE NearForecast("WAM", known) = bag
    <3>1. Ways(train, Recent(known, Depth), 1) # {}
      BY <1>1, <1>10, <2>1, BagAnswers DEF bag
    <3> QED BY <1>3, <3>1, ExactForecast DEF bag
  <2> QED BY <2>1
<1>14. score["WAM"] \in Tally /\ score["ContextOracle"] \in Tally
  BY <1>1, <1>6
<1>15. /\ score'["WAM"].right >= score'["ContextOracle"].right
       /\ score'["WAM"].asked >= score'["ContextOracle"].asked
  BY <1>7, <1>13, <1>14, ScoredAlike DEF Agreed
<1> QED BY <1>8, <1>9, <1>12, <1>15 DEF Agreed

\* So does every step.
LEMMA OracleStep == OracleInv /\ [Next]_vars => OracleInv'
<1> SUFFICES ASSUME OracleInv, [Next]_vars PROVE OracleInv'
  OBVIOUS
<1>1. BagsTold' /\ ScoreInv' /\ BagsTold /\ ScoreInv
  BY BagsStep, ScoreStep DEF OracleInv
<1>2. ASSUME NEW line \in Line, Observe(line) PROVE OracleInv'
  <2>1. ~ frozen /\ UNCHANGED <<score, reuse>>
    BY <1>2 DEF Observe
  <2>2. Agreed
    BY <2>1 DEF OracleInv
  <2> QED BY <1>1, <2>1, <2>2 DEF OracleInv, Agreed
<1>3. ASSUME Freeze PROVE OracleInv'
  <2>1. ~ frozen /\ UNCHANGED <<score, reuse>>
    BY <1>3 DEF Freeze
  <2>2. Agreed
    BY <2>1 DEF OracleInv
  <2> QED BY <1>1, <2>1, <2>2 DEF OracleInv, Agreed
<1>4. ASSUME NEW line \in Line, Demand(line) PROVE OracleInv'
  <2>1. frozen /\ UNCHANGED <<train, frozen>>
    BY <1>4 DEF Demand
  <2>2. ASSUME Len(train) >= Depth PROVE Agreed'
    <3>1. Agreed
      BY <2>2 DEF OracleInv
    <3> QED BY <1>1, <1>4, <2>2, <3>1, OracleDemand
  <2> QED BY <1>1, <2>1, <2>2 DEF OracleInv
<1>5. ASSUME UNCHANGED vars PROVE OracleInv'
  <2>1. UNCHANGED <<train, frozen, score, reuse>>
    BY <1>5 DEF vars
  <2> QED BY <1>1, <2>1 DEF OracleInv, Agreed
<1> QED BY <1>2, <1>3, <1>4, <1>5 DEF Next

\* The contexts of full depth that have been seen so often.
Often(s, k) == {c \in Contexts({Depth}) : Cardinality(Ways(s, c, 1)) >= k}

\* context_statistics() counts them.
LEMMA TrieStatistics ==
  ASSUME BagsTold, NEW k \in Nat \ {0}
  PROVE  SeenAtLeast(model.trie, Depth, k) = Cardinality(Often(train, k))
<1> DEFINE trie == model.trie
           S == {n \in ContextsOfDepth(trie, Depth) : Total(trie[n]) >= k}
<1>1. /\ DOMAIN trie \subseteq Contexts(1 .. Depth) /\ train \in Seq(Line)
      /\ Depth \in Nat \ {0} /\ 1 \in Nat \ {0}
  BY PredictorsAssumption DEF BagsTold, TablesTold, Told
<1>2. ASSUME NEW c \in Contexts({Depth})
      PROVE  c \in S <=> Cardinality(Ways(train, c, 1)) >= k
  <2> DEFINE seen == At(trie, c)
             n == Cardinality(Ways(train, c, 1))
  <2>1. c \in Seq(Line) /\ Len(c) = Depth
    BY FullIs
  <2>2. seen = BagOf(train, c, 1) /\ Total(seen) = n
    BY ModelBags
  <2>3. n \in Nat /\ (n >= 1 <=> Ways(train, c, 1) # {})
    BY <1>1, <2>1, WaysSome
  <2>4. seen = EmptyBag <=> Ways(train, c, 1) = {}
    BY <2>2, BagEmpty
  <2>5. c \notin DOMAIN trie => seen = EmptyBag
    BY DEF At
  <2>6. c \in DOMAIN trie => seen = trie[c]
    BY DEF At
  <2>7. c \in S <=> c \in DOMAIN trie /\ trie[c] # EmptyBag /\ Total(trie[c]) >= k
    BY <2>1 DEF ContextsOfDepth
  <2>8. n >= k => n >= 1
    BY <2>3
  <2> HIDE DEF S, seen, n
  <2>9. c \in S => n >= k
    BY <2>2, <2>6, <2>7
  <2>10. ASSUME n >= k PROVE c \in S
    <3>1. seen # EmptyBag
      BY <2>3, <2>4, <2>8, <2>10
    <3> QED BY <2>2, <2>5, <2>6, <2>7, <2>10, <3>1
  <2> QED BY <2>9, <2>10 DEF n
<1>3. S \subseteq Contexts({Depth})
  BY <1>1 DEF ContextsOfDepth, Contexts
<1>4. SeenAtLeast(trie, Depth, k) = Cardinality(S)
  BY DEF SeenAtLeast
<1> HIDE DEF S
<1>5. S = Often(train, k)
  BY <1>2, <1>3 DEF Often
<1> QED BY <1>4, <1>5

\* A context at a position, and how long it is.
LEMMA ContextAtIs ==
  ASSUME NEW s \in Seq(Line), NEW i \in 1 .. Len(s)
  PROVE  ContextAt(s, i) \in Seq(Line) /\ Len(ContextAt(s, i)) = IF i <= Depth THEN i ELSE Depth
<1> DEFINE p == SubSeq(s, 1, i)
<1>1. p \in Seq(Line) /\ Len(p) = i /\ Depth \in Nat
  BY PredictorsAssumption
<1> HIDE DEF p
<1>2. Recent(p, Depth) \in Seq(Line) /\ Len(Recent(p, Depth)) = IF Len(p) <= Depth THEN Len(p) ELSE Depth
  BY <1>1, RecentIs
<1> QED BY <1>1, <1>2 DEF ContextAt, p

\* The oracle's contexts are those of the positions that have a next line.
LEMMA OracleDomain ==
  DOMAIN ContextOracleTable(train) = {ContextAt(train, i) : i \in 1 .. Len(train) - 1}
<1>1. ContextOracleTable(train) = FollowingTable(train, 1 .. Len(train) - 1, 1)
  BY FollowingTableIs DEF ContextOracleTable
<1> QED BY <1>1 DEF FollowingTable

\* The full ones among them are those the trie has seen, with the same totals.
LEMMA OracleFull ==
  ASSUME BagsTold, NEW c
  PROVE  /\ c \in DOMAIN ContextOracleTable(train) /\ Len(c) = Depth <=> c \in Often(train, 1)
         /\ c \in Often(train, 1) =>
              Total(ContextOracleTable(train)[c]) = Cardinality(Ways(train, c, 1))
<1> DEFINE table == ContextOracleTable(train)
           P == 1 .. Len(train) - 1
<1>1. train \in Seq(Line) /\ Depth \in Nat \ {0} /\ 1 \in Nat \ {0} /\ Len(train) \in Nat
  BY PredictorsAssumption DEF BagsTold, TablesTold
<1>2. Begins(train, train)
  BY <1>1 DEF Begins
<1>3. Pass(P, train, 1)
  BY <1>1 DEF Pass
<1>4. table = Following(train, P, 1)
  BY DEF ContextOracleTable
<1>5. ASSUME c \in DOMAIN table, Len(c) = Depth PROVE c \in Contexts({Depth})
  <2>1. PICK i \in P : c = ContextAt(train, i)
    BY <1>5, OracleDomain
  <2>2. i \in 1 .. Len(train)
    BY <1>1
  <2>3. c \in Seq(Line)
    BY <1>1, <2>1, <2>2, ContextAtIs
  <2> QED BY <1>5, <2>3 DEF Contexts
<1> HIDE DEF table, P
<1>6. ASSUME c \in Contexts({Depth})
      PROVE  /\ c \in DOMAIN table <=> c \in Often(train, 1)
             /\ c \in DOMAIN table => Total(table[c]) = Cardinality(Ways(train, c, 1))
  <2>1. Follows(Following(train, P, 1), train, c, 1)
    BY <1>1, <1>2, <1>3, <1>6, FollowingIs
  <2>2. (c \in DOMAIN table <=> Ways(train, c, 1) # {}) /\ At(table, c) = BagOf(train, c, 1)
    BY <1>4, <2>1 DEF Follows
  <2>3. c \in Seq(Line)
    BY <1>6, FullIs
  <2>4. c \in Often(train, 1) <=> Ways(train, c, 1) # {}
    BY <1>1, <1>6, <2>3, WaysSome DEF Often
  <2>5. Total(BagOf(train, c, 1)) = Cardinality(Ways(train, c, 1))
    BY <1>6, ModelBags
  <2> QED BY <2>2, <2>4, <2>5 DEF At
<1>7. ASSUME c \in Often(train, 1) PROVE c \in Contexts({Depth}) /\ Len(c) = Depth
  BY <1>7, FullIs DEF Often
<1>8. c \in DOMAIN table /\ Len(c) = Depth <=> c \in Often(train, 1)
  BY <1>5, <1>6, <1>7
<1>9. c \in Often(train, 1) => Total(table[c]) = Cardinality(Ways(train, c, 1))
  BY <1>6, <1>7, <1>8
<1> QED BY <1>8, <1>9 DEF table

\* Beside them the oracle has one context for each shorter prefix of the trace.
LEMMA UniqueIs ==
  ASSUME BagsTold, Len(train) > Depth
  PROVE  UniqueContexts(train) = Cardinality(Often(train, 1)) + Depth - 1
<1> DEFINE D == DOMAIN ContextOracleTable(train)
           n == Len(train) - 1
           short == 1 .. Depth - 1
           shorts == {c \in D : Len(c) # Depth}
           f == [i \in 1 .. n |-> ContextAt(train, i)]
           g == [i \in short |-> ContextAt(train, i)]
           W == Often(train, 1)
<1>1. train \in Seq(Line) /\ Depth \in Nat \ {0} /\ n \in Nat /\ Depth <= n /\ n + 1 = Len(train)
  BY PredictorsAssumption DEF BagsTold, TablesTold
<1>2. D = {ContextAt(train, i) : i \in 1 .. n}
  BY OracleDomain
<1>3. \A i \in 1 .. n : /\ ContextAt(train, i) \in Seq(Line)
                       /\ Len(ContextAt(train, i)) = IF i <= Depth THEN i ELSE Depth
  <2>1. \A i \in 1 .. n : i \in 1 .. Len(train)
    BY <1>1
  <2> QED BY <1>1, <2>1, ContextAtIs
<1> HIDE DEF D, n
<1>4. IsFiniteSet(D)
  <2>1. f \in Surjection(1 .. n, D)
    BY <1>2 DEF Surjection
  <2>2. IsFiniteSet(1 .. n)
    BY <1>1, FS_Interval
  <2> HIDE DEF f
  <2> QED BY <2>1, <2>2, FS_Surjection
<1>5. \A i \in short : i \in 1 .. n /\ i < Depth /\ i \in Nat
  BY <1>1
<1>6. g \in Surjection(short, shorts)
  <2>1. \A i \in short : g[i] \in shorts
    BY <1>1, <1>2, <1>3, <1>5
  <2>2. ASSUME NEW c \in shorts PROVE \E i \in short : g[i] = c
    <3>1. PICK i \in 1 .. n : c = ContextAt(train, i)
      BY <1>2
    <3>2. Len(c) # Depth /\ Len(c) = IF i <= Depth THEN i ELSE Depth
      BY <1>3, <3>1
    <3>3. i \in short
      BY <1>1, <3>2
    <3> QED BY <3>1, <3>3
  <2> QED BY <2>1, <2>2 DEF Surjection
<1>7. g \in Injection(short, shorts)
  <2>1. g \in [short -> shorts]
    BY <1>6 DEF Surjection
  <2>2. ASSUME NEW i \in short, NEW j \in short, g[i] = g[j] PROVE i = j
    <3>1. Len(ContextAt(train, i)) = i /\ Len(ContextAt(train, j)) = j
      BY <1>1, <1>3, <1>5
    <3> QED BY <2>2, <3>1
  <2> HIDE DEF g
  <2> QED BY <2>1, <2>2 DEF Injection, IsInjective
<1>8. IsFiniteSet(short) /\ Cardinality(short) = Depth - 1
  <2>1. 1 \in Int /\ Depth - 1 \in Int
    BY <1>1
  <2>2. IsFiniteSet(short) /\ Cardinality(short) = IF 1 > Depth - 1 THEN 0 ELSE (Depth - 1) - 1 + 1
    BY <2>1, FS_Interval
  <2> HIDE DEF short
  <2> QED BY <1>1, <2>2
<1> HIDE DEF g, short
<1>9. IsFiniteSet(shorts) /\ Cardinality(shorts) = Depth - 1
  BY <1>6, <1>7, <1>8, FS_Surjection
<1>10. \A c : c \in D /\ Len(c) = Depth <=> c \in W
  BY OracleFull DEF D
<1> HIDE DEF W
<1>11. D = W \cup shorts /\ W \cap shorts = {} /\ W \subseteq D
  BY <1>10
<1>12. IsFiniteSet(W)
  BY <1>4, <1>11, FS_Subset
<1> HIDE DEF shorts
<1>13. Cardinality(D) = Cardinality(W) + Cardinality(shorts) - Cardinality(W \cap shorts)
  BY <1>9, <1>11, <1>12, FS_Union
<1>14. Cardinality(W \cap shorts) = 0 /\ Cardinality(W) \in Nat
  BY <1>11, <1>12, FS_EmptySet, FS_CardinalityType
<1>15. UniqueContexts(train) = Cardinality(D)
  BY DEF UniqueContexts, D
<1> QED BY <1>1, <1>9, <1>13, <1>14, <1>15 DEF W

\* The inductive invariant says what OraclesAgree states.
LEMMA OracleIs == OracleInv => OraclesAgree
<1> SUFFICES ASSUME OracleInv, Len(train) >= Depth PROVE OraclesAgree
  BY DEF OraclesAgree
<1> DEFINE table == ContextOracleTable(train)
<1>1. BagsTold /\ Agreed
  BY DEF OracleInv
<1>2. ASSUME Len(train) > Depth
      PROVE  /\ UniqueContexts(train) = SeenAtLeast(model.trie, Depth, 1) + Depth - 1
             /\ SeenAtLeast(model.trie, Depth, 2)
                  = Cardinality({c \in DOMAIN table : Len(c) = Depth /\ Total(table[c]) >= 2})
  <2>1. 1 \in Nat \ {0} /\ 2 \in Nat \ {0}
    OBVIOUS
  <2>2. /\ SeenAtLeast(model.trie, Depth, 1) = Cardinality(Often(train, 1))
        /\ SeenAtLeast(model.trie, Depth, 2) = Cardinality(Often(train, 2))
    BY <1>1, <2>1, TrieStatistics
  <2>3. UniqueContexts(train) = Cardinality(Often(train, 1)) + Depth - 1
    BY <1>1, <1>2, UniqueIs
  <2>4. \A c : c \in Often(train, 2) => c \in Often(train, 1)
    <3>1. train \in Seq(Line)
      BY <1>1 DEF BagsTold, TablesTold
    <3>2. \A c \in Contexts({Depth}) : Cardinality(Ways(train, c, 1)) \in Nat
      BY <2>1, <3>1, FullIs, WaysSome
    <3>3. \A c \in Contexts({Depth}) : Cardinality(Ways(train, c, 1)) >= 2 => Cardinality(Ways(train, c, 1)) >= 1
      BY <3>2
    <3> QED BY <3>3 DEF Often
  <2>5. \A c : c \in Often(train, 1) => (c \in Often(train, 2) <=> Cardinality(Ways(train, c, 1)) >= 2)
    BY DEF Often
  <2>6. \A c : /\ c \in DOMAIN table /\ Len(c) = Depth <=> c \in Often(train, 1)
               /\ c \in Often(train, 1) => Total(table[c]) = Cardinality(Ways(train, c, 1))
    BY <1>1, OracleFull
  <2> HIDE DEF table
  <2>7. \A c : c \in DOMAIN table /\ Len(c) = Depth /\ Total(table[c]) >= 2 <=> c \in Often(train, 2)
    BY <2>4, <2>5, <2>6
  <2>8. {c \in DOMAIN table : Len(c) = Depth /\ Total(table[c]) >= 2} = Often(train, 2)
    BY <2>4, <2>6, <2>7
  <2> QED BY <2>2, <2>3, <2>8
<1> QED BY <1>1, <1>2 DEF OraclesAgree, Agreed

\* Exact predictors and the oracles agree on every trace: they ask the same
\* questions, are right as often, and count the same contexts.
THEOREM OraclesAlwaysAgree == Spec => []OraclesAgree
BY OracleInit, OracleStep, OracleIs, PTL DEF Spec

--------------------------------------------------------------------------------
\* The diagnostic that is given the whole trace.

\* The evaluated positions whose context has an answer in the training part.
Asked(s, e) ==
  {i \in Len(s) + 1 .. Len(s) + Len(e) - Horizon : Ways(s, ContextAt(s \o e, i), Horizon) # {}}

\* The inductive invariant of the diagnostic: the direct Markov table has been asked
\* at those positions.
ChronologicalInv ==
  /\ BagsTold
  /\ ScoreInv
  /\ Len(train) >= Depth => score["DirectMarkov"].asked = Cardinality(Asked(train, evaluation))

\* Before the evaluation it has been asked nothing.
LEMMA NothingAsked ==
  ASSUME ScoreInv, evaluation = <<>>
  PROVE  score["DirectMarkov"].asked = Cardinality(Asked(train, evaluation))
<1>1. /\ train \in Seq(Line) /\ Len(train) \in Nat /\ Horizon \in Nat \ {0} /\ Len(evaluation) = 0
      /\ score \in [Near \cup Far -> Tally]
  BY PredictorsAssumption DEF ScoreInv, ScoreTypeOK
<1>2. "DirectMarkov" \in Far
  BY DEF Far
<1>3. score["DirectMarkov"].asked <= Judged(0) /\ score["DirectMarkov"].asked \in Nat
  BY <1>1, <1>2 DEF ScoreInv, Accounts, Tally
<1>4. score["DirectMarkov"].asked = 0
  BY <1>1, <1>3 DEF Judged
<1>5. Len(train) + 1 .. Len(train) + Len(evaluation) - Horizon = {}
  BY <1>1
<1>6. Asked(train, evaluation) = {}
  BY <1>5 DEF Asked
<1> QED BY <1>4, <1>6, FS_EmptySet

\* The lines up to a position of the evaluation.
LEMMA ConcatPrefix ==
  ASSUME NEW s \in Seq(Line), NEW e \in Seq(Line), NEW at \in 1 .. Len(e)
  PROVE  SubSeq(s \o e, 1, Len(s) + at) = s \o SubSeq(e, 1, at)
<1> DEFINE n == Len(s)
           m == Len(e)
           k == n + at
           t == s \o e
           f == SubSeq(e, 1, at)
           p == SubSeq(t, 1, k)
           q == s \o f
<1>1. n \in Nat /\ m \in Nat /\ at \in Nat /\ at >= 1 /\ at <= m
  OBVIOUS
<1>2. t \in Seq(Line) /\ Len(t) = n + m /\ \A j \in 1 .. n + m : t[j] = IF j <= n THEN s[j] ELSE e[j - n]
  OBVIOUS
<1>3. f \in Seq(Line) /\ Len(f) = at /\ \A j \in 1 .. at : f[j] = e[j]
  OBVIOUS
<1> HIDE DEF f, t
<1>4. q \in Seq(Line) /\ Len(q) = n + at /\ \A j \in 1 .. n + at : q[j] = IF j <= n THEN s[j] ELSE f[j - n]
  BY <1>3
<1> HIDE DEF n, m, q
<1>5. k \in 1 .. n + m
  BY <1>1
<1>6. p \in Seq(Line) /\ Len(p) = k /\ \A j \in 1 .. k : p[j] = t[j]
  BY <1>2, <1>5
<1> HIDE DEF p
<1>7. ASSUME NEW j \in 1 .. k PROVE p[j] = q[j]
  <2>1. p[j] = IF j <= n THEN s[j] ELSE e[j - n]
    <3>1. j \in 1 .. n + m
      BY <1>1
    <3> QED BY <1>2, <1>6, <3>1
  <2>2. q[j] = IF j <= n THEN s[j] ELSE f[j - n]
    BY <1>4
  <2>3. ~ (j <= n) => j - n \in 1 .. at
    BY <1>1
  <2> QED BY <1>3, <2>1, <2>2, <2>3
<1> HIDE DEF k
<1>8. p = q
  BY <1>4, <1>6, <1>7, SeqEqual DEF k
<1> QED BY <1>8 DEF p, q, t, k, n, f

\* One more line of the evaluation does not change the ones before it.
LEMMA ConcatBegins ==
  ASSUME NEW s \in Seq(Line), NEW e \in Seq(Line)
  PROVE  /\ Begins(s \o e, s)
         /\ \A line \in Line : Begins(s \o Append(e, line), s \o e)
<1>1. Begins(s \o e, s)
  BY DEF Begins
<1>2. ASSUME NEW line \in Line PROVE Begins(s \o Append(e, line), s \o e)
  <2> DEFINE t == s \o e
             d == Append(e, line)
             u == s \o d
             n == Len(s)
             m == Len(e)
  <2>1. n \in Nat /\ m \in Nat
    OBVIOUS
  <2>2. t \in Seq(Line) /\ Len(t) = n + m /\ \A j \in 1 .. n + m : t[j] = IF j <= n THEN s[j] ELSE e[j - n]
    OBVIOUS
  <2>3. d \in Seq(Line) /\ Len(d) = m + 1 /\ \A j \in 1 .. m : d[j] = e[j]
    OBVIOUS
  <2> HIDE DEF d, t
  <2>4. u \in Seq(Line) /\ Len(u) = n + (m + 1) /\ \A j \in 1 .. n + (m + 1) : u[j] = IF j <= n THEN s[j] ELSE d[j - n]
    BY <2>3
  <2> HIDE DEF u, n, m
  <2>5. ASSUME NEW j \in 1 .. n + m PROVE u[j] = t[j]
    <3>1. j \in 1 .. n + (m + 1)
      BY <2>1
    <3>2. ~ (j <= n) => j - n \in 1 .. m
      BY <2>1
    <3> QED BY <2>2, <2>3, <2>4, <3>1, <3>2
  <2>6. Len(t) <= Len(u)
    BY <2>1, <2>2, <2>4
  <2> QED BY <2>2, <2>4, <2>5, <2>6 DEF Begins, u, t, d
<1> QED BY <1>1, <1>2

\* One more line of the evaluation adds the position that it is the target of, if
\* that has an answer.
LEMMA AskedNext ==
  ASSUME NEW s \in Seq(Line), NEW e \in Seq(Line), NEW line \in Line, NEW at,
         at = Len(e) + 1 - Horizon
  PROVE  /\ Cardinality(Asked(s, e)) \in Nat
         /\ at < 1 => Asked(s, Append(e, line)) = Asked(s, e)
         /\ at >= 1 =>
              Cardinality(Asked(s, Append(e, line))) =
                IF Ways(s, Recent(s \o SubSeq(e, 1, at), Depth), Horizon) # {}
                THEN Cardinality(Asked(s, e)) + 1 ELSE Cardinality(Asked(s, e))
<1> DEFINE n == Len(s)
           m == Len(e)
           d == Append(e, line)
           t == s \o e
           u == s \o d
           A == Asked(s, e)
           B == Asked(s, d)
           Yes(i) == Ways(s, ContextAt(t, i), Horizon) # {}
           No(i) == Ways(s, ContextAt(u, i), Horizon) # {}
           q == n + at
           top == n + m - Horizon
           hit == Ways(s, Recent(s \o SubSeq(e, 1, at), Depth), Horizon) # {}
<1>1. /\ n \in Nat /\ m \in Nat /\ Horizon \in Nat \ {0} /\ at \in Int /\ at = m + 1 - Horizon
      /\ Len(d) = m + 1 /\ d \in Seq(Line) /\ t \in Seq(Line) /\ Len(t) = n + m
  BY PredictorsAssumption
<1>2. A = {i \in n + 1 .. top : Yes(i)}
  BY DEF Asked
<1>3. B = {i \in n + 1 .. n + Len(d) - Horizon : No(i)}
  BY DEF Asked
<1>4. Begins(u, t)
  BY ConcatBegins
<1>5. \A i \in 1 .. n + m : ContextAt(u, i) = ContextAt(t, i)
  <2> SUFFICES ASSUME NEW i \in 1 .. n + m PROVE ContextAt(u, i) = ContextAt(t, i)
    OBVIOUS
  <2> HIDE DEF u, t
  <2>1. i \in 1 .. Len(t)
    BY <1>1
  <2>2. SubSeq(u, 1, i) = SubSeq(t, 1, i)
    BY <1>1, <1>4, <2>1, BeginsContext
  <2> QED BY <2>2 DEF ContextAt
<1>6. ASSUME at >= 1 PROVE ContextAt(u, q) = Recent(s \o SubSeq(e, 1, at), Depth)
  <2>1. at \in 1 .. Len(e) /\ q \in 1 .. n + m
    BY <1>1, <1>6
  <2>2. SubSeq(t, 1, q) = s \o SubSeq(e, 1, at)
    BY <2>1, ConcatPrefix
  <2>3. ContextAt(t, q) = Recent(s \o SubSeq(e, 1, at), Depth)
    BY <2>2 DEF ContextAt
  <2> QED BY <1>5, <2>1, <2>3
<1>7. /\ top \in Int /\ q = top + 1 /\ n + Len(d) - Horizon = top + 1
      /\ \A i \in n + 1 .. top : i \in 1 .. n + m
  BY <1>1
<1>8. IsFiniteSet(A)
  <2>1. IsFiniteSet(n + 1 .. top)
    BY <1>1, <1>7, FS_Interval
  <2> QED BY <1>2, <2>1, FS_Subset
<1>9. \A i \in n + 1 .. top : Yes(i) <=> No(i)
  BY <1>5, <1>7
<1>10. at >= 1 => (No(q) <=> hit)
  BY <1>6
<1>11. B = {i \in n + 1 .. top + 1 : No(i)}
  BY <1>3, <1>7
<1>12. at >= 1 <=> q >= n + 1
  BY <1>1
<1> HIDE DEF A, B, Yes, No, q, top, hit, n
<1>13. ASSUME at < 1 PROVE B = A
  <2>1. n + 1 .. top = {} /\ n + 1 .. top + 1 = {}
    BY <1>1, <1>7, <1>12, <1>13 DEF n
  <2> QED BY <1>2, <1>11, <2>1
<1>14. ASSUME at >= 1
       PROVE  Cardinality(B) = IF hit THEN Cardinality(A) + 1 ELSE Cardinality(A)
  <2>1. \A i : i \in n + 1 .. top + 1 <=> i \in n + 1 .. top \/ i = q
    BY <1>1, <1>7, <1>12, <1>14 DEF n
  <2>2. q \notin A
    <3>1. q \notin n + 1 .. top
      BY <1>7
    <3> QED BY <1>2, <3>1
  <2>3. \A i : i \in B <=> i \in A \/ (i = q /\ hit)
    BY <1>2, <1>9, <1>10, <1>11, <1>14, <2>1
  <2>4. hit => B = A \cup {q}
    BY <2>3
  <2>5. ~ hit => B = A
    BY <2>3
  <2> QED BY <1>8, <2>2, <2>4, <2>5, FS_AddElement
<1>15. Cardinality(A) \in Nat
  BY <1>8, FS_CardinalityType
<1> QED BY <1>13, <1>14, <1>15 DEF A, B, hit, d

\* The diagnostic's count starts right.
LEMMA ChronologicalInit == Init => ChronologicalInv
<1> SUFFICES ASSUME Init PROVE ChronologicalInv
  OBVIOUS
<1>1. BagsTold /\ ScoreInv /\ evaluation = <<>>
  BY BagsInit, ScoreInit DEF Init
<1> QED BY <1>1, NothingAsked DEF ChronologicalInv

\* A line of the evaluation is asked about where the table has an answer.
LEMMA ChronologicalDemand ==
  ASSUME BagsTold, ScoreInv, Len(train) >= Depth, NEW line \in Line, Demand(line),
         score["DirectMarkov"].asked = Cardinality(Asked(train, evaluation))
  PROVE  score'["DirectMarkov"].asked = Cardinality(Asked(train, Append(evaluation, line)))
<1> DEFINE at == Len(evaluation) + 1 - Horizon
           context == train \o SubSeq(evaluation, 1, at)
           before == train \o SubSeq(evaluation, 1, at - 1)
           c == Recent(context, Depth)
           old == score["DirectMarkov"]
           forecast == FarForecast("DirectMarkov", before, context)
           A == Asked(train, evaluation)
           B == Asked(train, Append(evaluation, line))
<1>1. /\ train \in Seq(Line) /\ evaluation \in Seq(Line) /\ at \in Int /\ Horizon \in Nat \ {0}
      /\ at = Len(evaluation) + 1 - Horizon
  <2>1. train \in Seq(Line) /\ evaluation \in Seq(Line) /\ Horizon \in Nat \ {0}
    BY PredictorsAssumption DEF ScoreInv, ScoreTypeOK
  <2>2. Len(evaluation) \in Nat
    BY <2>1
  <2> QED BY <2>1, <2>2
<1>2. "DirectMarkov" \in Far /\ "DirectMarkov" \notin Near
  BY DEF Far, Near
<1>3. score'["DirectMarkov"] = IF at < 1 THEN old ELSE Scored(old, forecast, line)
  BY <1>2 DEF Demand
<1>4. at >= 1 => context \in Seq(Line) /\ Len(context) >= Depth
  <2>1. at >= 1 => at \in 1 .. Len(evaluation)
    BY <1>1
  <2> HIDE DEF at
  <2> QED BY <1>1, <2>1, KnownLong
<1> HIDE DEF context, before, old, forecast, at
<1>5. ASSUME at >= 1 PROVE forecast # {} <=> Ways(train, c, Horizon) # {}
  <2>1. forecast = Top(BagOf(train, c, Horizon), 1)
    BY <1>4, <1>5, FarAgree DEF forecast
  <2>2. c \in Seq(Line)
    BY <1>4, <1>5, FullRecent, FullIs
  <2> HIDE DEF c
  <2> QED BY <1>1, <2>1, <2>2, BagAnswers
<1>6. /\ at < 1 => B = A
      /\ at >= 1 => Cardinality(B) = IF Ways(train, c, Horizon) # {} THEN Cardinality(A) + 1 ELSE Cardinality(A)
      /\ Cardinality(A) \in Nat
  BY <1>1, AskedNext DEF context
<1>7. old.asked = Cardinality(A)
  BY DEF old
<1> HIDE DEF A, B, c
<1>8. ASSUME at >= 1 PROVE score'["DirectMarkov"].asked = Cardinality(B)
  <2>1. score'["DirectMarkov"] = Scored(old, forecast, line)
    BY <1>1, <1>3, <1>8
  <2>2. score'["DirectMarkov"].asked = old.asked + (IF forecast # {} THEN 1 ELSE 0)
    BY <2>1 DEF Scored
  <2> QED BY <1>5, <1>6, <1>7, <1>8, <2>2
<1>9. ASSUME at < 1 PROVE score'["DirectMarkov"].asked = Cardinality(B)
  BY <1>3, <1>6, <1>7, <1>9
<1>10. at < 1 \/ at >= 1
  BY <1>1
<1> QED BY <1>8, <1>9, <1>10 DEF B

\* So is every step.
LEMMA ChronologicalStep == ChronologicalInv /\ [Next]_vars => ChronologicalInv'
<1> SUFFICES ASSUME ChronologicalInv, [Next]_vars PROVE ChronologicalInv'
  OBVIOUS
<1>1. BagsTold' /\ ScoreInv' /\ BagsTold /\ ScoreInv
  BY BagsStep, ScoreStep DEF ChronologicalInv
<1> DEFINE Right == score["DirectMarkov"].asked = Cardinality(Asked(train, evaluation))
<1>2. ASSUME evaluation = <<>> PROVE Right
  BY <1>1, <1>2, NothingAsked
<1>3. ASSUME ~ frozen, UNCHANGED <<evaluation, score>> PROVE Right'
  <2>1. evaluation = <<>> /\ evaluation' = <<>>
    BY <1>1, <1>3 DEF ScoreInv, ScoreTypeOK
  <2>2. Asked(train', <<>>) = Asked(train, <<>>)
    <3>1. Len(<<>>) = 0 /\ Horizon \in Nat \ {0} /\ train \in Seq(Line) /\ train' \in Seq(Line)
      BY <1>1, PredictorsAssumption DEF ScoreInv, ScoreTypeOK
    <3>2. \A s \in Seq(Line) : Len(s) + 1 .. Len(s) + 0 - Horizon = {}
      BY <3>1
    <3>3. \A s \in Seq(Line) : Asked(s, <<>>) = {}
      BY <3>1, <3>2 DEF Asked
    <3> QED BY <3>1, <3>3
  <2> QED BY <1>2, <1>3, <2>1, <2>2
<1>4. ASSUME NEW line \in Line, Observe(line) PROVE ChronologicalInv'
  <2>1. ~ frozen /\ UNCHANGED <<evaluation, score>>
    BY <1>4 DEF Observe
  <2> QED BY <1>1, <1>3, <2>1 DEF ChronologicalInv
<1>5. ASSUME Freeze PROVE ChronologicalInv'
  <2>1. ~ frozen /\ UNCHANGED <<evaluation, score>>
    BY <1>5 DEF Freeze
  <2> QED BY <1>1, <1>3, <2>1 DEF ChronologicalInv
<1>6. ASSUME NEW line \in Line, Demand(line) PROVE ChronologicalInv'
  <2>1. evaluation' = Append(evaluation, line) /\ train' = train
    BY <1>6 DEF Demand
  <2>2. ASSUME Len(train) >= Depth PROVE Right'
    <3>1. Right
      BY <2>2 DEF ChronologicalInv
    <3> QED BY <1>1, <1>6, <2>1, <2>2, <3>1, ChronologicalDemand
  <2> QED BY <1>1, <2>1, <2>2 DEF ChronologicalInv
<1>7. ASSUME UNCHANGED vars PROVE ChronologicalInv'
  <2>1. UNCHANGED <<train, evaluation, score>>
    BY <1>7 DEF vars
  <2> QED BY <1>1, <2>1 DEF ChronologicalInv
<1> QED BY <1>4, <1>5, <1>6, <1>7 DEF Next

\* The positions that chronological_oracle() counts.
ChronologicalPositions(lines, split) ==
  {i \in Depth .. Min({split, Len(lines) - Horizon}) : i + Horizon <= split}

\* They are the full contexts of the training part that have a target in it.
LEMMA CountedPass ==
  ASSUME NEW s \in Seq(Line), NEW t, Begins(t, s)
  PROVE  ChronologicalPositions(t, Len(s)) = Depth .. Len(s) - Horizon /\ Pass(ChronologicalPositions(t, Len(s)), s, Horizon)
<1> DEFINE n == Len(s)
           m == Len(t)
           P == ChronologicalPositions(t, n)
<1>1. n \in Nat /\ m \in Nat /\ n <= m /\ Horizon \in Nat \ {0} /\ Depth \in Nat \ {0}
  BY PredictorsAssumption DEF Begins
<1>2. Min({n, m - Horizon}) = IF n <= m - Horizon THEN n ELSE m - Horizon
  <2>1. n \in Int /\ m - Horizon \in Int
    BY <1>1
  <2> QED BY <2>1, MinOfTwo
<1>3. P = {i \in Depth .. (IF n <= m - Horizon THEN n ELSE m - Horizon) : i + Horizon <= n}
  BY <1>2 DEF ChronologicalPositions
<1> HIDE DEF n, m, P
<1>4. P = Depth .. n - Horizon
  BY <1>1, <1>3
<1>5. Depth .. n - Horizon \subseteq 1 .. n - Horizon
  BY <1>1
<1> QED BY <1>4, <1>5 DEF Pass, n, P

\* Before an evaluation that fills a context its positions have full contexts.
LEMMA FullAt ==
  ASSUME NEW s \in Seq(Line), NEW i \in Depth .. Len(s)
  PROVE  ContextAt(s, i) \in Contexts({Depth})
<1>1. Depth \in Nat \ {0} /\ Len(s) \in Nat /\ i \in 1 .. Len(s) /\ i >= Depth
  BY PredictorsAssumption
<1>2. ContextAt(s, i) \in Seq(Line) /\ Len(ContextAt(s, i)) = IF i <= Depth THEN i ELSE Depth
  BY <1>1, ContextAtIs
<1>3. Len(ContextAt(s, i)) = Depth
  BY <1>1, <1>2
<1> QED BY <1>2, <1>3 DEF Contexts

\* The flat table knows a full context that has occurred, and no other.
LEMMA FlatKnows ==
  ASSUME BagsTold, NEW c \in Contexts({Depth})
  PROVE  c \in DOMAIN model.flat <=> Ways(train, c, Horizon) # {}
<1>1. At(model.flat, c) = BagOf(train, c, Horizon)
  BY ModelBags
<1>2. BagOf(train, c, Horizon) = EmptyBag <=> Ways(train, c, Horizon) = {}
  BY BagEmpty
<1>3. c \in DOMAIN model.flat => At(model.flat, c) # EmptyBag
  BY DEF BagsTold, Observed, At
<1>4. c \notin DOMAIN model.flat => At(model.flat, c) = EmptyBag
  BY DEF At
<1> QED BY <1>1, <1>2, <1>3, <1>4

\* context_counts() of a context that occurs.
LEMMA ContextCountIs ==
  ASSUME NEW lines, NEW c, Here(lines, Depth .. Len(lines), c) # {}
  PROVE  ContextCounts(lines)[c][TRUE] = Cardinality(Here(lines, Depth .. Len(lines), c))
<1> DEFINE P == Depth .. Len(lines)
           table == [d \in {ContextAt(lines, i) : i \in P} |->
                       [x \in {TRUE : i \in {j \in P : ContextAt(lines, j) = d}} |->
                          Cardinality({i \in {j \in P : ContextAt(lines, j) = d} : TRUE = x})]]
           here == {j \in P : ContextAt(lines, j) = c}
<1>1. ContextCounts(lines) = table
  BY DEF ContextCounts, Tabulated, ContextAt
<1>2. here = Here(lines, P, c)
  BY DEF Here
<1>3. c \in {ContextAt(lines, i) : i \in P}
  BY <1>2
<1>4. table[c] = [x \in {TRUE : i \in here} |-> Cardinality({i \in here : TRUE = x})]
  BY <1>3
<1> HIDE DEF here, table
<1>5. TRUE \in {TRUE : i \in here}
  BY <1>2
<1>6. table[c][TRUE] = Cardinality({i \in here : TRUE = TRUE})
  BY <1>4, <1>5
<1>7. {i \in here : TRUE = TRUE} = here
  OBVIOUS
<1> QED BY <1>1, <1>2, <1>6, <1>7

\* The inductive invariant says what ChronologicalCausal states.
LEMMA ChronologicalIs == ChronologicalInv => ChronologicalCausal
<1> SUFFICES ASSUME ChronologicalInv, frozen, Len(train) >= Depth PROVE ChronologicalCausal
  BY DEF ChronologicalCausal
<1> DEFINE lines == train \o evaluation
           split == Len(train)
           top == Len(lines) - Horizon
           table == ChronologicalTable(lines, split)
           P == ChronologicalPositions(lines, split)
           full == {c \in DOMAIN model.flat : Len(c) = Depth}
<1>1. /\ BagsTold /\ train \in Seq(Line) /\ evaluation \in Seq(Line) /\ lines \in Seq(Line)
      /\ split \in Nat /\ split >= Depth /\ Depth \in Nat \ {0} /\ Horizon \in Nat \ {0}
      /\ Len(lines) = split + Len(evaluation) /\ Len(evaluation) \in Nat
  <2>1. /\ BagsTold /\ train \in Seq(Line) /\ evaluation \in Seq(Line)
        /\ Depth \in Nat \ {0} /\ Horizon \in Nat \ {0} /\ split >= Depth
    BY PredictorsAssumption DEF ChronologicalInv, ScoreInv, ScoreTypeOK
  <2>2. /\ lines \in Seq(Line) /\ Len(lines) = split + Len(evaluation)
        /\ split \in Nat /\ Len(evaluation) \in Nat
    BY <2>1
  <2> QED BY <2>1, <2>2
<1>2. Begins(lines, train)
  BY <1>1, ConcatBegins
<1>3. table = Following(lines, P, Horizon)
  BY DEF ChronologicalTable, ChronologicalPositions
<1> HIDE DEF lines, table
<1>4. P = Depth .. split - Horizon /\ Pass(P, train, Horizon)
  BY <1>1, <1>2, CountedPass
<1> HIDE DEF P
<1>5. ASSUME NEW c \in Contexts({Depth})
      PROVE  /\ c \in DOMAIN table <=> Ways(train, c, Horizon) # {}
             /\ c \in DOMAIN table => table[c] = BagOf(train, c, Horizon)
  <2>1. Follows(Following(lines, P, Horizon), train, c, Horizon)
    BY <1>1, <1>2, <1>4, FollowingIs
  <2> QED BY <1>3, <2>1 DEF Follows, At
<1>6. table = [c \in DOMAIN table |-> table[c]] /\ DOMAIN table = {ContextAt(lines, i) : i \in P}
  BY <1>3, FollowingTableIs DEF FollowingTable
<1>7. ASSUME NEW i \in Depth .. Len(lines) PROVE ContextAt(lines, i) \in Contexts({Depth})
  BY <1>1, FullAt
<1>8. P \subseteq Depth .. Len(lines)
  BY <1>1, <1>4
<1>9. DOMAIN table \subseteq Contexts({Depth})
  BY <1>6, <1>7, <1>8
<1>10. full \subseteq Contexts({Depth})
  BY <1>1 DEF BagsTold, Observed, Contexts
<1>11. ASSUME NEW c \in Contexts({Depth})
       PROVE  /\ c \in full <=> Ways(train, c, Horizon) # {}
              /\ c \in full => model.flat[c] = BagOf(train, c, Horizon)
  <2>1. c \in DOMAIN model.flat <=> Ways(train, c, Horizon) # {}
    BY <1>1, FlatKnows
  <2>2. At(model.flat, c) = BagOf(train, c, Horizon)
    BY <1>1, ModelBags
  <2>3. Len(c) = Depth
    BY FullIs
  <2> QED BY <2>1, <2>2, <2>3 DEF At
<1> HIDE DEF full
<1>12. DOMAIN table = full
  BY <1>5, <1>9, <1>10, <1>11
<1>13. table = Restrict(model.flat, full)
  <2>1. \A c \in full : table[c] = model.flat[c]
    BY <1>5, <1>10, <1>11, <1>12
  <2>2. table = [c \in full |-> table[c]]
    BY <1>6, <1>12
  <2> QED BY <2>1, <2>2 DEF Restrict
<1>14. Reusable(lines, split) = Asked(train, evaluation)
  <2> DEFINE R == {i \in split + 1 .. top : ContextAt(lines, i) \in DOMAIN table}
  <2>1. Max({Depth, split + 1}) = split + 1
    <3>1. {Depth, split + 1} \in SUBSET (0 .. split + 1) /\ split + 1 \in Nat
      BY <1>1
    <3>2. Max({Depth, split + 1}) \in {Depth, split + 1} /\ split + 1 <= Max({Depth, split + 1})
      BY <3>1, MaxIs
    <3> DEFINE m == Max({Depth, split + 1})
    <3> HIDE DEF m
    <3>3. (m = Depth \/ m = split + 1) /\ split + 1 <= m
      BY <3>2 DEF m
    <3>4. m = split + 1
      BY <1>1, <3>3
    <3> QED BY <3>4 DEF m
  <2>2. Reusable(lines, split) = R
    BY <2>1 DEF Reusable, ChronologicalExamples, ContextAt, table
  <2>3. \A i \in split + 1 .. top : i \in Depth .. Len(lines)
    BY <1>1
  <2>4. \A i \in split + 1 .. top : ContextAt(lines, i) \in DOMAIN table
                                      <=> Ways(train, ContextAt(lines, i), Horizon) # {}
    BY <1>5, <1>7, <2>3
  <2>5. top = Len(train) + Len(evaluation) - Horizon
    BY <1>1
  <2>6. Asked(train, evaluation)
          = {i \in split + 1 .. top : Ways(train, ContextAt(lines, i), Horizon) # {}}
    BY <2>5 DEF Asked, lines
  <2> HIDE DEF split, top
  <2>7. R = Asked(train, evaluation)
    BY <2>4, <2>6
  <2> QED BY <2>2, <2>7
<1>15. Cardinality(Reusable(lines, split)) = score["DirectMarkov"].asked
  BY <1>14 DEF ChronologicalInv
<1>16. ASSUME NEW c \in DOMAIN table PROVE ContextCounts(lines)[c][TRUE] >= Total(table[c])
  <2> DEFINE all == Here(lines, Depth .. Len(lines), c)
             some == Ways(train, c, Horizon)
  <2>1. c \in Contexts({Depth}) /\ c \in Seq(Line)
    BY <1>9, FullIs
  <2>2. Total(table[c]) = Cardinality(some) /\ some # {}
    BY <1>1, <1>5, <2>1, ModelBags
  <2>3. some = Here(lines, P, c)
    <3>1. PassWays(lines, P, train, c, Horizon)
      BY <1>1, <1>2, <1>4, <2>1, FollowingWays
    <3> QED BY <3>1 DEF PassWays
  <2>4. some \subseteq all
    BY <1>8, <2>3 DEF Here
  <2>5. IsFiniteSet(all)
    <3>1. IsFiniteSet(Depth .. Len(lines))
      BY <1>1, FS_Interval
    <3> QED BY <3>1, FS_Subset DEF Here
  <2> HIDE DEF all, some
  <2>6. Cardinality(some) <= Cardinality(all) /\ Cardinality(all) \in Nat /\ Cardinality(some) \in Nat
    BY <2>4, <2>5, FS_Subset, FS_CardinalityType
  <2>7. ContextCounts(lines)[c][TRUE] = Cardinality(all)
    <3>1. all # {}
      BY <2>2, <2>4
    <3> QED BY <3>1, ContextCountIs DEF all
  <2> QED BY <2>2, <2>6, <2>7
<1> QED BY <1>13, <1>15, <1>16 DEF ChronologicalCausal, lines, table, full

\* The diagnostic's oracle is given the evaluation and learns nothing from it,
\* whatever the trace and wherever it is split.
THEOREM ChronologicalAlwaysCausal == Spec => []ChronologicalCausal
BY ChronologicalInit, ChronologicalStep, ChronologicalIs, PTL DEF Spec
================================================================================
