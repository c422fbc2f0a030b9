---------------------------- MODULE EvaluationProofs ----------------------------
(***************************************************************************)
(* Theorems about what is done with the predictors: the evaluation matrix, *)
(* for any number of jobs, workers and invocations and any sequence of     *)
(* failures and kills; and the experiment programs, for any traces, window *)
(* sizes, outcomes, configurations and evidence of the stated types.       *)
(***************************************************************************)
EXTENDS EvalMatrix, Study, FiniteSetTheorems, FunctionTheorems, SequenceTheorems,
        WellFoundedInduction, TLAPS

----------------------------------------------------------------------------
(* Recursive functions, and sequences that are kept or flattened.          *)

\* What holds of 0 and passes on from each number to the next holds up to n.
LEMMA Climb ==
  ASSUME NEW n \in Nat, NEW T, 0 \in T, \A i \in 1 .. n : i - 1 \in T => i \in T
  PROVE  0 .. n \subseteq T
<1> DEFINE R == OpToRel(<, Nat)
           F == (0 .. n) \ T
<1>1. \A x, y \in Nat : x < y => <<x, y>> \in R
  BY DEF OpToRel
<1>2. IsWellFoundedOn(R, Nat)
  BY NatLessThanWellFounded, Zenon
<1> HIDE DEF R
<1> SUFFICES ASSUME F # {} PROVE FALSE
  OBVIOUS
<1>3. F \subseteq Nat
  OBVIOUS
<1>4. \E x \in F : \A y \in F : ~ (<<y, x>> \in R)
  <2> HIDE DEF F
  <2> QED BY <1>2, <1>3, WFMin
<1>5. PICK x \in F : \A y \in F : ~ (y < x)
  BY <1>1, <1>3, <1>4
<1>6. x # 0 /\ x \in 1 .. n
  OBVIOUS
<1>7. x - 1 \in T
  BY <1>5, <1>6
<1> QED BY <1>5, <1>6, <1>7

\* run is the recursive function with that base and those steps, up to n.
Goes(run, n, V, base, step) ==
  run \in [0 .. n -> V] /\ run[0] = base /\ \A i \in 1 .. n : run[i] = step[i][run[i - 1]]

\* There is one.
LEMMA RunExists ==
  ASSUME NEW n \in Nat, NEW V, NEW base \in V, NEW step \in [1 .. n -> [V -> V]]
  PROVE  \E run : Goes(run, n, V, base, step)
<1> DEFINE T == {m \in 0 .. n : \E run : Goes(run, m, V, base, step)}
<1>1. 0 \in T
  <2>1. Goes([i \in 0 .. 0 |-> base], 0, V, base, step)
    BY DEF Goes
  <2> QED BY <2>1
<1>2. ASSUME NEW m \in 1 .. n, m - 1 \in T PROVE m \in T
  <2>1. PICK run : Goes(run, m - 1, V, base, step)
    BY <1>2
  <2> DEFINE next == [i \in 0 .. m |-> IF i = m THEN step[m][run[m - 1]] ELSE run[i]]
  <2>2. run[m - 1] \in V /\ step[m][run[m - 1]] \in V
    BY <2>1 DEF Goes
  <2>3. next \in [0 .. m -> V]
    BY <2>1, <2>2 DEF Goes
  <2>4. next[0] = base /\ \A i \in 1 .. m : next[i] = step[i][next[i - 1]]
    BY <2>1 DEF Goes
  <2> HIDE DEF next
  <2>5. Goes(next, m, V, base, step)
    BY <2>3, <2>4 DEF Goes
  <2> QED BY <2>5
<1> HIDE DEF T
<1>3. 0 .. n \subseteq T
  BY <1>1, <1>2, Climb
<1>4. n \in T
  BY <1>3
<1> QED BY <1>4 DEF T

----------------------------------------------------------------------------
\* Every earlier element of a sequence is related to every later one.
Pairwise(s, G) == \A i, j \in 1 .. Len(s) : i < j => <<s[i], s[j]>> \in G

\* Every element of one sequence is related to every element of another.
Across(s, t, G) == \A i \in 1 .. Len(s), j \in 1 .. Len(t) : <<s[i], t[j]>> \in G

\* An element that all the others precede may be put last.
LEMMA PairwiseAppend ==
  ASSUME NEW S, NEW s \in Seq(S), NEW x \in S, NEW G, Pairwise(s, G),
         \A i \in 1 .. Len(s) : <<s[i], x>> \in G
  PROVE  Pairwise(Append(s, x), G)
<1> SUFFICES ASSUME NEW i \in 1 .. Len(Append(s, x)), NEW j \in 1 .. Len(Append(s, x)), i < j
             PROVE  <<Append(s, x)[i], Append(s, x)[j]>> \in G
  BY DEF Pairwise
<1>1. i \in 1 .. Len(s) /\ Append(s, x)[i] = s[i]
  OBVIOUS
<1>2. CASE j \in 1 .. Len(s)
  BY <1>1, <1>2 DEF Pairwise
<1>3. CASE j = Len(s) + 1
  BY <1>1, <1>3
<1> QED BY <1>2, <1>3

\* An element of s \o t is one of s or one of t.
OneOf(v, s, t, i) ==
  \/ i \in 1 .. Len(s) /\ v[i] = s[i]
  \/ \E x \in 1 .. Len(t) : i = Len(s) + x /\ v[i] = t[x]

\* Every element of a concatenation is such a one.
LEMMA ConcatIs ==
  ASSUME NEW S, NEW s \in Seq(S), NEW t \in Seq(S), NEW v, v = s \o t
  PROVE  \A i \in 1 .. Len(v) : OneOf(v, s, t, i)
<1> SUFFICES ASSUME NEW i \in 1 .. Len(v) PROVE OneOf(v, s, t, i)
  OBVIOUS
<1>1. Len(v) = Len(s) + Len(t) /\ Len(s) \in Nat /\ Len(t) \in Nat
  OBVIOUS
<1>2. CASE i <= Len(s)
  BY <1>2 DEF OneOf
<1>3. CASE i > Len(s)
  <2> DEFINE x == i - Len(s)
  <2>1. x \in 1 .. Len(t) /\ i = Len(s) + x /\ v[i] = t[x]
    BY <1>1, <1>3
  <2> QED BY <2>1 DEF OneOf
<1> QED BY <1>1, <1>2, <1>3

\* Two sequences in order, the one before the other, are in order together.
LEMMA PairwiseConcat ==
  ASSUME NEW S, NEW s \in Seq(S), NEW t \in Seq(S), NEW G, Pairwise(s, G), Pairwise(t, G),
         Across(s, t, G)
  PROVE  Pairwise(s \o t, G)
<1>1. Len(s) \in Nat
  OBVIOUS
<1>2. PICK v : v = s \o t
  OBVIOUS
<1>3. \A i \in 1 .. Len(v) : OneOf(v, s, t, i)
  BY <1>2, ConcatIs
<1>4. ASSUME NEW i \in 1 .. Len(v), NEW j \in 1 .. Len(v), i < j PROVE <<v[i], v[j]>> \in G
  <2>1. CASE i \in 1 .. Len(s) /\ v[i] = s[i]
    <3>1. CASE j \in 1 .. Len(s) /\ v[j] = s[j]
      BY <1>4, <2>1, <3>1 DEF Pairwise
    <3>2. CASE \E y \in 1 .. Len(t) : j = Len(s) + y /\ v[j] = t[y]
      BY <2>1, <3>2 DEF Across
    <3> QED BY <1>3, <3>1, <3>2 DEF OneOf
  <2>2. CASE \E x \in 1 .. Len(t) : i = Len(s) + x /\ v[i] = t[x]
    <3>1. PICK x \in 1 .. Len(t) : i = Len(s) + x /\ v[i] = t[x]
      BY <2>2
    <3>2. PICK y \in 1 .. Len(t) : j = Len(s) + y /\ v[j] = t[y]
      <4>1. j \notin 1 .. Len(s)
        BY <1>1, <1>4, <3>1
      <4> QED BY <1>3, <4>1 DEF OneOf
    <3>3. x < y
      BY <1>1, <1>4, <3>1, <3>2
    <3> QED BY <3>1, <3>2, <3>3 DEF Pairwise
  <2> QED BY <1>3, <2>1, <2>2 DEF OneOf
<1> QED BY <1>2, <1>4 DEF Pairwise

\* What precedes a sequence in two parts precedes it as a whole.
LEMMA AcrossConcat ==
  ASSUME NEW S, NEW s \in Seq(S), NEW t \in Seq(S), NEW u, NEW G, Across(s, u, G), Across(t, u, G)
  PROVE  Across(s \o t, u, G)
<1>1. PICK v : v = s \o t
  OBVIOUS
<1>2. \A i \in 1 .. Len(v) : OneOf(v, s, t, i)
  BY <1>1, ConcatIs
<1>3. ASSUME NEW i \in 1 .. Len(v), NEW j \in 1 .. Len(u) PROVE <<v[i], u[j]>> \in G
  BY <1>2 DEF Across, OneOf
<1> QED BY <1>1, <1>3 DEF Across

\* What is left of a sequence keeps its order, and is not empty when something is kept.
LEMMA KeptIs ==
  ASSUME NEW S, NEW s \in Seq(S), NEW P
  PROVE  /\ Kept(s, P) \in Seq({s[k] : k \in P \cap (1 .. Len(s))})
         /\ \A G : Pairwise(s, G) => Pairwise(Kept(s, P), G)
         /\ P \cap (1 .. Len(s)) # {} => Len(Kept(s, P)) > 0
<1> DEFINE n == Len(s)
           IsRun(run) ==
             run = [i \in 0 .. n |-> IF i = 0 THEN <<>>
                                     ELSE IF i \in P THEN Append(run[i - 1], s[i]) ELSE run[i - 1]]
           kept == CHOOSE run : IsRun(run)
           Some(i) == {s[k] : k \in P \cap (1 .. i)}
           Good(i) == /\ kept[i] \in Seq(Some(i))
                      /\ \A G : Pairwise(s, G) => Pairwise(kept[i], G)
                      /\ P \cap (1 .. i) # {} => Len(kept[i]) > 0
           T == {i \in 0 .. n : Good(i)}
<1>1. n \in Nat
  OBVIOUS
<1>2. \E run : IsRun(run)
  <2> DEFINE step == [i \in 1 .. n |-> [r \in Seq(S) |-> IF i \in P THEN Append(r, s[i]) ELSE r]]
  <2>1. step \in [1 .. n -> [Seq(S) -> Seq(S)]]
    OBVIOUS
  <2>2. <<>> \in Seq(S)
    OBVIOUS
  <2>3. \A i \in 1 .. n, r \in Seq(S) : step[i][r] = IF i \in P THEN Append(r, s[i]) ELSE r
    OBVIOUS
  <2> HIDE DEF step, n
  <2>4. PICK run : Goes(run, n, Seq(S), <<>>, step)
    BY <1>1, <2>1, <2>2, RunExists
  <2>5. ASSUME NEW i \in 0 .. n, i # 0
        PROVE  run[i] = IF i \in P THEN Append(run[i - 1], s[i]) ELSE run[i - 1]
    <3>1. i \in 1 .. n /\ run[i - 1] \in Seq(S) /\ run[i] = step[i][run[i - 1]]
      BY <1>1, <2>4, <2>5 DEF Goes
    <3> QED BY <2>3, <3>1
  <2>6. run = [i \in 0 .. n |-> run[i]] /\ run[0] = <<>>
    BY <2>4 DEF Goes
  <2>7. IsRun(run)
    BY <2>5, <2>6
  <2> QED BY <2>7
<1>3. IsRun(kept)
  BY <1>2
<1>4. Kept(s, P) = kept[n]
  BY DEF Kept
<1> HIDE DEF kept
<1>5. kept[0] = <<>> /\ \A i \in 1 .. n : kept[i] = IF i \in P THEN Append(kept[i - 1], s[i]) ELSE kept[i - 1]
  <2> DEFINE next(i) == IF i = 0 THEN <<>>
                        ELSE IF i \in P THEN Append(kept[i - 1], s[i]) ELSE kept[i - 1]
  <2>1. kept = [i \in 0 .. n |-> next(i)]
    BY <1>3
  <2>2. \A i \in 0 .. n : kept[i] = next(i)
    <3> HIDE DEF next
    <3> QED BY <2>1
  <2> QED BY <1>1, <2>2
<1> HIDE DEF IsRun
<1>6. 0 \in T
  <2>1. kept[0] = <<>>
    BY <1>5
  <2>2. Good(0)
    BY <2>1 DEF Pairwise
  <2> QED BY <1>1, <2>2
<1>7. ASSUME NEW i \in 1 .. n, i - 1 \in T PROVE i \in T
  <2>1. Good(i - 1)
    BY <1>7
  <2>2. Some(i - 1) \subseteq Some(i) /\ Some(i) \subseteq S
    OBVIOUS
  <2>3. kept[i - 1] \in Seq(Some(i)) /\ kept[i - 1] \in Seq(S)
    BY <2>1, <2>2
  <2>4. CASE i \in P
    <3>1. kept[i] = Append(kept[i - 1], s[i])
      BY <1>5, <2>4
    <3>2. s[i] \in Some(i)
      BY <2>4
    <3>3. kept[i] \in Seq(Some(i)) /\ Len(kept[i]) > 0
      <4> HIDE DEF Some
      <4> QED BY <2>3, <3>1, <3>2
    <3>4. ASSUME NEW G, Pairwise(s, G) PROVE Pairwise(kept[i], G)
      <4>1. ASSUME NEW x \in 1 .. Len(kept[i - 1]) PROVE <<kept[i - 1][x], s[i]>> \in G
        <5>1. PICK k \in 1 .. i - 1 : kept[i - 1][x] = s[k]
          BY <2>1
        <5> QED BY <3>4, <5>1 DEF Pairwise
      <4>2. Pairwise(kept[i - 1], G)
        BY <2>1, <3>4
      <4>3. s[i] \in S
        OBVIOUS
      <4> HIDE DEF Good, Some
      <4> QED BY <2>3, <3>1, <4>1, <4>2, <4>3, PairwiseAppend
    <3> QED BY <3>3, <3>4
  <2>5. CASE i \notin P
    <3>1. kept[i] = kept[i - 1]
      BY <1>5, <2>5
    <3>2. P \cap (1 .. i) # {} => P \cap (1 .. i - 1) # {}
      BY <2>5
    <3> QED BY <2>1, <2>3, <3>1, <3>2
  <2> QED BY <2>4, <2>5
<1> HIDE DEF T
<1> HIDE DEF n
<1>8. 0 .. n \subseteq T
  BY <1>1, <1>6, <1>7, Climb
<1>9. n \in T
  BY <1>1, <1>8
<1> QED BY <1>4, <1>9 DEF T, n

\* The elements of a flattened sequence are those of its parts, in their order.
LEMMA FlattenIs ==
  ASSUME NEW S, NEW parts \in Seq(Seq(S)), NEW G,
         \A k \in 1 .. Len(parts) : Pairwise(parts[k], G),
         \A k, l \in 1 .. Len(parts) : k < l => Across(parts[k], parts[l], G)
  PROVE  FlattenSeq(parts) \in Seq(S) /\ Pairwise(FlattenSeq(parts), G)
<1> DEFINE n == Len(parts)
           IsRun(run) ==
             run = [i \in 1 .. n |-> IF i = 1 THEN parts[i] ELSE run[i - 1] \o parts[i]]
           flat == CHOOSE run : IsRun(run)
           Good(i) == /\ flat[i] \in Seq(S) /\ Pairwise(flat[i], G)
                      /\ \A k \in i + 1 .. n : Across(flat[i], parts[k], G)
           T == {i \in 0 .. n : i = 0 \/ Good(i)}
<1>1. n \in Nat /\ \A i \in 1 .. n : parts[i] \in Seq(S)
  OBVIOUS
<1>2. CASE n = 0
  <2>1. FlattenSeq(parts) = parts /\ parts = <<>>
    BY <1>2 DEF FlattenSeq
  <2> QED BY <2>1 DEF Pairwise
<1>3. CASE n # 0
  <2>1. \E run : IsRun(run)
    <3> DEFINE step == [i \in 1 .. n |-> [r \in Seq(S) |-> IF i = 1 THEN parts[1] ELSE r \o parts[i]]]
    <3>1. step \in [1 .. n -> [Seq(S) -> Seq(S)]]
      BY <1>1, <1>3
    <3>2. <<>> \in Seq(S)
      OBVIOUS
    <3>3. \A i \in 1 .. n, r \in Seq(S) : step[i][r] = IF i = 1 THEN parts[1] ELSE r \o parts[i]
      OBVIOUS
    <3> HIDE DEF step, n
    <3>4. PICK run : Goes(run, n, Seq(S), <<>>, step)
      BY <1>1, <3>1, <3>2, RunExists
    <3> DEFINE tail == [i \in 1 .. n |-> run[i]]
    <3>5. ASSUME NEW i \in 1 .. n
          PROVE  tail[i] = IF i = 1 THEN parts[i] ELSE tail[i - 1] \o parts[i]
      <4>1. run[i - 1] \in Seq(S) /\ run[i] = step[i][run[i - 1]]
        BY <1>1, <3>4 DEF Goes
      <4>2. tail[i] = run[i] /\ (i # 1 => tail[i - 1] = run[i - 1])
        BY <1>1
      <4> HIDE DEF tail
      <4> QED BY <3>3, <4>1, <4>2
    <3>6. tail = [i \in 1 .. n |-> tail[i]]
      OBVIOUS
    <3> HIDE DEF tail
    <3>7. IsRun(tail)
      BY <3>5, <3>6
    <3> QED BY <3>7
  <2>2. IsRun(flat)
    BY <2>1
  <2>3. FlattenSeq(parts) = flat[n]
    BY <1>3 DEF FlattenSeq
  <2> HIDE DEF flat
  <2>4. \A i \in 1 .. n : flat[i] = IF i = 1 THEN parts[i] ELSE flat[i - 1] \o parts[i]
    <3> DEFINE next(i) == IF i = 1 THEN parts[i] ELSE flat[i - 1] \o parts[i]
    <3>1. flat = [i \in 1 .. n |-> next(i)]
      BY <2>2
    <3> HIDE DEF next
    <3>2. \A i \in 1 .. n : flat[i] = next(i)
      BY <3>1
    <3> QED BY <3>2 DEF next
  <2> HIDE DEF IsRun
  <2>5. 0 \in T
    BY <1>1
  <2>6. ASSUME NEW i \in 1 .. n, i - 1 \in T PROVE i \in T
    <3>1. CASE i = 1
      <4>1. flat[i] = parts[1]
        BY <2>4, <3>1
      <4>2. \A k \in i + 1 .. n : Across(parts[1], parts[k], G)
        BY <1>1, <3>1
      <4>3. Good(i)
        BY <1>1, <3>1, <4>1, <4>2
      <4> QED BY <1>1, <4>3
    <3>2. CASE i # 1
      <4>1. Good(i - 1)
        BY <2>6, <3>2
      <4>2. flat[i] = flat[i - 1] \o parts[i]
        BY <2>4, <3>2
      <4>3. flat[i - 1] \in Seq(S) /\ parts[i] \in Seq(S) /\ Across(flat[i - 1], parts[i], G)
            /\ Pairwise(flat[i - 1], G) /\ Pairwise(parts[i], G)
        BY <1>1, <4>1
      <4>4. flat[i] \in Seq(S) /\ Pairwise(flat[i], G)
        <5> HIDE DEF Good, n
        <5> QED BY <4>2, <4>3, PairwiseConcat
      <4>5. ASSUME NEW k \in i + 1 .. n PROVE Across(flat[i], parts[k], G)
        <5>1. Across(flat[i - 1], parts[k], G) /\ Across(parts[i], parts[k], G)
          BY <1>1, <4>1
        <5> HIDE DEF Good, n
        <5> QED BY <4>2, <4>3, <5>1, AcrossConcat
      <4>6. Good(i)
        BY <4>4, <4>5
      <4> QED BY <1>1, <4>6
    <3> QED BY <3>1, <3>2
  <2> HIDE DEF T, n
  <2>7. 0 .. n \subseteq T
    BY <1>1, <2>5, <2>6, Climb
  <2>8. n \in T
    BY <1>1, <2>7
  <2> QED BY <1>3, <2>3, <2>8 DEF T
<1> QED BY <1>2, <1>3

----------------------------------------------------------------------------
(* Sums and products over finite sets.                                     *)

\* The element that a fold takes from a set, and the set it goes on with.
One(s) == CHOOSE x \in s : TRUE
Others(s) == s \ {One(s)}

\* It is one of the elements, and the others are fewer.
LEMMA OneIs ==
  ASSUME NEW S, IsFiniteSet(S), NEW s \in SUBSET S
  PROVE  /\ Cardinality(s) \in 0 .. Cardinality(S) /\ (Cardinality(s) = 0 <=> s = {})
         /\ Cardinality(S) \in Nat
         /\ s # {} => /\ One(s) \in s /\ Others(s) \in SUBSET S
                      /\ Cardinality(Others(s)) = Cardinality(s) - 1
<1>1. IsFiniteSet(s) /\ Cardinality(s) <= Cardinality(S)
  BY FS_Subset
<1>2. Cardinality(s) \in Nat /\ Cardinality(S) \in Nat /\ (Cardinality(s) = 0 <=> s = {})
  BY <1>1, FS_CardinalityType, FS_EmptySet
<1>3. ASSUME s # {} PROVE One(s) \in s
  BY <1>3 DEF One
<1>4. Cardinality(s \ {One(s)}) = IF One(s) \in s THEN Cardinality(s) - 1 ELSE Cardinality(s)
  BY <1>1, FS_RemoveElement
<1> QED BY <1>1, <1>2, <1>3, <1>4 DEF Others

\* What holds of the empty set and is passed on when a set gets the element it is
\* folded with holds of a finite set.
LEMMA FoldInduction ==
  ASSUME NEW S, IsFiniteSet(S), NEW T, {} \in T,
         \A s \in SUBSET S : s # {} /\ Others(s) \in T => s \in T
  PROVE  SUBSET S \subseteq T
<1> DEFINE n == Cardinality(S)
           L == {i \in 0 .. n : \A s \in SUBSET S : Cardinality(s) = i => s \in T}
<1>1. n \in Nat
  BY FS_CardinalityType
<1>2. 0 \in L
  <2>1. \A s \in SUBSET S : Cardinality(s) = 0 => s = {}
    BY OneIs
  <2> QED BY <1>1, <2>1
<1>3. ASSUME NEW i \in 1 .. n, i - 1 \in L PROVE i \in L
  <2>1. ASSUME NEW s \in SUBSET S, Cardinality(s) = i PROVE s \in T
    <3>1. s # {} /\ Others(s) \in SUBSET S /\ Cardinality(Others(s)) = i - 1
      BY <1>1, <2>1, OneIs
    <3> QED BY <1>3, <3>1
  <2> QED BY <2>1
<1> HIDE DEF L, n
<1>4. 0 .. n \subseteq L
  BY <1>1, <1>2, <1>3, Climb
<1>5. ASSUME NEW s \in SUBSET S PROVE s \in T
  <2>1. Cardinality(s) \in 0 .. n
    BY OneIs DEF n
  <2>2. Cardinality(s) \in L
    BY <1>4, <2>1
  <2> QED BY <2>2 DEF L
<1> QED BY <1>5

\* run folds the subsets of S with those steps.
FoldsBy(run, S, V, base, step) ==
  /\ run \in [SUBSET S -> V] /\ run[{}] = base
  /\ \A s \in SUBSET S : s # {} => run[s] = step[s][run[Others(s)]]

\* There is such a fold.
LEMMA FoldExists ==
  ASSUME NEW S, IsFiniteSet(S), NEW V, NEW base \in V, NEW step \in [SUBSET S -> [V -> V]]
  PROVE  \E run : FoldsBy(run, S, V, base, step)
<1> DEFINE n == Cardinality(S)
           UpTo(run, m) ==
             /\ run \in [SUBSET S -> V] /\ run[{}] = base
             /\ \A s \in SUBSET S : s # {} /\ Cardinality(s) <= m => run[s] = step[s][run[Others(s)]]
           L == {m \in 0 .. n : \E run : UpTo(run, m)}
<1>1. n \in Nat
  BY FS_CardinalityType
<1>2. 0 \in L
  <2> DEFINE run == [s \in SUBSET S |-> base]
  <2>1. run \in [SUBSET S -> V] /\ run[{}] = base
    OBVIOUS
  <2>2. \A s \in SUBSET S : s # {} => ~ (Cardinality(s) <= 0)
    BY OneIs
  <2> HIDE DEF run
  <2>3. UpTo(run, 0)
    BY <2>1, <2>2
  <2> QED BY <1>1, <2>3
<1>3. ASSUME NEW m \in 1 .. n, m - 1 \in L PROVE m \in L
  <2>1. PICK run : UpTo(run, m - 1)
    BY <1>3
  <2> DEFINE next == [s \in SUBSET S |->
                        IF s # {} /\ Cardinality(s) = m THEN step[s][run[Others(s)]] ELSE run[s]]
  <2>2. next \in [SUBSET S -> V]
    <3>1. ASSUME NEW s \in SUBSET S, s # {} PROVE step[s][run[Others(s)]] \in V
      BY <2>1, <3>1, OneIs
    <3> QED BY <2>1, <3>1
  <2>3. \A s \in SUBSET S : next[s] = IF s # {} /\ Cardinality(s) = m THEN step[s][run[Others(s)]] ELSE run[s]
    OBVIOUS
  <2> HIDE DEF next
  <2>4. next[{}] = base
    BY <2>1, <2>3
  <2>5. ASSUME NEW s \in SUBSET S, s # {}, Cardinality(s) <= m
        PROVE  next[s] = step[s][next[Others(s)]]
    <3>1. Others(s) \in SUBSET S /\ Cardinality(Others(s)) = Cardinality(s) - 1 /\ Cardinality(s) \in Nat
      BY <2>5, OneIs
    <3>2. next[Others(s)] = run[Others(s)]
      BY <2>3, <2>5, <3>1
    <3>3. CASE Cardinality(s) = m
      BY <2>3, <2>5, <3>2, <3>3
    <3>4. CASE Cardinality(s) # m
      <4>1. Cardinality(s) <= m - 1
        BY <2>5, <3>1, <3>4
      <4>2. run[s] = step[s][run[Others(s)]]
        BY <2>1, <2>5, <4>1
      <4> QED BY <2>3, <3>2, <3>4, <4>2
    <3> QED BY <3>3, <3>4
  <2>6. UpTo(next, m)
    BY <2>2, <2>4, <2>5
  <2> QED BY <2>6
<1> HIDE DEF L, n
<1>4. 0 .. n \subseteq L
  BY <1>1, <1>2, <1>3, Climb
<1>5. n \in L
  BY <1>1, <1>4
<1>6. PICK run : UpTo(run, n)
  BY <1>5 DEF L
<1>7. \A s \in SUBSET S : Cardinality(s) <= n
  BY <1>1, OneIs DEF n
<1> QED BY <1>6, <1>7 DEF FoldsBy

\* A sum and a product take the values of a function one by one.
LEMMA SumIs ==
  ASSUME NEW D, IsFiniteSet(D), NEW f \in [D -> Int]
  PROVE  \E run \in [SUBSET D -> Int] :
           /\ run[{}] = 0 /\ \A s \in SUBSET D : s # {} => run[s] = f[One(s)] + run[Others(s)]
           /\ SumFunction(f) = run[D]
<1> DEFINE IsRun(run) == run = [s \in SUBSET D |->
                                  IF s = {} THEN 0
                                  ELSE LET x == CHOOSE x \in s : TRUE IN f[x] + run[s \ {x}]]
           sum == CHOOSE run : IsRun(run)
<1>1. \E run : IsRun(run)
  <2> DEFINE step == [s \in SUBSET D |-> [v \in Int |-> IF s = {} THEN 0 ELSE f[One(s)] + v]]
  <2>1. step \in [SUBSET D -> [Int -> Int]]
    <3>1. ASSUME NEW s \in SUBSET D, s # {} PROVE f[One(s)] \in Int
      BY <3>1, OneIs
    <3> QED BY <3>1
  <2>2. \A s \in SUBSET D, v \in Int : s # {} => step[s][v] = f[One(s)] + v
    OBVIOUS
  <2> HIDE DEF step
  <2>3. PICK run : FoldsBy(run, D, Int, 0, step)
    <3> DEFINE V == Int
    <3>1. 0 \in V /\ step \in [SUBSET D -> [V -> V]]
      BY <2>1
    <3> HIDE DEF V
    <3>2. \E run : FoldsBy(run, D, V, 0, step)
      BY <3>1, FoldExists
    <3> QED BY <3>2 DEF V
  <2>4. ASSUME NEW s \in SUBSET D, s # {} PROVE run[s] = f[One(s)] + run[Others(s)]
    <3>1. Others(s) \in SUBSET D
      BY <2>4, OneIs
    <3>2. run[Others(s)] \in Int /\ run[s] = step[s][run[Others(s)]]
      BY <2>3, <2>4, <3>1 DEF FoldsBy
    <3> QED BY <2>2, <2>4, <3>2
  <2>5. run = [s \in SUBSET D |-> run[s]] /\ run[{}] = 0
    BY <2>3 DEF FoldsBy
  <2>6. ASSUME NEW s \in SUBSET D
        PROVE  run[s] = IF s = {} THEN 0 ELSE LET x == CHOOSE x \in s : TRUE IN f[x] + run[s \ {x}]
    BY <2>4, <2>5 DEF One, Others
  <2>7. IsRun(run)
    BY <2>5, <2>6, Zenon
  <2> QED BY <2>7
<1>2. IsRun(sum)
  BY <1>1
<1>3. SumFunction(f) = sum[D]
  <2>1. D = DOMAIN f
    OBVIOUS
  <2> QED BY <2>1 DEF SumFunction, SumFunctionOnSet, FoldFunctionOnSet, MapThenFoldSet
<1> HIDE DEF sum
<1>4. sum[{}] = 0 /\ \A s \in SUBSET D : s # {} => sum[s] = f[One(s)] + sum[Others(s)]
  <2> DEFINE next(s) == IF s = {} THEN 0 ELSE LET x == CHOOSE x \in s : TRUE IN f[x] + sum[s \ {x}]
  <2>1. sum = [s \in SUBSET D |-> next(s)]
    BY <1>2
  <2> HIDE DEF next
  <2>2. \A s \in SUBSET D : sum[s] = next(s)
    BY <2>1
  <2> QED BY <2>2 DEF next, One, Others
<1>5. sum = [s \in SUBSET D |-> sum[s]]
  BY <1>2
<1> HIDE DEF IsRun
<1>6. \A s \in SUBSET D : sum[s] \in Int
  <2> DEFINE T == {s \in SUBSET D : sum[s] \in Int}
  <2>1. {} \in T
    BY <1>4
  <2>2. ASSUME NEW s \in SUBSET D, s # {}, Others(s) \in T PROVE s \in T
    BY <1>4, <2>2, OneIs
  <2> HIDE DEF T
  <2>3. SUBSET D \subseteq T
    BY <2>1, <2>2, FoldInduction
  <2> QED BY <2>3 DEF T
<1>7. sum \in [SUBSET D -> Int]
  BY <1>5, <1>6
<1> QED BY <1>3, <1>4, <1>7
\* The same for a product of natural numbers.
LEMMA ProductIs ==
  ASSUME NEW D, IsFiniteSet(D), NEW f \in [D -> Nat]
  PROVE  \E run \in [SUBSET D -> Nat] :
           /\ run[{}] = 1 /\ \A s \in SUBSET D : s # {} => run[s] = f[One(s)] * run[Others(s)]
           /\ ProductOf(f) = run[D]
<1> DEFINE IsRun(run) == run = [s \in SUBSET D |->
                                  IF s = {} THEN 1
                                  ELSE LET x == CHOOSE x \in s : TRUE IN f[x] * run[s \ {x}]]
           product == CHOOSE run : IsRun(run)
<1>1. \E run : IsRun(run)
  <2> DEFINE step == [s \in SUBSET D |-> [v \in Nat |-> IF s = {} THEN 1 ELSE f[One(s)] * v]]
  <2>1. step \in [SUBSET D -> [Nat -> Nat]]
    <3>1. ASSUME NEW s \in SUBSET D, s # {} PROVE f[One(s)] \in Nat
      BY <3>1, OneIs
    <3> QED BY <3>1
  <2>2. \A s \in SUBSET D, v \in Nat : s # {} => step[s][v] = f[One(s)] * v
    OBVIOUS
  <2> HIDE DEF step
  <2>3. PICK run : FoldsBy(run, D, Nat, 1, step)
    <3> DEFINE V == Nat
    <3>1. 1 \in V /\ step \in [SUBSET D -> [V -> V]]
      BY <2>1
    <3> HIDE DEF V
    <3>2. \E run : FoldsBy(run, D, V, 1, step)
      BY <3>1, FoldExists
    <3> QED BY <3>2 DEF V
  <2>4. ASSUME NEW s \in SUBSET D, s # {} PROVE run[s] = f[One(s)] * run[Others(s)]
    <3>1. Others(s) \in SUBSET D
      BY <2>4, OneIs
    <3>2. run[Others(s)] \in Nat /\ run[s] = step[s][run[Others(s)]]
      BY <2>3, <2>4, <3>1 DEF FoldsBy
    <3> QED BY <2>2, <2>4, <3>2
  <2>5. run = [s \in SUBSET D |-> run[s]] /\ run[{}] = 1
    BY <2>3 DEF FoldsBy
  <2>6. ASSUME NEW s \in SUBSET D
        PROVE  run[s] = IF s = {} THEN 1 ELSE LET x == CHOOSE x \in s : TRUE IN f[x] * run[s \ {x}]
    BY <2>4, <2>5 DEF One, Others
  <2>7. IsRun(run)
    BY <2>5, <2>6, Zenon
  <2> QED BY <2>7
<1>2. IsRun(product)
  BY <1>1
<1>3. ProductOf(f) = product[D]
  <2>1. D = DOMAIN f
    OBVIOUS
  <2> QED BY <2>1 DEF ProductOf, FoldFunction, FoldFunctionOnSet, MapThenFoldSet
<1> HIDE DEF product
<1>4. product[{}] = 1 /\ \A s \in SUBSET D : s # {} => product[s] = f[One(s)] * product[Others(s)]
  <2> DEFINE next(s) == IF s = {} THEN 1 ELSE LET x == CHOOSE x \in s : TRUE IN f[x] * product[s \ {x}]
  <2>1. product = [s \in SUBSET D |-> next(s)]
    BY <1>2
  <2> HIDE DEF next
  <2>2. \A s \in SUBSET D : product[s] = next(s)
    BY <2>1
  <2> QED BY <2>2 DEF next, One, Others
<1>5. product = [s \in SUBSET D |-> product[s]]
  BY <1>2
<1> HIDE DEF IsRun
<1>6. \A s \in SUBSET D : product[s] \in Nat
  <2> DEFINE T == {s \in SUBSET D : product[s] \in Nat}
  <2>1. {} \in T
    BY <1>4
  <2>2. ASSUME NEW s \in SUBSET D, s # {}, Others(s) \in T PROVE s \in T
    BY <1>4, <2>2, OneIs
  <2> HIDE DEF T
  <2>3. SUBSET D \subseteq T
    BY <2>1, <2>2, FoldInduction
  <2> QED BY <2>3 DEF T
<1>7. product \in [SUBSET D -> Nat]
  BY <1>5, <1>6
<1> QED BY <1>3, <1>4, <1>7

\* A function that is nowhere smaller has no smaller sum, and no smaller product.
LEMMA SumRises ==
  ASSUME NEW D, IsFiniteSet(D), NEW f \in [D -> Int], NEW g \in [D -> Int],
         \A d \in D : g[d] >= f[d]
  PROVE  SumFunction(f) \in Int /\ SumFunction(g) \in Int /\ SumFunction(g) >= SumFunction(f)
<1>1. PICK a \in [SUBSET D -> Int] :
        /\ a[{}] = 0 /\ \A s \in SUBSET D : s # {} => a[s] = f[One(s)] + a[Others(s)]
        /\ SumFunction(f) = a[D]
  BY SumIs
<1>2. PICK b \in [SUBSET D -> Int] :
        /\ b[{}] = 0 /\ \A s \in SUBSET D : s # {} => b[s] = g[One(s)] + b[Others(s)]
        /\ SumFunction(g) = b[D]
  BY SumIs
<1> DEFINE T == {s \in SUBSET D : b[s] >= a[s]}
<1>3. {} \in T
  BY <1>1, <1>2
<1>4. ASSUME NEW s \in SUBSET D, s # {}, Others(s) \in T PROVE s \in T
  <2>1. One(s) \in D /\ Others(s) \in SUBSET D /\ b[Others(s)] >= a[Others(s)]
    BY <1>4, OneIs
  <2>2. g[One(s)] >= f[One(s)] /\ g[One(s)] \in Int /\ f[One(s)] \in Int
    BY <2>1
  <2>3. a[Others(s)] \in Int /\ b[Others(s)] \in Int
    BY <2>1
  <2>4. a[s] = f[One(s)] + a[Others(s)] /\ b[s] = g[One(s)] + b[Others(s)]
    BY <1>1, <1>2, <1>4
  <2> QED BY <2>1, <2>2, <2>3, <2>4
<1> HIDE DEF T
<1>5. SUBSET D \subseteq T
  BY <1>3, <1>4, FoldInduction
<1>6. D \in T
  BY <1>5
<1> QED BY <1>1, <1>2, <1>6 DEF T

\* Larger factors have a larger product.
LEMMA ProductsRise ==
  ASSUME NEW a \in Nat, NEW b \in Nat, NEW c \in Nat, NEW d \in Nat, c >= a, d >= b
  PROVE  c * d >= a * b
<1> DEFINE x == c - a
           y == d - b
<1>1. x \in Nat /\ y \in Nat /\ c = a + x /\ d = b + y
  OBVIOUS
<1> HIDE DEF x, y
<1>2. (a + x) * (b + y) = a * b + a * y + x * b + x * y
  BY <1>1
<1>3. a * b \in Nat /\ a * y \in Nat /\ x * b \in Nat /\ x * y \in Nat
  BY <1>1
<1> QED BY <1>1, <1>2, <1>3

\* The same for products.
LEMMA ProductRises ==
  ASSUME NEW D, IsFiniteSet(D), NEW f \in [D -> Nat], NEW g \in [D -> Nat],
         \A d \in D : g[d] >= f[d]
  PROVE  ProductOf(f) \in Nat /\ ProductOf(g) \in Nat /\ ProductOf(g) >= ProductOf(f)
<1>1. PICK a \in [SUBSET D -> Nat] :
        /\ a[{}] = 1 /\ \A s \in SUBSET D : s # {} => a[s] = f[One(s)] * a[Others(s)]
        /\ ProductOf(f) = a[D]
  BY ProductIs
<1>2. PICK b \in [SUBSET D -> Nat] :
        /\ b[{}] = 1 /\ \A s \in SUBSET D : s # {} => b[s] = g[One(s)] * b[Others(s)]
        /\ ProductOf(g) = b[D]
  BY ProductIs
<1> DEFINE T == {s \in SUBSET D : b[s] >= a[s]}
<1>3. {} \in T
  BY <1>1, <1>2
<1>4. ASSUME NEW s \in SUBSET D, s # {}, Others(s) \in T PROVE s \in T
  <2>1. One(s) \in D /\ Others(s) \in SUBSET D /\ b[Others(s)] >= a[Others(s)]
    BY <1>4, OneIs
  <2>2. g[One(s)] >= f[One(s)] /\ g[One(s)] \in Nat /\ f[One(s)] \in Nat
    BY <2>1
  <2>3. a[Others(s)] \in Nat /\ b[Others(s)] \in Nat
    BY <2>1
  <2>4. a[s] = f[One(s)] * a[Others(s)] /\ b[s] = g[One(s)] * b[Others(s)]
    BY <1>1, <1>2, <1>4
  <2>5. g[One(s)] * b[Others(s)] >= f[One(s)] * a[Others(s)]
    BY <2>1, <2>2, <2>3, ProductsRise
  <2> QED BY <2>4, <2>5
<1> HIDE DEF T
<1>5. SUBSET D \subseteq T
  BY <1>3, <1>4, FoldInduction
<1>6. D \in T
  BY <1>5
<1> QED BY <1>1, <1>2, <1>6 DEF T

\* If it is somewhere smaller, so is its sum.
LEMMA SumFalls ==
  ASSUME NEW D, IsFiniteSet(D), NEW f \in [D -> Int], NEW g \in [D -> Int],
         \A d \in D : g[d] >= f[d], NEW c \in D, f[c] < g[c]
  PROVE  SumFunction(f) < SumFunction(g)
<1>1. PICK a \in [SUBSET D -> Int] :
        /\ a[{}] = 0 /\ \A s \in SUBSET D : s # {} => a[s] = f[One(s)] + a[Others(s)]
        /\ SumFunction(f) = a[D]
  BY SumIs
<1>2. PICK b \in [SUBSET D -> Int] :
        /\ b[{}] = 0 /\ \A s \in SUBSET D : s # {} => b[s] = g[One(s)] + b[Others(s)]
        /\ SumFunction(g) = b[D]
  BY SumIs
<1> DEFINE T == {s \in SUBSET D : b[s] >= a[s] /\ (c \in s => b[s] > a[s])}
<1>3. {} \in T
  BY <1>1, <1>2
<1>4. ASSUME NEW s \in SUBSET D, s # {}, Others(s) \in T PROVE s \in T
  <2>1. /\ One(s) \in D /\ Others(s) \in SUBSET D /\ b[Others(s)] >= a[Others(s)]
        /\ c \in Others(s) => b[Others(s)] > a[Others(s)]
    BY <1>4, OneIs
  <2>2. g[One(s)] >= f[One(s)] /\ g[One(s)] \in Int /\ f[One(s)] \in Int
    BY <2>1
  <2>3. a[Others(s)] \in Int /\ b[Others(s)] \in Int
    BY <2>1
  <2>4. a[s] = f[One(s)] + a[Others(s)] /\ b[s] = g[One(s)] + b[Others(s)]
    BY <1>1, <1>2, <1>4
  <2>5. c \in s => c = One(s) \/ c \in Others(s)
    BY DEF Others
  <2>6. b[s] >= a[s]
    BY <2>1, <2>2, <2>3, <2>4
  <2>7. CASE c = One(s)
    BY <2>1, <2>2, <2>3, <2>4, <2>6, <2>7
  <2>8. CASE c # One(s)
    BY <2>1, <2>2, <2>3, <2>4, <2>5, <2>6, <2>8
  <2> QED BY <2>7, <2>8
<1> HIDE DEF T
<1>5. SUBSET D \subseteq T
  BY <1>3, <1>4, FoldInduction
<1>6. D \in T
  BY <1>5
<1> QED BY <1>1, <1>2, <1>6 DEF T

\* A sum of zeros is zero.
LEMMA SumOfNothing ==
  ASSUME NEW D, IsFiniteSet(D), NEW f \in [D -> Int], \A d \in D : f[d] = 0
  PROVE  SumFunction(f) = 0
<1>1. PICK a \in [SUBSET D -> Int] :
        /\ a[{}] = 0 /\ \A s \in SUBSET D : s # {} => a[s] = f[One(s)] + a[Others(s)]
        /\ SumFunction(f) = a[D]
  BY SumIs
<1> DEFINE T == {s \in SUBSET D : a[s] = 0}
<1>2. {} \in T
  BY <1>1
<1>3. ASSUME NEW s \in SUBSET D, s # {}, Others(s) \in T PROVE s \in T
  BY <1>1, <1>3, OneIs
<1> HIDE DEF T
<1>4. SUBSET D \subseteq T
  BY <1>2, <1>3, FoldInduction
<1>5. D \in T
  BY <1>4
<1> QED BY <1>1, <1>5 DEF T

----------------------------------------------------------------------------
(* The evaluation matrix.                                                  *)

Active == {"queued", "stats", "stdout", "stderr", "record", "raised"}

\* What the last invocation makes true of one job.
JobInv(j) ==
  LET d == disk[j]
  IN  /\ d.record.at <= invocation
      /\ stage[j] \in Active =>
           running /\ d.record.at < invocation /\ (resume => ~Completed(j))
      /\ stage[j] = "done" => running /\ d.record.status # "unreadable"
      /\ stage[j] \in {"stderr", "record"} => d.stdout = invocation
      /\ stage[j] = "record" => d.stderr = invocation
      /\ running /\ stage[j] = "idle" => Completed(j)
      /\ Completed(j) /\ d.record.at >= fresh => d.stdout = d.record.at /\ d.stderr = d.record.at

CampaignInv ==
  /\ fresh <= invocation
  /\ running /\ ~resume => fresh = invocation

Inv ==
  /\ TypeOK
  /\ CampaignInv
  /\ \A j \in Job : JobInv(j)

\* The types of the files of a job.
LEMMA FilesFacts ==
  ASSUME NEW d \in Files
  PROVE  /\ d.record.at \in Int /\ d.stdout \in Int /\ d.stderr \in Int
         /\ d.record.status \in {"completed", "failed", "unreadable"}
<1> QED BY MatrixAssumption DEF Files, Version, Torn

Stages == {"idle", "queued", "stats", "stdout", "stderr", "record", "done", "raised"}

\* Before the first invocation everything has its type.
LEMMA InitType == Init => TypeOK
<1> SUFFICES ASSUME Init PROVE TypeOK
  OBVIOUS
<1>1. Busy = {}
  BY DEF Init, Busy
<1>2. Cardinality(Busy) <= workers
  BY <1>1, FS_EmptySet DEF Init
<1>3. disk \in [Job -> Files]
  <2>1. 0 \in Version
    BY MatrixAssumption DEF Version, Torn
  <2> QED BY <2>1 DEF Init, Files
<1>4. summary \in Summaries
  <2>1. 0 \in Version
    BY MatrixAssumption DEF Version, Torn
  <2> QED BY <2>1 DEF Init, Summaries
<1>5. stage \in [Job -> Stages] /\ verdict \in [Job -> {"completed", "failed"}]
  BY DEF Init, Stages
<1>6. script \in Scripts /\ {running, resume} \subseteq BOOLEAN
  BY DEF Init
<1>7. workers \in 1 .. MaxWorkers /\ 0 \in 0 .. MaxInvocations
  BY MatrixAssumption DEF Init
<1>8. {invocation, fresh} \subseteq 0 .. MaxInvocations
  BY <1>7 DEF Init
<1> QED BY <1>2, <1>3, <1>4, <1>5, <1>6, <1>7, <1>8 DEF TypeOK, Stages

\* Nothing has run, so no record has to vouch for anything.
LEMMA InitInv == Init => Inv
<1> SUFFICES ASSUME Init PROVE Inv
  OBVIOUS
<1>1. \A j \in Job : JobInv(j)
  BY MatrixAssumption DEF Init, JobInv, Active, Completed
<1>2. CampaignInv
  BY MatrixAssumption DEF Init, CampaignInv
<1> QED BY <1>1, <1>2, InitType DEF Inv

----------------------------------------------------------------------------
(* Types.                                                                  *)

\* TypeOK, conjunct by conjunct for one job.
LEMMA TypeFacts ==
  ASSUME TypeOK
  PROVE  /\ script \in Scripts /\ running \in BOOLEAN /\ resume \in BOOLEAN
         /\ workers \in 1 .. MaxWorkers
         /\ invocation \in 0 .. MaxInvocations /\ fresh \in 0 .. MaxInvocations
         /\ stage \in [Job -> Stages] /\ verdict \in [Job -> {"completed", "failed"}]
         /\ disk \in [Job -> Files] /\ summary \in Summaries
         /\ invocation \in Version /\ Torn \in Version
         /\ invocation \in Nat /\ fresh \in Nat
<1> QED BY MatrixAssumption DEF TypeOK, Stages, Version, Torn

\* A step that keeps the types of what it changes, and sends no job to a worker.
LEMMA TypeStep ==
  ASSUME TypeOK, UNCHANGED <<script, resume, workers, invocation, fresh>>,
         running' \in BOOLEAN, stage' \in [Job -> Stages],
         verdict' \in [Job -> {"completed", "failed"}],
         disk' \in [Job -> Files], summary' \in Summaries,
         \A j \in Job : stage'[j] \in {"stats", "stdout", "stderr", "record"} => j \in Busy
  PROVE  TypeOK'
<1>1. Busy' \subseteq Busy /\ Busy \subseteq Job
  BY DEF Busy
<1>2. IsFiniteSet(Busy) /\ IsFiniteSet(Busy')
  BY <1>1, FS_Subset, MatrixAssumption
<1>3. Cardinality(Busy') <= Cardinality(Busy)
  BY <1>1, <1>2, FS_Subset
<1>4. Cardinality(Busy) \in Nat /\ Cardinality(Busy') \in Nat
  BY <1>2, FS_CardinalityType
<1>5. Cardinality(Busy)' <= workers'
  <2>1. Cardinality(Busy) <= workers /\ workers \in Int
    BY DEF TypeOK
  <2> QED BY <1>3, <1>4, <2>1
<1>6. running' \in BOOLEAN /\ resume' \in BOOLEAN
  BY TypeFacts
<1> QED BY <1>5, <1>6, TypeFacts DEF TypeOK, Stages

\* A write that stops in the middle leaves a file of that name.
LEMMA TornFilesType ==
  ASSUME TypeOK, NEW j \in Job
  PROVE  TornFiles(j) \in Files
<1>1. disk[j] \in Files /\ Torn \in Version
  BY TypeFacts
<1>2. CASE stage[j] = "stats"
  BY <1>1, <1>2 DEF TornFiles, Files
<1>3. CASE stage[j] = "stdout"
  BY <1>1, <1>3 DEF TornFiles, Files
<1>4. CASE stage[j] = "stderr"
  BY <1>1, <1>4 DEF TornFiles, Files
<1>5. CASE stage[j] = "record"
  BY <1>1, <1>5 DEF TornFiles, Files
<1>6. CASE stage[j] \notin {"stats", "stdout", "stderr", "record"}
  BY <1>1, <1>6 DEF TornFiles
<1> QED BY <1>2, <1>3, <1>4, <1>5, <1>6

\* Submitting the jobs: queued jobs are not at work yet.
LEMMA StartType ==
  ASSUME TypeOK, NEW resuming \in BOOLEAN, NEW n \in 1 .. MaxWorkers, Start(resuming, n)
  PROVE  TypeOK'
<1>1. stage' \in [Job -> Stages] /\ Busy' = {}
  BY DEF Start, Stages, Busy
<1>2. Cardinality(Busy)' <= workers'
  BY <1>1, FS_EmptySet, MatrixAssumption DEF Start
<1>3. invocation' \in 0 .. MaxInvocations /\ fresh' \in 0 .. MaxInvocations
  BY TypeFacts, MatrixAssumption DEF Start
<1>4. running' \in BOOLEAN /\ resume' \in BOOLEAN /\ workers' \in 1 .. MaxWorkers
  BY DEF Start
<1> QED BY <1>1, <1>2, <1>3, <1>4, TypeFacts DEF Start, TypeOK, Stages

\* A worker takes a job only when fewer than workers are at work.
LEMMA BeginType ==
  ASSUME TypeOK, NEW j \in Job, Begin(j)
  PROVE  TypeOK'
<1>1. stage' \in [Job -> Stages] /\ Busy' = Busy \cup {j} /\ j \notin Busy
  BY TypeFacts DEF Begin, Stages, Busy
<1>2. IsFiniteSet(Busy) /\ Cardinality(Busy) \in Nat
  BY FS_Subset, FS_CardinalityType, MatrixAssumption DEF Busy
<1>3. Cardinality(Busy') = Cardinality(Busy) + 1
  BY <1>1, <1>2, FS_AddElement
<1>4. Cardinality(Busy)' <= workers'
  BY <1>2, <1>3, TypeFacts DEF Begin
<1> QED BY <1>1, <1>4, TypeFacts DEF Begin, TypeOK, Stages

\* What run_one() does with one job.
RunsOne(j) ==
  \/ \E succeeds, writes, traces \in BOOLEAN : ChampsimEnds(j, succeeds, writes, traces)
  \/ WriteStdout(j)
  \/ WriteStderr(j)
  \/ WriteRecord(j)
  \/ WriteRaises(j)
  \/ StartRaises(j)

\* It moves that job alone, and writes the files of that job alone.
LEMMA RunsOneFrame ==
  ASSUME TypeOK, NEW j \in Job, RunsOne(j)
  PROVE  /\ UNCHANGED <<script, running, resume, workers, invocation, summary, fresh>>
         /\ stage[j] \in {"stats", "stdout", "stderr", "record"}
         /\ stage' \in [Job -> Stages] /\ disk' \in [Job -> Files]
         /\ verdict' \in [Job -> {"completed", "failed"}]
         /\ \A i \in Job \ {j} : stage'[i] = stage[i] /\ disk'[i] = disk[i]
<1>1. /\ stage \in [Job -> Stages] /\ disk \in [Job -> Files] /\ disk[j] \in Files
      /\ verdict \in [Job -> {"completed", "failed"}] /\ verdict[j] \in {"completed", "failed"}
      /\ invocation \in Version
  BY TypeFacts
<1>2. ASSUME NEW succeeds \in BOOLEAN, NEW writes \in BOOLEAN, NEW traces \in BOOLEAN,
             ChampsimEnds(j, succeeds, writes, traces)
      PROVE  /\ stage' \in [Job -> Stages] /\ disk' \in [Job -> Files]
             /\ verdict' \in [Job -> {"completed", "failed"}]
             /\ \A i \in Job \ {j} : stage'[i] = stage[i] /\ disk'[i] = disk[i]
  <2> DEFINE files == [disk[j] EXCEPT !.stats = disk[j].stats \/ writes,
                                      !.events = disk[j].events \/ traces]
  <2>1. files \in Files
    BY <1>1 DEF Files
  <2>2. Settled(succeeds, files) \in {"completed", "failed"}
    BY DEF Settled
  <2>3. /\ disk' = [disk EXCEPT ![j] = files] /\ stage' = [stage EXCEPT ![j] = "stdout"]
        /\ verdict' = [verdict EXCEPT ![j] = Settled(succeeds, files)]
    BY <1>2 DEF ChampsimEnds
  <2> HIDE DEF files
  <2> QED BY <1>1, <2>1, <2>2, <2>3 DEF Stages
<1>3. CASE WriteStdout(j)
  <2>1. [disk[j] EXCEPT !.stdout = invocation] \in Files
    BY <1>1 DEF Files
  <2>2. disk' = [disk EXCEPT ![j] = [disk[j] EXCEPT !.stdout = invocation]]
    BY <1>3 DEF WriteStdout
  <2> QED BY <1>1, <1>3, <2>1, <2>2 DEF WriteStdout, Stages
<1>4. CASE WriteStderr(j)
  <2>1. [disk[j] EXCEPT !.stderr = invocation] \in Files
    BY <1>1 DEF Files
  <2>2. disk' = [disk EXCEPT ![j] = [disk[j] EXCEPT !.stderr = invocation]]
    BY <1>4 DEF WriteStderr
  <2> QED BY <1>1, <1>4, <2>1, <2>2 DEF WriteStderr, Stages
<1>5. CASE WriteRecord(j)
  <2> DEFINE files == [disk[j] EXCEPT !.record = [at |-> invocation, status |-> verdict[j]]]
  <2>1. files \in Files
    BY <1>1 DEF Files
  <2>2. disk' = [disk EXCEPT ![j] = files]
    BY <1>5 DEF WriteRecord
  <2> HIDE DEF files
  <2> QED BY <1>1, <1>5, <2>1, <2>2 DEF WriteRecord, Stages
<1>6. CASE WriteRaises(j)
  BY <1>1, <1>6, TornFilesType DEF WriteRaises, Stages
<1>7. CASE StartRaises(j)
  BY <1>1, <1>7 DEF StartRaises, Stages
<1>8. /\ UNCHANGED <<script, running, resume, workers, invocation, summary, fresh>>
      /\ stage[j] \in {"stats", "stdout", "stderr", "record"}
  BY DEF RunsOne, ChampsimEnds, WriteStdout, WriteStderr, WriteRecord, WriteRaises, StartRaises
<1> QED BY <1>2, <1>3, <1>4, <1>5, <1>6, <1>7, <1>8 DEF RunsOne

\* The invocation stops: with a summary, an exception or a kill.
Ends == Summarise \/ Abort \/ Crash

\* The last run_one()s leave the files of the jobs at work whole or torn.
LEMMA EndsFrame ==
  ASSUME TypeOK, Ends
  PROVE  /\ UNCHANGED <<script, resume, workers, invocation, fresh>>
         /\ running' = FALSE /\ stage' = [j \in Job |-> "idle"]
         /\ verdict' = [j \in Job |-> "failed"]
         /\ disk' \in [Job -> Files] /\ summary' \in Summaries
         /\ \A j \in Job : disk'[j] = disk[j] \/ (j \in Busy /\ disk'[j] = TornFiles(j))
<1>1. disk \in [Job -> Files] /\ summary \in Summaries /\ Torn \in Version /\ invocation \in Version
  BY TypeFacts
<1>2. /\ UNCHANGED <<script, resume, workers, invocation, fresh>>
      /\ running' = FALSE /\ stage' = [j \in Job |-> "idle"]
      /\ verdict' = [j \in Job |-> "failed"]
  BY DEF Ends, Summarise, Abort, Crash, Stopped
<1>3. CASE Summarise
  <2>1. Verdict \in {"completed", "partial_or_failed"}
    BY DEF Verdict
  <2> QED BY <1>1, <1>2, <1>3, <2>1 DEF Summarise, Summaries
<1>4. CASE Abort
  BY <1>1, <1>2, <1>4 DEF Abort
<1>5. CASE Crash
  <2>1. summary' \in Summaries
    BY <1>1, <1>5 DEF Crash, Summaries
  <2>2. PICK torn \in SUBSET Busy : disk' = [j \in Job |-> IF j \in torn THEN TornFiles(j) ELSE disk[j]]
    BY <1>5 DEF Crash
  <2> QED BY <1>1, <1>2, <2>1, <2>2, TornFilesType
<1> QED BY <1>3, <1>4, <1>5 DEF Ends

\* A step starts an invocation, or moves one job, or ends an invocation, or stutters.
LEMMA StepCases ==
  ASSUME Next
  PROVE  \/ \E resuming \in BOOLEAN, n \in 1 .. MaxWorkers : Start(resuming, n)
         \/ \E j \in Job : Begin(j) \/ RunsOne(j)
         \/ Ends
<1> QED BY DEF Next, Work, RunsOne, Ends

\* Every step keeps the types, whatever crashes or raises.
LEMMA StepType == TypeOK /\ [Next]_vars => TypeOK'
<1> SUFFICES ASSUME TypeOK, [Next]_vars PROVE TypeOK'
  OBVIOUS
<1>1. CASE UNCHANGED vars
  BY <1>1 DEF vars, TypeOK, Busy
<1>2. ASSUME NEW j \in Job, RunsOne(j) PROVE TypeOK'
  <2>1. \A i \in Job : stage'[i] \in {"stats", "stdout", "stderr", "record"} => i \in Busy
    BY <1>2, RunsOneFrame DEF Busy
  <2>2. running' \in BOOLEAN /\ summary' \in Summaries
    BY <1>2, RunsOneFrame, TypeFacts
  <2> QED BY <1>2, <2>1, <2>2, RunsOneFrame, TypeStep
<1>3. CASE Ends
  <2>1. stage' \in [Job -> Stages] /\ verdict' \in [Job -> {"completed", "failed"}]
    BY <1>3, EndsFrame DEF Stages
  <2>2. \A i \in Job : stage'[i] \notin {"stats", "stdout", "stderr", "record"}
    BY <1>3, EndsFrame
  <2> QED BY <1>3, <2>1, <2>2, EndsFrame, TypeStep
<1> QED BY <1>1, <1>2, <1>3, StepCases, StartType, BeginType

----------------------------------------------------------------------------
(* What each step makes true of each job.                                  *)

\* What JobInv(j) says depends on job j and on the invocation.
LEMMA JobInvKept ==
  ASSUME NEW j \in Job, JobInv(j), UNCHANGED <<running, resume, invocation, fresh>>,
         stage'[j] = stage[j], disk'[j] = disk[j]
  PROVE  JobInv(j)'
<1> QED BY DEF JobInv, Completed

\* A new invocation: a fresh one owes nothing to the old records.
LEMMA StartJobs ==
  ASSUME Inv, NEW resuming \in BOOLEAN, NEW n \in 1 .. MaxWorkers, Start(resuming, n)
  PROVE  CampaignInv' /\ \A j \in Job : JobInv(j)'
<1>1. invocation \in Nat /\ fresh \in Nat /\ CampaignInv /\ \A j \in Job : JobInv(j)
  BY TypeFacts DEF Inv
<1>2. CampaignInv'
  BY <1>1 DEF Start, CampaignInv
<1>3. ASSUME NEW j \in Job PROVE JobInv(j)'
  <2>1. /\ running' = TRUE /\ resume' = resuming /\ invocation' = invocation + 1
        /\ fresh' = IF resuming THEN fresh ELSE invocation + 1
        /\ stage'[j] = IF ~(resuming /\ Completed(j)) THEN "queued" ELSE "idle"
        /\ disk' = disk
    BY DEF Start, Requested
  <2>2. disk[j].record.at \in Int
    BY TypeFacts, FilesFacts DEF Inv
  <2>3. /\ disk[j].record.at <= invocation
        /\ Completed(j) /\ disk[j].record.at >= fresh =>
             disk[j].stdout = disk[j].record.at /\ disk[j].stderr = disk[j].record.at
    BY <1>1 DEF JobInv
  <2>4. disk[j].record.at < invocation'
    BY <1>1, <2>1, <2>2, <2>3
  <2>5. disk[j].record.at >= fresh' => disk[j].record.at >= fresh
    BY <1>1, <2>1, <2>2, <2>4
  <2> QED BY <1>1, <2>1, <2>2, <2>3, <2>4, <2>5 DEF JobInv, Active, Completed
<1> QED BY <1>2, <1>3

\* A job that is taken was requested, so it has no completed record of this campaign.
LEMMA BeginJobs ==
  ASSUME Inv, NEW j \in Job, Begin(j), NEW i \in Job
  PROVE  JobInv(i)'
<1>1. JobInv(i) /\ stage \in [Job -> Stages]
  BY TypeFacts DEF Inv
<1>2. /\ UNCHANGED <<running, resume, invocation, fresh, disk>> /\ stage[j] = "queued"
      /\ stage' = [stage EXCEPT ![j] = "stats"]
  BY DEF Begin
<1>3. CASE i # j
  BY <1>1, <1>2, <1>3, JobInvKept
<1>4. CASE i = j
  BY <1>1, <1>2, <1>4 DEF JobInv, Active, Completed
<1> QED BY <1>3, <1>4

\* While a job is at work its old record, if it says completed, is of an older
\* campaign, so that none of the files it vouched for is missed.
LEMMA RunsOneJobs ==
  ASSUME Inv, NEW j \in Job, RunsOne(j), NEW i \in Job
  PROVE  JobInv(i)'
<1>1. /\ JobInv(i) /\ stage \in [Job -> Stages] /\ disk \in [Job -> Files]
      /\ verdict[j] \in {"completed", "failed"} /\ invocation \in Nat /\ fresh \in Nat
      /\ CampaignInv
  BY TypeFacts DEF Inv
<1>2. CASE i # j
  BY <1>1, <1>2, RunsOneFrame, JobInvKept DEF Inv
<1>3. CASE i = j
  <2> SUFFICES JobInv(j)'
    BY <1>3
  <2> DEFINE d == disk[j]
             e == disk'[j]
  <2>1. UNCHANGED <<running, resume, invocation, fresh>>
    BY RunsOneFrame DEF Inv
  <2>2. /\ running /\ d.record.at < invocation /\ d.record.at \in Int
        /\ resume => ~Completed(j)
    BY <1>1, <1>3, RunsOneFrame, FilesFacts DEF Inv, JobInv, Active
  <2>3. Completed(j) => d.record.at < fresh
    BY <1>1, <2>2 DEF CampaignInv
  <2>4. /\ stage[j] \in {"stderr", "record"} => d.stdout = invocation
        /\ stage[j] = "record" => d.stderr = invocation
    BY <1>1, <1>3 DEF JobInv
  <2>5. ASSUME NEW succeeds \in BOOLEAN, NEW writes \in BOOLEAN, NEW traces \in BOOLEAN,
               ChampsimEnds(j, succeeds, writes, traces)
        PROVE  JobInv(j)'
    <3>1. e.record = d.record /\ stage'[j] = "stdout"
      BY <1>1, <2>5 DEF ChampsimEnds, Files
    <3> QED BY <1>1, <2>1, <2>2, <2>3, <3>1 DEF JobInv, Active, Completed
  <2>6. CASE WriteStdout(j)
    <3>1. e.record = d.record /\ e.stdout = invocation /\ stage'[j] = "stderr"
      BY <1>1, <2>6 DEF WriteStdout, Files
    <3> QED BY <1>1, <2>1, <2>2, <2>3, <3>1 DEF JobInv, Active, Completed
  <2>7. CASE WriteStderr(j)
    <3>1. /\ e.record = d.record /\ e.stdout = d.stdout /\ e.stderr = invocation
          /\ stage[j] = "stderr" /\ stage'[j] = "record"
      BY <1>1, <2>7 DEF WriteStderr, Files
    <3> QED BY <1>1, <2>1, <2>2, <2>3, <2>4, <3>1 DEF JobInv, Active, Completed
  <2>8. CASE WriteRecord(j)
    <3>1. /\ e.record.at = invocation /\ e.record.status = verdict[j]
          /\ e.stdout = d.stdout /\ e.stderr = d.stderr
          /\ stage[j] = "record" /\ stage'[j] = "done"
      BY <1>1, <2>8 DEF WriteRecord, Files
    <3> QED BY <1>1, <2>1, <2>2, <2>4, <3>1 DEF JobInv, Active, Completed
  <2>9. CASE WriteRaises(j)
    <3>1. /\ stage'[j] = "raised" /\ (e = d \/ e = TornFiles(j))
          /\ stage[j] \in {"stdout", "stderr", "record"}
      BY <1>1, <2>9 DEF WriteRaises
    <3>2. e.record = d.record \/ (e.record.at = Torn /\ e.record.status = "unreadable")
      BY <1>1, <3>1 DEF TornFiles, Files
    <3> QED BY <1>1, <2>1, <2>2, <2>3, <3>1, <3>2 DEF JobInv, Active, Completed, Torn
  <2>10. CASE StartRaises(j)
    <3>1. stage'[j] = "raised" /\ e = d
      BY <1>1, <2>10 DEF StartRaises
    <3> QED BY <1>1, <2>1, <2>2, <2>3, <3>1 DEF JobInv, Active, Completed
  <2> QED BY <2>5, <2>6, <2>7, <2>8, <2>9, <2>10 DEF RunsOne
<1> QED BY <1>2, <1>3

\* The end of an invocation, torn writes included.
LEMMA EndsJobs ==
  ASSUME Inv, Ends, NEW j \in Job
  PROVE  JobInv(j)'
<1> DEFINE d == disk[j]
           e == disk'[j]
<1>1. /\ JobInv(j) /\ d \in Files /\ invocation \in Nat /\ fresh \in Nat /\ CampaignInv
  BY TypeFacts DEF Inv
<1>2. /\ UNCHANGED <<resume, invocation, fresh>> /\ ~running' /\ stage'[j] = "idle"
      /\ e = d \/ (j \in Busy /\ e = TornFiles(j))
  BY EndsFrame DEF Inv
<1>3. d.record.at \in Int
  BY <1>1, FilesFacts
<1>4. CASE e = d
  BY <1>1, <1>2, <1>4 DEF JobInv, Active, Completed
<1>5. CASE j \in Busy /\ e = TornFiles(j)
  <2>1. d.record.at < invocation /\ (Completed(j) => d.record.at < fresh)
    BY <1>1, <1>3, <1>5 DEF JobInv, Busy, Active, CampaignInv
  <2>2. e.record = d.record \/ (e.record.at = Torn /\ e.record.status = "unreadable")
    BY <1>1, <1>5 DEF TornFiles, Files
  <2> QED BY <1>1, <1>2, <1>3, <2>1, <2>2 DEF JobInv, Active, Completed, Torn
<1> QED BY <1>2, <1>4, <1>5

\* The inductive invariant is kept by every step.
LEMMA StepInv == Inv /\ [Next]_vars => Inv'
<1> SUFFICES ASSUME Inv, [Next]_vars PROVE Inv'
  OBVIOUS
<1>1. TypeOK'
  BY StepType DEF Inv
<1>2. CASE UNCHANGED vars
  BY <1>1, <1>2 DEF vars, Inv, CampaignInv, JobInv, Completed
<1>3. ASSUME NEW resuming \in BOOLEAN, NEW n \in 1 .. MaxWorkers, Start(resuming, n)
      PROVE  Inv'
  BY <1>1, <1>3, StartJobs DEF Inv
<1>4. ASSUME NEW j \in Job, Begin(j) PROVE Inv'
  <2>1. CampaignInv'
    BY <1>4 DEF Begin, Inv, CampaignInv
  <2> QED BY <1>1, <1>4, <2>1, BeginJobs DEF Inv
<1>5. ASSUME NEW j \in Job, RunsOne(j) PROVE Inv'
  <2>1. CampaignInv'
    BY <1>5, RunsOneFrame DEF Inv, CampaignInv
  <2> QED BY <1>1, <1>5, <2>1, RunsOneJobs DEF Inv
<1>6. CASE Ends
  <2>1. CampaignInv'
    BY <1>6, EndsFrame DEF Inv, CampaignInv
  <2> QED BY <1>1, <1>6, <2>1, EndsJobs DEF Inv
<1> QED BY <1>2, <1>3, <1>4, <1>5, <1>6, StepCases

\* So it always holds.
LEMMA Invariance == Spec => []Inv
<1> QED BY InitInv, StepInv, PTL DEF Spec

----------------------------------------------------------------------------
\* Type correctness, and never more workers than were asked for.
THEOREM TypeCorrect == Spec => []TypeOK
<1>1. Inv => TypeOK
  BY DEF Inv
<1> QED BY <1>1, Invariance, PTL

\* A completed record vouches for the logs beside it, through crashes, failed
\* writes and resumed invocations.
THEOREM RecordsVouch == Spec => []RecordVouches
<1>1. Inv => RecordVouches
  BY DEF Inv, JobInv, RecordVouches
<1> QED BY <1>1, Invariance, PTL

\* Resuming never touches a run that completed.
THEOREM ResumeKeeps == Spec => ResumeKeepsCompleted
<1>1. Inv /\ [Next]_vars =>
        [\A j \in Job : (running /\ resume /\ Completed(j)) => disk'[j] = disk[j]]_vars
  <2> SUFFICES ASSUME Inv, [Next]_vars, NEW i \in Job, running, resume, Completed(i)
      PROVE  disk'[i] = disk[i]
    OBVIOUS
  <2>1. JobInv(i) /\ TypeOK /\ stage[i] \notin Active
    BY DEF Inv, JobInv
  <2>2. ASSUME NEW j \in Job, RunsOne(j) PROVE disk'[i] = disk[i]
    BY <2>1, <2>2, RunsOneFrame DEF Active
  <2>3. CASE Ends
    BY <2>1, <2>3, EndsFrame DEF Busy, Active
  <2>4. ASSUME NEW j \in Job, Begin(j) PROVE disk'[i] = disk[i]
    BY <2>4 DEF Begin
  <2>5. ASSUME NEW resuming \in BOOLEAN, NEW n \in 1 .. MaxWorkers, Start(resuming, n)
        PROVE  disk'[i] = disk[i]
    BY <2>5 DEF Start
  <2>6. CASE UNCHANGED vars
    BY <2>6 DEF vars
  <2> QED BY <2>2, <2>3, <2>4, <2>5, <2>6, StepCases
<1> QED BY <1>1, Invariance, PTL DEF Spec, ResumeKeepsCompleted

\* A summary that says completed is true of every job when it is written, with
\* either script's test.
THEOREM SummariesTrue == Spec => SummaryTrue
<1>1. Inv /\ [Next]_vars =>
        [(summary' # summary /\ summary'.status = "completed") => \A j \in Job : Completed(j)]_vars
  <2> SUFFICES ASSUME Inv, [Next]_vars, summary' # summary, summary'.status = "completed",
                      NEW j \in Job
      PROVE  Completed(j)
    OBVIOUS
  <2>1. Summarise
    <3>1. \A i \in Job : RunsOne(i) => summary' = summary
      BY RunsOneFrame DEF Inv
    <3>2. Crash => summary' = summary \/ summary'.status = "unreadable"
      BY DEF Crash
    <3> QED BY <3>1, <3>2, StepCases DEF Start, Begin, Abort, Ends, vars
  <2>2. stage[j] \in {"idle", "done"} /\ running
    BY <2>1 DEF Summarise, Drained, Raised
  <2>3. Completed(j) \/ j \in Readable
    BY <2>2 DEF Inv, JobInv, Readable
  <2>4. \A i \in Readable : Completed(i)
    BY <2>1 DEF Summarise, Verdict, NoneFailed, AllAccounted
  <2> QED BY <2>3, <2>4
<1> QED BY <1>1, Invariance, PTL DEF Spec, SummaryTrue

----------------------------------------------------------------------------
(* An invocation winds down: what is left of InvocationEnds when fairness  *)
(* is taken away.                                                          *)

\* The steps that run_one() still has to make for a job in each stage, and for all jobs.
StepsAfter ==
  [at \in Stages |->
     CASE at = "queued" -> 5
       [] at = "stats"  -> 4
       [] at = "stdout" -> 3
       [] at = "stderr" -> 2
       [] at = "record" -> 1
       [] OTHER         -> 0]
StepsLeft == SumFunction([j \in Job |-> StepsAfter[stage[j]]])

\* A step of one job leaves that job fewer steps to make.
LEMMA JobAdvances ==
  ASSUME TypeOK, NEW j \in Job, Begin(j) \/ RunsOne(j)
  PROVE  /\ StepsAfter[stage'[j]] < StepsAfter[stage[j]]
         /\ \A i \in Job \ {j} : stage'[i] = stage[i]
<1>1. stage \in [Job -> Stages]
  BY TypeFacts
<1>2. \/ stage[j] = "queued" /\ stage' = [stage EXCEPT ![j] = "stats"]
      \/ stage[j] = "stats" /\ stage' = [stage EXCEPT ![j] = "stdout"]
      \/ stage[j] = "stdout" /\ stage' = [stage EXCEPT ![j] = "stderr"]
      \/ stage[j] = "stderr" /\ stage' = [stage EXCEPT ![j] = "record"]
      \/ stage[j] = "record" /\ stage' = [stage EXCEPT ![j] = "done"]
      \/ stage[j] \in {"stats", "stdout", "stderr", "record"} /\ stage' = [stage EXCEPT ![j] = "raised"]
  BY DEF Begin, RunsOne, ChampsimEnds, WriteStdout, WriteStderr, WriteRecord, WriteRaises, StartRaises
<1>3. /\ StepsAfter["queued"] = 5 /\ StepsAfter["stats"] = 4 /\ StepsAfter["stdout"] = 3
      /\ StepsAfter["stderr"] = 2 /\ StepsAfter["record"] = 1 /\ StepsAfter["done"] = 0
      /\ StepsAfter["raised"] = 0
  BY DEF StepsAfter, Stages
<1> QED BY <1>1, <1>2, <1>3

\* There are never fewer than none.
LEMMA StepsAreNat ==
  ASSUME NEW at \in [Job -> Stages]
  PROVE  /\ [j \in Job |-> StepsAfter[at[j]]] \in [Job -> Nat]
         /\ SumFunction([j \in Job |-> StepsAfter[at[j]]]) \in Nat
<1> DEFINE left == [j \in Job |-> StepsAfter[at[j]]]
<1>1. \A one \in Stages : StepsAfter[one] \in 0 .. 5
  BY DEF StepsAfter, Stages
<1>2. \A j \in Job : at[j] \in Stages
  OBVIOUS
<1>3. left \in [Job -> Nat]
  BY <1>1, <1>2
<1> DEFINE none == [j \in Job |-> 0]
<1>4. none \in [Job -> Int] /\ left \in [Job -> Int] /\ \A j \in Job : left[j] >= none[j] /\ none[j] = 0
  BY <1>3
<1> HIDE DEF left, none
<1>5. SumFunction(left) \in Int /\ SumFunction(none) \in Int /\ SumFunction(left) >= SumFunction(none)
  BY <1>4, SumRises, MatrixAssumption DEF MatrixAssumption
<1>6. SumFunction(none) = 0
  BY <1>4, SumOfNothing, MatrixAssumption DEF MatrixAssumption
<1> QED BY <1>3, <1>5, <1>6 DEF left

\* An invocation winds down: every step of run_one(), of whichever job and whether or not
\* it fails, leaves strictly fewer steps to make, so that no invocation goes on for ever.
THEOREM InvocationsWindDown ==
  Spec => [][running /\ running' => StepsLeft' \in Nat /\ StepsLeft' < StepsLeft]_vars
<1>1. Inv /\ [Next]_vars => [running /\ running' => StepsLeft' \in Nat /\ StepsLeft' < StepsLeft]_vars
  <2> SUFFICES ASSUME Inv, Next, running, running'
               PROVE  StepsLeft' \in Nat /\ StepsLeft' < StepsLeft
    OBVIOUS
  <2>1. TypeOK /\ TypeOK'
    BY StepType DEF Inv
  <2>2. PICK j \in Job : Begin(j) \/ RunsOne(j)
    BY <2>1, StepCases, EndsFrame DEF Start
  <2> DEFINE before == [i \in Job |-> StepsAfter[stage[i]]]
             after == [i \in Job |-> StepsAfter[stage'[i]]]
  <2>3. before \in [Job -> Nat] /\ after \in [Job -> Nat]
    BY <2>1, StepsAreNat DEF TypeOK, Stages
  <2>4. after[j] < before[j] /\ \A i \in Job \ {j} : after[i] = before[i]
    BY <2>1, <2>2, JobAdvances
  <2>5. StepsLeft = SumFunction(before) /\ StepsLeft' = SumFunction(after)
    BY DEF StepsLeft
  <2> HIDE DEF before, after
  <2>6. before \in [Job -> Int] /\ after \in [Job -> Int] /\ \A i \in Job : before[i] >= after[i]
    BY <2>3, <2>4
  <2>7. SumFunction(after) < SumFunction(before)
    BY <2>4, <2>6, SumFalls, MatrixAssumption DEF MatrixAssumption
  <2>8. SumFunction(after) \in Nat
    BY <2>1, StepsAreNat DEF TypeOK, Stages, after
  <2> QED BY <2>5, <2>7, <2>8
<1> QED BY <1>1, Invariance, PTL DEF Spec

\* The pool or main() can always go on: the end of ChampSim or a write of a job at work,
\* a free worker for the first job of the queue, or, once the pool is drained, the end.
CanGoOn ==
  \/ \E j \in Job : stage[j] \in {"stats", "stdout", "stderr", "record"}
  \/ \E j \in Job : /\ stage[j] = "queued" /\ \A i \in Job : stage[i] = "queued" => j <= i
                    /\ Cardinality(Busy) < workers
  \/ Drained

\* Nothing that an invocation waits for is withheld from it: a running script is never
\* stuck behind a job that raised, a full pool or a queue without a first job.
THEOREM InvocationsGoOn == Spec => [](running => CanGoOn)
<1>1. Inv => (running => CanGoOn)
  <2> SUFFICES ASSUME Inv, ~Drained, \A j \in Job : stage[j] \notin {"stats", "stdout", "stderr", "record"}
               PROVE  \E j \in Job : /\ stage[j] = "queued" /\ \A i \in Job : stage[i] = "queued" => j <= i
                                     /\ Cardinality(Busy) < workers
    BY DEF CanGoOn
  <2> DEFINE queue == {j \in Job : stage[j] = "queued"}
             R == OpToRel(<, Nat)
  <2>1. \A j \in Job : stage[j] \in Stages
    BY TypeFacts DEF Inv
  <2>2. queue # {} /\ queue \subseteq Nat
    BY <2>1, MatrixAssumption DEF Drained, Stages, MatrixAssumption
  <2>3. \A x, y \in Nat : x < y => <<x, y>> \in R
    BY DEF OpToRel
  <2>4. IsWellFoundedOn(R, Nat)
    BY NatLessThanWellFounded, Zenon
  <2> HIDE DEF R
  <2>5. \E x \in queue : \A y \in queue : ~ (<<y, x>> \in R)
    <3> HIDE DEF queue
    <3> QED BY <2>2, <2>4, WFMin
  <2>6. PICK x \in queue : \A y \in queue : ~ (<<y, x>> \in R)
    BY <2>5
  <2>7. ASSUME NEW y \in queue PROVE x <= y
    <3>1. x \in Nat /\ y \in Nat /\ ~ (y < x)
      BY <2>2, <2>3, <2>6
    <3> QED BY <3>1
  <2>8. Busy = {}
    BY DEF Busy
  <2>9. Cardinality(Busy) < workers
    BY <2>8, FS_EmptySet, TypeFacts, MatrixAssumption DEF MatrixAssumption, Inv
  <2> QED BY <2>6, <2>7, <2>9
<1> QED BY <1>1, Invariance, PTL

----------------------------------------------------------------------------
(* The experiment programs.  What they have before they run, and the       *)
(* baselines of the sweeps.                                                *)

\* Before a program runs there is nothing.
Idle == program = "none" => plan = <<>> /\ rows = <<>> /\ conclusion = NoVerdict

\* It is so before the first step.
LEMMA IdleInit == StudyInit => Idle
BY DEF StudyInit, Idle

\* And a program that runs does not stop running.
LEMMA IdleStep == Idle /\ [StudyNext]_studyVars => Idle'
<1> SUFFICES ASSUME Idle, [StudyNext]_studyVars PROVE Idle'
  OBVIOUS
<1>1. ASSUME program' = program, program # "none" PROVE Idle'
  BY <1>1 DEF Idle
<1>2. ASSUME program' # "none" PROVE Idle'
  BY <1>2 DEF Idle
<1>3. CASE UNCHANGED studyVars
  BY <1>3 DEF Idle, studyVars
<1>4. ASSUME NEW traces \in Traces, StartHybrid(traces) PROVE Idle'
  BY <1>2, <1>4 DEF StartHybrid
<1>5. CASE MeasureWindow
  BY <1>1, <1>5 DEF MeasureWindow
<1>6. ASSUME NEW budgets \in Budgets, ReportHybrid(budgets) PROVE Idle'
  BY <1>1, <1>6 DEF ReportHybrid
<1>7. ASSUME NEW n \in Lengths, DivideTrace(n) PROVE Idle'
  BY <1>2, <1>7 DEF DivideTrace
<1>8. CASE SimulateRow
  BY <1>2, <1>8 DEF SimulateRow
<1>9. ASSUME NEW p \in VerdictPrograms, Conclude(p) PROVE Idle'
  BY <1>2, <1>9, StudyAssumption DEF Conclude, VerdictPrograms, AnalysisPrograms
<1>10. CASE Improve
  BY <1>1, <1>10, StudyAssumption DEF Improve, VerdictPrograms, AnalysisPrograms
<1> QED BY <1>3, <1>4, <1>5, <1>6, <1>7, <1>8, <1>9, <1>10 DEF StudyNext

\* The baseline of one row.
RowFair(row) ==
  /\ row.baseline.dram = row.config.dram /\ row.baseline.l1 = row.config.l1
  /\ row.baseline.gap = row.config.gap
  /\ ChargedLookup(row.baseline, 0) = 0 /\ ChargedUpdate(row.baseline, 0) = 0

\* A configuration has every parameter.
Parameters ==
  {"dram", "l1", "gap", "outstanding", "top_k", "destination", "lookup", "interval", "overlap",
   "parallel", "update", "deferred", "batch", "queue", "reads", "writes"}

\* The baseline of the hardware programs pays nothing, whatever the row's configuration.
LEMMA EvaluateFair ==
  ASSUME NEW sweep, NEW system, NEW config, DOMAIN config = Parameters
  PROVE  RowFair(Evaluate(sweep, system, config))
BY DEF RowFair, Evaluate, Row, ZeroCost, ChargedLookup, ChargedUpdate, LookupLatency, Own, Parameters

\* A row whose own configuration is the baseline's, and either charges the predictor's
\* own costs or overlaps the look-up.
LEMMA RowIsFair ==
  ASSUME NEW sweep, NEW system, NEW config, NEW baseline,
         baseline.dram = config.dram, baseline.l1 = config.l1, baseline.gap = config.gap,
         baseline.update \in {0, Own},
         \/ baseline.lookup = Own /\ ~baseline.parallel
         \/ baseline.lookup \in Nat /\ baseline.overlap = baseline.lookup /\ baseline.parallel
  PROVE  RowFair(Row(sweep, system, config, baseline))
BY DEF RowFair, Row, ChargedLookup, ChargedUpdate, LookupLatency, Own

\* wam.hardware_feasibility.
LEMMA HardwareFair ==
  \A row \in LatencyRows \cup ThroughputRows \cup OverlapRows \cup ArchitectureRows \cup StorageRows
             \cup CounterRows \cup HashRows \cup UpdateRows \cup BatchingRows
             \cup MicroarchitectureRows : RowFair(row)
<1>1. DOMAIN Hardware = Parameters
  BY DEF Hardware, Default, Parameters
<1>2. \A row \in LatencyRows : RowFair(row)
  BY <1>1, EvaluateFair DEF LatencyRows
<1>3. \A row \in ThroughputRows : RowFair(row)
  BY <1>1, EvaluateFair DEF ThroughputRows
<1>4. \A row \in OverlapRows : RowFair(row)
  BY <1>1, EvaluateFair DEF OverlapRows
<1>5. \A row \in ArchitectureRows : RowFair(row)
  <2>1. \A row \in {Evaluate("architecture", <<system>>, [Hardware EXCEPT !.lookup = 0]) :
                    system \in {"IdealWAM", "Oracle"}} : RowFair(row)
    BY <1>1, EvaluateFair
  <2>2. ASSUME NEW model \in HardwareModels
        PROVE  RowFair(Evaluate("architecture", <<model[1]>>,
                 [Hardware EXCEPT !.lookup = model[2] + model[7], !.interval = model[3],
                                  !.parallel = model[1] # "SerialTrie", !.overlap = model[4],
                                  !.update = model[5], !.reads = model[6]]))
    BY <1>1, EvaluateFair
  <2> QED BY <2>1, <2>2 DEF ArchitectureRows
<1>6. \A row \in StorageRows \cup CounterRows \cup HashRows : RowFair(row)
  BY <1>1, EvaluateFair DEF StorageRows, CounterRows, HashRows
<1>7. \A row \in UpdateRows : RowFair(row)
  <2> DEFINE Updates(deferred) ==
               {Evaluate("update", <<"DirectWAM-H16">>,
                         [Hardware EXCEPT !.lookup = 3, !.update = latency, !.deferred = deferred]) :
                  latency \in {0, 1, 2, 4, 8}}
  <2>1. ASSUME NEW deferred, NEW row \in Updates(deferred) PROVE RowFair(row)
    <3>1. PICK latency : row = Evaluate("update", <<"DirectWAM-H16">>,
                         [Hardware EXCEPT !.lookup = 3, !.update = latency, !.deferred = deferred])
      OBVIOUS
    <3> QED BY <3>1, <1>1, EvaluateFair
  <2>2. UpdateRows = UNION {Updates(deferred) : deferred \in BOOLEAN}
    BY DEF UpdateRows
  <2> HIDE DEF Updates
  <2> QED BY <2>1, <2>2
<1>8. \A row \in BatchingRows : RowFair(row)
  <2> SUFFICES ASSUME NEW batch
               PROVE  RowFair(Evaluate("batching", <<"BatchedWAM">>,
                        [Hardware EXCEPT !.lookup = 3, !.update = 4, !.deferred = TRUE, !.batch = batch]))
    BY ZenonT(30) DEF BatchingRows
  <2> QED BY <1>1, EvaluateFair
<1>9. \A row \in MicroarchitectureRows : RowFair(row)
  <2>1. \A row \in {Evaluate("cache", <<"PredictionCache">>, [Hardware EXCEPT !.lookup = effective]) :
                    effective \in 1 .. 3} : RowFair(row)
    BY <1>1, EvaluateFair
  <2>2. \A row \in {Evaluate("signature", <<"ContextSignature", bits>>, [Hardware EXCEPT !.lookup = 3]) :
                    bits \in {64, 32, 16, 12, 8}} : RowFair(row)
    BY <1>1, EvaluateFair
  <2>3. \A row \in {Evaluate("ports", <<"DirectWAM-H16">>,
                      [Hardware EXCEPT !.lookup = 3, !.update = 4, !.reads = ports[1], !.writes = ports[2]]) :
                    ports \in {<<1, 1>>, <<2, 1>>, <<2, 2>>}} : RowFair(row)
    <3> SUFFICES ASSUME NEW ports
                 PROVE  RowFair(Evaluate("ports", <<"DirectWAM-H16">>,
                   [Hardware EXCEPT !.lookup = 3, !.update = 4, !.reads = ports[1], !.writes = ports[2]]))
      OBVIOUS
    <3> QED BY <1>1, EvaluateFair
  <2>4. \A row \in {Evaluate("fallback", <<"DirectWAM-H16">>,
                      [Hardware EXCEPT !.lookup = mode[1], !.parallel = mode[2], !.overlap = mode[3]]) :
                    mode \in {<<4 + 8 + 4 + 2, FALSE, 0>>, <<4, TRUE, 4>>}} : RowFair(row)
    <3> SUFFICES ASSUME NEW mode
                 PROVE  RowFair(Evaluate("fallback", <<"DirectWAM-H16">>,
                   [Hardware EXCEPT !.lookup = mode[1], !.parallel = mode[2], !.overlap = mode[3]]))
      OBVIOUS
    <3> QED BY <1>1, EvaluateFair
  <2>5. \A row \in {Evaluate("candidate", <<"DirectWAM-H16">>, [Hardware EXCEPT !.lookup = 3 + cost]) :
                    cost \in {0, 1, 4}} : RowFair(row)
    <3> SUFFICES ASSUME NEW cost
                 PROVE  RowFair(Evaluate("candidate", <<"DirectWAM-H16">>,
                                         [Hardware EXCEPT !.lookup = 3 + cost]))
      OBVIOUS
    <3> QED BY <1>1, EvaluateFair
  <2> QED BY <2>1, <2>2, <2>3, <2>4, <2>5 DEF MicroarchitectureRows
<1> QED BY <1>2, <1>3, <1>4, <1>5, <1>6, <1>7, <1>8, <1>9

\* wam.real_trace_evaluation and wam.hybrid_analysis.
LEMMA OverlappedFair ==
  \A row \in RealTraceRows \cup RealTraceBudgetRows \cup PairRows \cup DirectContributionRows :
    RowFair(row)
<1>1. ASSUME NEW sweep, NEW system, NEW latency \in {0, 2}
      PROVE  RowFair(Row(sweep, system, RunConfig(latency), RunConfig(2)))
  <2> DEFINE config == RunConfig(latency)
             baseline == RunConfig(2)
  <2>1. /\ baseline.dram = config.dram /\ baseline.l1 = config.l1 /\ baseline.gap = config.gap
        /\ baseline.update = 0 /\ baseline.lookup = 2 /\ baseline.overlap = 2 /\ baseline.parallel
    BY DEF RunConfig, Default
  <2> HIDE DEF config, baseline
  <2>2. RowFair(Row(sweep, system, config, baseline))
    BY <2>1, RowIsFair
  <2> QED BY <2>2 DEF config, baseline
<1> HIDE DEF RowFair
<1>2. \A row \in RealTraceRows : RowFair(row)
  BY <1>1 DEF RealTraceRows
<1>3. \A row \in RealTraceBudgetRows \cup PairRows \cup DirectContributionRows : RowFair(row)
  BY <1>1 DEF RealTraceBudgetRows, PairRows, DirectContributionRows
<1> QED BY <1>2, <1>3

\* wam.horizon_analysis.
LEMMA HorizonFair ==
  \A row \in ComputeGapRows \cup DramRows \cup BandwidthRows : RowFair(row)
<1>1. ASSUME NEW sweep, NEW dram, NEW gap, NEW limit, NEW horizons,
             NEW row \in EvaluateWorkload(sweep, HorizonConfig(dram, gap, limit), horizons)
      PROVE  RowFair(row)
  <2> DEFINE config == HorizonConfig(dram, gap, limit)
  <2>1. config.update = Own /\ config.lookup = Own /\ ~config.parallel
    BY DEF HorizonConfig, Default
  <2> HIDE DEF config
  <2>2. PICK name, horizon : row = Row(sweep, <<name, horizon>>, config, config)
    BY DEF EvaluateWorkload, config
  <2> QED BY <2>1, <2>2, RowIsFair
<1>2. \A row \in ComputeGapRows : RowFair(row)
  BY <1>1 DEF ComputeGapRows
<1>3. \A row \in DramRows : RowFair(row)
  BY <1>1 DEF DramRows
<1>4. \A row \in BandwidthRows : RowFair(row)
  BY <1>1 DEF BandwidthRows
<1> QED BY <1>2, <1>3, <1>4

\* wam.benchmark, wam.diagnostics and wam.experiment: the predictor's own costs.
LEMMA OwnCostsFair ==
  \A row \in BenchmarkRows \cup BreakEvenRows \cup SweepRows \cup AblationRows \cup PolicyRows
             \cup OnlineRows \cup ExperimentRows \cup RepetitionRows : RowFair(row)
<1>1. ASSUME NEW sweep, NEW system, NEW config, NEW baseline,
             config.dram = baseline.dram, config.l1 = baseline.l1, config.gap = baseline.gap,
             baseline.lookup = Own, baseline.update = Own, ~baseline.parallel
      PROVE  RowFair(Row(sweep, system, config, baseline))
  BY <1>1, RowIsFair
<1>2. ASSUME NEW sweep, NEW system PROVE RowFair(Row(sweep, system, Default, Default))
  <2>1. Default.lookup = Own /\ Default.update = Own /\ ~Default.parallel
    BY DEF Default
  <2> QED BY <2>1, <1>1
<1>3. \A row \in BenchmarkRows \cup AblationRows \cup OnlineRows \cup ExperimentRows : RowFair(row)
  BY <1>2 DEF BenchmarkRows, AblationRows, OnlineRows, ExperimentRows
<1>4. \A row \in RepetitionRows : RowFair(row)
  <2> SUFFICES ASSUME NEW depth, NEW repeats
               PROVE  RowFair(Row("repetition", <<"WAM", depth, repeats>>, Default, Default))
    BY DEF RepetitionRows
  <2> QED BY <1>2
<1>5. \A row \in PolicyRows : RowFair(row)
  BY <1>2 DEF PolicyRows
<1>6. \A row \in BreakEvenRows : RowFair(row)
  <2> SUFFICES ASSUME NEW dram, NEW threshold
               PROVE  RowFair(Row("break_even", <<"WAM", 2, threshold>>, [Default EXCEPT !.dram = dram],
                                  [Default EXCEPT !.dram = dram]))
    BY DEF BreakEvenRows
  <2> DEFINE config == [Default EXCEPT !.dram = dram]
  <2>1. config.lookup = Own /\ config.update = Own /\ ~config.parallel
    BY DEF Default
  <2> HIDE DEF config
  <2>2. RowFair(Row("break_even", <<"WAM", 2, threshold>>, config, config))
    BY <1>1, <2>1
  <2> QED BY <2>2 DEF config
<1>7. \A row \in SweepRows : RowFair(row)
  <2>1. \A row \in {Row("depth_threshold", <<"WAM", depth, threshold>>, Default, Default) :
                    depth \in {1, 2, 3, 4, 8}, threshold \in {50, 65, 80, 90}} : RowFair(row)
    BY <1>2
  <2>2. \A row \in {Row("ema_alpha", <<"EMA", alpha>>, Default, Default) : alpha \in {1, 5, 10, 25}} :
          RowFair(row)
    BY <1>2
  <2>3. \A row \in {Row("top_k", <<"WAM">>, [Default EXCEPT !.top_k = k], Default) :
                    k \in {1, 3, 5}} : RowFair(row)
    <3> SUFFICES ASSUME NEW k
                 PROVE  RowFair(Row("top_k", <<"WAM">>, [Default EXCEPT !.top_k = k], Default))
      OBVIOUS
    <3> DEFINE config == [Default EXCEPT !.top_k = k]
    <3>1. /\ config.dram = Default.dram /\ config.l1 = Default.l1 /\ config.gap = Default.gap
          /\ Default.lookup = Own /\ Default.update = Own /\ ~Default.parallel
      BY DEF Default
    <3> HIDE DEF config
    <3>2. RowFair(Row("top_k", <<"WAM">>, config, Default))
      BY <1>1, <3>1
    <3> QED BY <3>2 DEF config
  <2>4. \A row \in {Row("destination", <<"WAM">>, [Default EXCEPT !.destination = level], Default) :
                    level \in 1 .. 2} : RowFair(row)
    <3> SUFFICES ASSUME NEW level
                 PROVE  RowFair(Row("destination", <<"WAM">>, [Default EXCEPT !.destination = level], Default))
      OBVIOUS
    <3> DEFINE config == [Default EXCEPT !.destination = level]
    <3>1. /\ config.dram = Default.dram /\ config.l1 = Default.l1 /\ config.gap = Default.gap
          /\ Default.lookup = Own /\ Default.update = Own /\ ~Default.parallel
      BY DEF Default
    <3> HIDE DEF config
    <3>2. RowFair(Row("destination", <<"WAM">>, config, Default))
      BY <1>1, <3>1
    <3> QED BY <3>2 DEF config
  <2>5. \A row \in {Row("prefetch_bandwidth", <<"WAM">>, [Default EXCEPT !.outstanding = limit], Default) :
                    limit \in {2, 8, 16}} : RowFair(row)
    <3> SUFFICES ASSUME NEW limit
                 PROVE  RowFair(Row("prefetch_bandwidth", <<"WAM">>, [Default EXCEPT !.outstanding = limit], Default))
      OBVIOUS
    <3> DEFINE config == [Default EXCEPT !.outstanding = limit]
    <3>1. /\ config.dram = Default.dram /\ config.l1 = Default.l1 /\ config.gap = Default.gap
          /\ Default.lookup = Own /\ Default.update = Own /\ ~Default.parallel
      BY DEF Default
    <3> HIDE DEF config
    <3>2. RowFair(Row("prefetch_bandwidth", <<"WAM">>, config, Default))
      BY <1>1, <3>1
    <3> QED BY <3>2 DEF config
  <2>6. \A row \in {Row("cache_capacity", <<"WAM">>, [Default EXCEPT !.l1 = capacity],
                        [Default EXCEPT !.l1 = capacity]) : capacity \in {32, 64, 128}} : RowFair(row)
    <3> SUFFICES ASSUME NEW capacity
                 PROVE  RowFair(Row("cache_capacity", <<"WAM">>, [Default EXCEPT !.l1 = capacity],
                                    [Default EXCEPT !.l1 = capacity]))
      OBVIOUS
    <3> DEFINE config == [Default EXCEPT !.l1 = capacity]
    <3>1. config.lookup = Own /\ config.update = Own /\ ~config.parallel
      BY DEF Default
    <3> HIDE DEF config
    <3>2. RowFair(Row("cache_capacity", <<"WAM">>, config, config))
      BY <1>1, <3>1
    <3> QED BY <3>2 DEF config
  <2> QED BY <2>1, <2>2, <2>3, <2>4, <2>5, <2>6 DEF SweepRows
<1> QED BY <1>3, <1>4, <1>5, <1>6, <1>7

\* So is the baseline of every row of every sweep.
LEMMA AllFair == \A row \in AllRows : RowFair(row)
BY HardwareFair, OverlappedFair, HorizonFair, OwnCostsFair DEF AllRows

\* A sweep program simulates rows of its tables.
SweepInv == program = "sweep" => \A i \in DOMAIN rows : RowFair(rows[i])

\* The rows of a sweep are never changed.
LEMMA SweepStep == SweepInv /\ [StudyNext]_studyVars => SweepInv'
<1> SUFFICES ASSUME SweepInv, [StudyNext]_studyVars PROVE SweepInv'
  OBVIOUS
<1>1. ASSUME program' = program, program # "sweep" PROVE SweepInv'
  BY <1>1 DEF SweepInv
<1>2. ASSUME program' # "sweep" PROVE SweepInv'
  BY <1>2 DEF SweepInv
<1>3. CASE UNCHANGED studyVars
  BY <1>3 DEF SweepInv, studyVars
<1>4. ASSUME NEW traces \in Traces, StartHybrid(traces) PROVE SweepInv'
  BY <1>2, <1>4 DEF StartHybrid
<1>5. CASE MeasureWindow
  BY <1>1, <1>5 DEF MeasureWindow
<1>6. ASSUME NEW budgets \in Budgets, ReportHybrid(budgets) PROVE SweepInv'
  BY <1>1, <1>6 DEF ReportHybrid
<1>7. ASSUME NEW n \in Lengths, DivideTrace(n) PROVE SweepInv'
  BY <1>2, <1>7 DEF DivideTrace
<1>8. CASE SimulateRow
  <2>1. PICK row \in AllRows : rows' = <<row>>
    BY <1>8 DEF SimulateRow
  <2>2. RowFair(row)
    BY AllFair
  <2> QED BY <2>1, <2>2 DEF SweepInv
<1>9. ASSUME NEW p \in VerdictPrograms, Conclude(p) PROVE SweepInv'
  BY <1>2, <1>9, StudyAssumption DEF Conclude, VerdictPrograms, AnalysisPrograms
<1>10. CASE Improve
  BY <1>1, <1>10, StudyAssumption DEF Improve, VerdictPrograms, AnalysisPrograms
<1> QED BY <1>3, <1>4, <1>5, <1>6, <1>7, <1>8, <1>9, <1>10 DEF StudyNext

\* A speedup compares like with like: whatever row of whatever sweep is simulated, its
\* baseline runs on the same memory, first-level cache and compute gaps and is charged
\* for no prediction (_evaluate(), run_pair(), evaluate_workload() and the rest).
THEOREM BaselinesAreFair == StudySpec => []BaselineFair
<1>1. StudyInit => SweepInv
  BY DEF StudyInit, SweepInv
<1>2. SweepInv => BaselineFair
  BY DEF SweepInv, BaselineFair, RowFair
<1> QED BY <1>1, <1>2, SweepStep, PTL DEF StudySpec

----------------------------------------------------------------------------
(* Windows follow their training and one another.                          *)

\* Multiples of a size are at least that size apart.
LEMMA Multiples ==
  ASSUME NEW size \in Nat, NEW a \in Nat, NEW b \in Nat, a < b
  PROVE  a * size \in Nat /\ a * size + size <= b * size
<1> DEFINE d == b - a - 1
<1>1. d \in Nat /\ b = a + 1 + d
  OBVIOUS
<1> HIDE DEF d
<1>2. d * size \in Nat /\ a * size \in Nat
  BY <1>1
<1>3. (a + 1 + d) * size = a * size + size + d * size
  BY <1>1
<1> QED BY <1>1, <1>2, <1>3

\* Rounding a quotient up gives a natural number.
LEMMA CeilingIsNat ==
  ASSUME NEW a \in Nat, NEW b \in Nat \ {0}
  PROVE  CeilingDiv(a, b) \in Nat
<1> DEFINE c == a + b - 1
<1>1. c \in Nat
  OBVIOUS
<1> HIDE DEF c
<1>2. c \div b \in Nat
  BY <1>1
<1> QED BY <1>2 DEF CeilingDiv, c

\* The windows of one size start where the one before has ended, or later.
LEMMA StartsAre ==
  ASSUME NEW length \in Nat, NEW size \in Nat \ {0}
  PROVE  /\ SampledStarts(length, size) \in Seq(Nat)
         /\ \A i, j \in 1 .. Len(SampledStarts(length, size)) :
              i < j => SampledStarts(length, size)[i] + size <= SampledStarts(length, size)[j]
<1> DEFINE n == CeilingDiv(length, size)
           starts == [i \in 1 .. n |-> (i - 1) * size]
           m == (n \div 2) + 1
           sampled == SampledStarts(length, size)
<1>1. n \in Nat
  BY CeilingIsNat
<1> HIDE DEF n
<1>2. starts \in Seq(Nat) /\ Len(starts) = n
  <2>1. ASSUME NEW i \in 1 .. n PROVE (i - 1) * size \in Nat
    BY <1>1
  <2> QED BY <1>1, <2>1
<1>3. ASSUME NEW i \in 1 .. n, NEW j \in 1 .. n, i < j PROVE starts[i] + size <= starts[j]
  <2>1. i - 1 \in Nat /\ j - 1 \in Nat /\ i - 1 < j - 1
    BY <1>1, <1>3
  <2>2. (i - 1) * size + size <= (j - 1) * size
    BY <2>1, Multiples
  <2> QED BY <2>2
<1>4. sampled = IF n <= PHASE_SAMPLES_PER_SIZE THEN starts ELSE <<starts[1], starts[m], starts[n]>>
  <2>1. SampledStarts(length, size) =
          IF Len(starts) <= PHASE_SAMPLES_PER_SIZE THEN starts
          ELSE <<starts[1], starts[(Len(starts) \div 2) + 1], starts[Len(starts)]>>
    BY Zenon DEF SampledStarts, n
  <2> HIDE DEF starts
  <2> QED BY <1>2, <2>1
<1> HIDE DEF starts, sampled
<1>5. CASE n <= PHASE_SAMPLES_PER_SIZE
  BY <1>2, <1>3, <1>4, <1>5 DEF sampled
<1>6. CASE ~ (n <= PHASE_SAMPLES_PER_SIZE)
  <2>1. n >= 3
    BY <1>1, <1>6, StudyAssumption DEF StudyAssumption
  <2>2. m \in 1 .. n /\ 1 < m /\ m < n
    BY <1>1, <2>1
  <2> HIDE DEF m
  <2>3. starts[1] \in Nat /\ starts[m] \in Nat /\ starts[n] \in Nat
    BY <1>1, <1>2, <2>1, <2>2
  <2>4. starts[1] + size <= starts[m] /\ starts[m] + size <= starts[n] /\ starts[1] + size <= starts[n]
    BY <1>1, <1>3, <2>1, <2>2
  <2>5. sampled = <<starts[1], starts[m], starts[n]>>
    BY <1>4, <1>6
  <2>6. sampled \in Seq(Nat) /\ Len(sampled) = 3 /\ sampled[1] = starts[1] /\ sampled[2] = starts[m]
        /\ sampled[3] = starts[n]
    BY <2>3, <2>5
  <2>7. ASSUME NEW i \in 1 .. 3, NEW j \in 1 .. 3, i < j PROVE sampled[i] + size <= sampled[j]
    BY <2>4, <2>6, <2>7
  <2> QED BY <2>6, <2>7 DEF sampled
<1> QED BY <1>5, <1>6

----------------------------------------------------------------------------
Window == [workload : Nat, size : Nat, training : Nat \X Nat, span : Nat \X Nat]

\* The windows of a workload, or of a size of it, that follow its training.
Trained == {v \in Window : EndsBefore(v.training, v.span)}
WindowsFrom(w) == {v \in Trained : v.workload = w}
WindowsWith(w, size) == {v \in Trained : v.workload = w /\ v.size = size}

\* The later of two windows of one size of a workload follows the earlier.
Ordered ==
  {p \in Window \X Window :
     p[1].workload = p[2].workload /\ p[1].size = p[2].size => EndsBefore(p[1].span, p[2].span)}

\* Two windows of different sizes or workloads are in any order.
LEMMA OrderedIs ==
  ASSUME NEW v \in Window, NEW w \in Window,
         v.workload = w.workload /\ v.size = w.size => EndsBefore(v.span, w.span)
  PROVE  <<v, w>> \in Ordered
BY DEF Ordered

\* The windows of one workload.
LEMMA WindowsAre ==
  ASSUME NEW w \in Nat, NEW length \in Nat
  PROVE  WindowsOf(w, length) \in Seq(WindowsFrom(w)) /\ Pairwise(WindowsOf(w, length), Ordered)
<1> DEFINE cut == Cut(length)
           evaluation == length - cut
           training == TrainingSpan(length)
           windows(size) ==
             LET starts == SampledStarts(evaluation, size)
             IN  [i \in DOMAIN starts |->
                    [workload |-> w, size |-> size, training |-> TrainingSpan(length),
                     span |-> <<Cut(length) + starts[i], Cut(length) + starts[i] + size>>]]
           ofSize(size) ==
             Kept(windows(size), {i \in DOMAIN windows(size) : windows(size)[i].span[2] <= length})
           parts == [k \in DOMAIN WINDOW_SIZES |-> ofSize(WINDOW_SIZES[k])]
<1>1. CASE length < MIN_TRACE
  BY <1>1 DEF WindowsOf, Pairwise
<1>2. CASE ~ (length < MIN_TRACE)
  <2>1. WindowsOf(w, length) = FlattenSeq(parts)
    BY <1>2, Zenon DEF WindowsOf
  <2>2. cut \in Nat /\ evaluation \in Nat
    <3>1. length >= 1
      BY <1>2, StudyAssumption DEF StudyAssumption
    <3>2. (7 * length) \div 10 \in Nat /\ (7 * length) \div 10 <= length
      OBVIOUS
    <3> QED BY <3>1, <3>2 DEF Cut, Larger
  <2>3. training \in Nat \X Nat /\ training[2] = cut
    BY <2>2, StudyAssumption DEF StudyAssumption, TrainingSpan, Larger
  <2>4. ASSUME NEW size \in Nat \ {0}
        PROVE  ofSize(size) \in Seq(WindowsWith(w, size)) /\ Pairwise(ofSize(size), Ordered)
    <3> DEFINE starts == SampledStarts(evaluation, size)
               all == windows(size)
    <3>1. starts \in Seq(Nat) /\ \A i, j \in 1 .. Len(starts) : i < j => starts[i] + size <= starts[j]
      <4> HIDE DEF evaluation
      <4> QED BY <2>2, StartsAre
    <3> HIDE DEF starts
    <3>2. all = [i \in 1 .. Len(starts) |->
                   [workload |-> w, size |-> size, training |-> training,
                    span |-> <<cut + starts[i], cut + starts[i] + size>>]]
      BY <3>1 DEF starts
    <3> HIDE DEF all, training, cut
    <3>3. ASSUME NEW i \in 1 .. Len(starts)
          PROVE  /\ all[i] \in WindowsWith(w, size)
                 /\ all[i].span[1] = cut + starts[i] /\ all[i].span[2] = cut + starts[i] + size
      <4>1. starts[i] \in Nat /\ cut + starts[i] \in Nat /\ cut + starts[i] + size \in Nat
        BY <2>2, <3>1
      <4>2. all[i] = [workload |-> w, size |-> size, training |-> training,
                      span |-> <<cut + starts[i], cut + starts[i] + size>>]
        BY <3>2
      <4>3. training[2] <= cut + starts[i]
        BY <2>2, <2>3, <4>1
      <4>4. all[i] \in Window
        BY <2>3, <4>1, <4>2, SMTT(30) DEF Window
      <4> QED BY <4>2, <4>3, <4>4 DEF WindowsWith, Trained, EndsBefore
    <3>4. all \in Seq(WindowsWith(w, size)) /\ Len(all) = Len(starts)
      BY <3>1, <3>2, <3>3
    <3>5. Pairwise(all, Ordered)
      <4> SUFFICES ASSUME NEW i \in 1 .. Len(starts), NEW j \in 1 .. Len(starts), i < j
                   PROVE  <<all[i], all[j]>> \in Ordered
        BY <3>4 DEF Pairwise
      <4>1. starts[i] + size <= starts[j] /\ starts[i] \in Nat /\ starts[j] \in Nat
        BY <3>1
      <4>2. EndsBefore(all[i].span, all[j].span)
        BY <2>2, <3>3, <4>1 DEF EndsBefore
      <4>3. all[i] \in Window /\ all[j] \in Window
        BY <3>3 DEF WindowsWith, Trained
      <4> QED BY <4>2, <4>3, OrderedIs
    <3> DEFINE P == {i \in DOMAIN all : all[i].span[2] <= length}
    <3>6. ofSize(size) = Kept(all, P)
      BY Zenon DEF all
    <3> HIDE DEF ofSize, P
    <3>7. Kept(all, P) \in Seq({all[k] : k \in P \cap (1 .. Len(all))}) /\ Pairwise(Kept(all, P), Ordered)
      BY <3>4, <3>5, KeptIs
    <3>8. {all[k] : k \in P \cap (1 .. Len(all))} \subseteq WindowsWith(w, size)
      BY <3>4
    <3>9. Kept(all, P) \in Seq(WindowsWith(w, size))
      BY <3>7, <3>8
    <3> QED BY <3>6, <3>7, <3>9
  <2> HIDE DEF ofSize, cut, evaluation, training
  <2>5. WINDOW_SIZES \in Seq(Nat \ {0})
    BY StudyAssumption DEF StudyAssumption
  <2>6. \A size : WindowsWith(w, size) \subseteq WindowsFrom(w)
    BY DEF WindowsWith, WindowsFrom
  <2>7. ASSUME NEW k \in DOMAIN WINDOW_SIZES
        PROVE  /\ parts[k] \in Seq(WindowsWith(w, WINDOW_SIZES[k])) /\ parts[k] \in Seq(WindowsFrom(w))
               /\ Pairwise(parts[k], Ordered)
    <3>1. WINDOW_SIZES[k] \in Nat \ {0}
      BY <2>5
    <3>2. parts[k] = ofSize(WINDOW_SIZES[k])
      OBVIOUS
    <3> HIDE DEF parts
    <3>3. parts[k] \in Seq(WindowsWith(w, WINDOW_SIZES[k])) /\ Pairwise(parts[k], Ordered)
      BY <2>4, <3>1, <3>2
    <3> QED BY <2>6, <3>3
  <2>8. DOMAIN WINDOW_SIZES = 1 .. Len(parts) /\ parts \in Seq(Seq(WindowsFrom(w)))
    <3>1. DOMAIN WINDOW_SIZES = 1 .. Len(WINDOW_SIZES) /\ Len(WINDOW_SIZES) \in Nat
      BY <2>5
    <3>2. DOMAIN parts = 1 .. Len(WINDOW_SIZES)
      BY <3>1
    <3> HIDE DEF parts
    <3>3. parts = [k \in 1 .. Len(WINDOW_SIZES) |-> parts[k]]
      BY <3>1, <3>2 DEF parts
    <3> QED BY <2>7, <3>1, <3>3
  <2> HIDE DEF parts
  <2>9. ASSUME NEW k \in 1 .. Len(parts), NEW l \in 1 .. Len(parts), k < l
        PROVE  Across(parts[k], parts[l], Ordered)
    <3>1. k \in DOMAIN WINDOW_SIZES /\ l \in DOMAIN WINDOW_SIZES /\ WINDOW_SIZES[k] # WINDOW_SIZES[l]
      <4>1. k \in DOMAIN WINDOW_SIZES /\ l \in DOMAIN WINDOW_SIZES
        BY <2>8
      <4>2. WINDOW_SIZES[k] \in Nat /\ WINDOW_SIZES[l] \in Nat
        BY <2>5, <4>1
      <4>3. WINDOW_SIZES[k] < WINDOW_SIZES[l]
        BY <2>9, <4>1, StudyAssumption DEF StudyAssumption
      <4> QED BY <4>1, <4>2, <4>3
    <3>2. ASSUME NEW i \in 1 .. Len(parts[k]), NEW j \in 1 .. Len(parts[l])
          PROVE  <<parts[k][i], parts[l][j]>> \in Ordered
      <4>1. parts[k][i] \in WindowsWith(w, WINDOW_SIZES[k]) /\ parts[l][j] \in WindowsWith(w, WINDOW_SIZES[l])
        BY <2>7, <3>1
      <4>2. parts[k][i] \in Window /\ parts[l][j] \in Window /\ parts[k][i].size # parts[l][j].size
        BY <3>1, <4>1 DEF WindowsWith, Trained
      <4> QED BY <4>2, OrderedIs
    <3> QED BY <3>2 DEF Across
  <2>10. \A k \in 1 .. Len(parts) : Pairwise(parts[k], Ordered)
    BY <2>7, <2>8
  <2>11. FlattenSeq(parts) \in Seq(WindowsFrom(w)) /\ Pairwise(FlattenSeq(parts), Ordered)
    BY <2>8, <2>9, <2>10, FlattenIs
  <2> QED BY <2>1, <2>11
<1> QED BY <1>1, <1>2

\* The windows of a run.
LEMMA PlanIs ==
  ASSUME NEW traces \in Seq(Nat)
  PROVE  WindowPlan(traces) \in Seq(Trained) /\ Pairwise(WindowPlan(traces), Ordered)
<1> DEFINE parts == [t \in DOMAIN traces |-> WindowsOf(t, traces[t])]
<1>1. ASSUME NEW t \in DOMAIN traces
      PROVE  /\ parts[t] \in Seq(WindowsFrom(t)) /\ parts[t] \in Seq(Trained)
             /\ Pairwise(parts[t], Ordered)
  <2>1. t \in Nat /\ traces[t] \in Nat
    OBVIOUS
  <2>2. parts[t] \in Seq(WindowsFrom(t)) /\ Pairwise(parts[t], Ordered)
    BY <2>1, WindowsAre
  <2>3. WindowsFrom(t) \subseteq Trained
    BY DEF WindowsFrom
  <2> QED BY <2>2, <2>3
<1>2. DOMAIN traces = 1 .. Len(parts) /\ parts \in Seq(Seq(Trained))
  <2>1. DOMAIN traces = 1 .. Len(traces) /\ Len(traces) \in Nat
    OBVIOUS
  <2>2. DOMAIN parts = 1 .. Len(traces)
    BY <2>1
  <2> HIDE DEF parts
  <2>3. parts = [t \in 1 .. Len(traces) |-> parts[t]]
    BY <2>2, <2>1 DEF parts
  <2> QED BY <1>1, <2>1, <2>3
<1>3. WindowPlan(traces) = FlattenSeq(parts)
  BY DEF WindowPlan
<1> HIDE DEF parts
<1>4. ASSUME NEW k \in 1 .. Len(parts), NEW l \in 1 .. Len(parts), k < l
      PROVE  Across(parts[k], parts[l], Ordered)
  <2>1. ASSUME NEW i \in 1 .. Len(parts[k]), NEW j \in 1 .. Len(parts[l])
        PROVE  <<parts[k][i], parts[l][j]>> \in Ordered
    <3>1. parts[k][i] \in WindowsFrom(k) /\ parts[l][j] \in WindowsFrom(l)
      <4>1. parts[k] \in Seq(WindowsFrom(k)) /\ parts[l] \in Seq(WindowsFrom(l))
        BY <1>1, <1>2
      <4> QED BY <4>1
    <3>2. parts[k][i] \in Window /\ parts[l][j] \in Window /\ parts[k][i].workload # parts[l][j].workload
      BY <1>4, <3>1 DEF WindowsFrom, Trained
    <3> QED BY <3>2, OrderedIs
  <2> QED BY <2>1 DEF Across
<1>5. \A k \in 1 .. Len(parts) : Pairwise(parts[k], Ordered)
  BY <1>1, <1>2
<1> QED BY <1>2, <1>3, <1>4, <1>5, FlattenIs

----------------------------------------------------------------------------
(* Divisions, rows and selectors.                                          *)

\* A model of a division was trained before it is evaluated, or not at all.
DivideInv ==
  program = "divide" =>
    \A i \in DOMAIN rows :
      \/ EndsBefore(rows[i].training, rows[i].evaluation)
      \/ rows[i].training[2] = 0

\* A row has the confidences and the entropy that its workload's training gave.
OfFeatures(row) ==
  /\ row.gmcConfidence = features[row.workload].gmc
  /\ row.wamConfidence = features[row.workload].wam
  /\ row.entropy = features[row.workload].entropy

HybridInv ==
  program = "hybrid" =>
    /\ plan \in Seq(Trained) /\ Pairwise(plan, Ordered)
    /\ \E S : rows \in Seq(S) /\ \A row \in S : OfFeatures(row)

\* The larger and the smaller of two integers are integers.
LEMMA LargestOfTwo ==
  ASSUME NEW a \in Int, NEW b \in Int
  PROVE  Max({a, b}) \in Int /\ Min({a, b}) \in Int
<1>1. \E x \in {a, b} : \A y \in {a, b} : x >= y
  <2>1. CASE a >= b
    BY <2>1
  <2>2. CASE ~ (a >= b)
    BY <2>2
  <2> QED BY <2>1, <2>2
<1>2. \E x \in {a, b} : \A y \in {a, b} : x <= y
  <2>1. CASE a <= b
    BY <2>1
  <2>2. CASE ~ (a <= b)
    BY <2>2
  <2> QED BY <2>1, <2>2
<1>3. Max({a, b}) \in {a, b}
  <2> DEFINE Is(x) == x \in {a, b} /\ \A y \in {a, b} : x >= y
  <2>1. Is(CHOOSE x : Is(x))
    BY <1>1
  <2>2. Max({a, b}) = CHOOSE x : Is(x)
    BY DEF Max
  <2> QED BY <2>1, <2>2
<1>4. Min({a, b}) \in {a, b}
  <2> DEFINE Is(x) == x \in {a, b} /\ \A y \in {a, b} : x <= y
  <2>1. Is(CHOOSE x : Is(x))
    BY <1>2
  <2>2. Min({a, b}) = CHOOSE x : Is(x)
    BY DEF Min
  <2> QED BY <2>1, <2>2
<1> QED BY <1>3, <1>4

\* Every division of a trace is by time, or of a model that is not trained before.
LEMMA DivisionIs ==
  ASSUME NEW n \in Nat, NEW division \in Divisions(n)
  PROVE  EndsBefore(division.training, division.evaluation) \/ division.training[2] = 0
<1>1. ASSUME NEW cut \in Int, NEW end, division = Division(<<0, cut>>, <<cut, end>>)
      PROVE  EndsBefore(division.training, division.evaluation)
  BY <1>1 DEF EndsBefore, Division
<1>2. ASSUME division \in {Split(n, percent) : percent \in TrainFractions}
      PROVE  EndsBefore(division.training, division.evaluation)
  <2>1. PICK percent \in TrainFractions : division = Split(n, percent)
    BY <1>2
  <2>2. percent \in Int
    BY DEF TrainFractions
  <2>3. (n * percent) \div 100 \in Int
    BY <2>2
  <2>4. SplitPoint(n, percent) \in Int
    <3> DEFINE x == (n * percent) \div 100
    <3>1. Min({n - 1, x}) \in Int
      <4>1. n - 1 \in Int /\ x \in Int
        BY <2>3
      <4> HIDE DEF x
      <4> QED BY <4>1, LargestOfTwo
    <3>2. Max({1, Min({n - 1, x})}) \in Int
      <4> HIDE DEF x
      <4> QED BY <3>1, LargestOfTwo
    <3> QED BY <3>2 DEF SplitPoint
  <2> QED BY <1>1, <2>1, <2>4 DEF Split
<1>3. ASSUME division \in Phases(n)
      PROVE  EndsBefore(division.training, division.evaluation)
  <2>1. PICK w \in 0 .. 9 :
          division = Division(<<0, PhaseCut(n, w)>>, <<PhaseCut(n, w), PhaseEnd(n, w)>>)
    BY <1>3 DEF Phases
  <2>2. PhaseEnd(n, w) \in Int
    <3>1. (n * (w + 1)) \div 10 \in Int
      OBVIOUS
    <3> QED BY <3>1, LargestOfTwo DEF PhaseEnd
  <2>3. PhaseCut(n, w) \in Int
    <3>1. (PhaseEnd(n, w) * 7) \div 10 \in Int
      BY <2>2
    <3> QED BY <3>1, LargestOfTwo DEF PhaseCut
  <2> QED BY <1>1, <2>1, <2>3
<1>4. ASSUME division \in OnlinePoints(n) PROVE division.training[2] = 0
  <2>1. PICK point \in 1 .. 10 : division = Division(<<0, 0>>, <<0, Max({2, (n * point) \div 10})>>)
    BY <1>4 DEF OnlinePoints
  <2> QED BY <2>1 DEF Division
<1> QED BY <1>2, <1>3, <1>4 DEF Divisions

\* Nothing is divided at first.
LEMMA DivideInvInit == StudyInit => DivideInv
BY DEF StudyInit, DivideInv

\* Only DivideTrace makes divisions.
LEMMA DivideInvStep == DivideInv /\ [StudyNext]_studyVars => DivideInv'
<1> SUFFICES ASSUME DivideInv, [StudyNext]_studyVars PROVE DivideInv'
  OBVIOUS
<1>1. ASSUME UNCHANGED <<program, rows>> PROVE DivideInv'
  BY <1>1 DEF DivideInv
<1>2. ASSUME program' # "divide" PROVE DivideInv'
  BY <1>2 DEF DivideInv
<1>3. CASE UNCHANGED studyVars
  BY <1>1, <1>3 DEF studyVars
<1>4. ASSUME NEW traces \in Traces, StartHybrid(traces) PROVE DivideInv'
  BY <1>2, <1>4 DEF StartHybrid
<1>5. CASE MeasureWindow
  BY <1>2, <1>5 DEF MeasureWindow
<1>6. ASSUME NEW budgets \in Budgets, ReportHybrid(budgets) PROVE DivideInv'
  BY <1>1, <1>6 DEF ReportHybrid
<1>7. ASSUME NEW n \in Lengths, DivideTrace(n) PROVE DivideInv'
  <2>1. n \in Nat
    BY StudyAssumption DEF StudyAssumption
  <2>2. PICK division \in Divisions(n) : rows' = <<division>>
    BY <1>7 DEF DivideTrace
  <2>3. \A i \in DOMAIN rows' : rows'[i] = division
    BY <2>2
  <2> QED BY <2>1, <2>3, DivisionIs DEF DivideInv
<1>8. CASE SimulateRow
  BY <1>2, <1>8 DEF SimulateRow
<1>9. ASSUME NEW p \in VerdictPrograms, Conclude(p) PROVE DivideInv'
  BY <1>2, <1>9, StudyAssumption DEF Conclude, VerdictPrograms, AnalysisPrograms, StudyAssumption
<1>10. CASE Improve
  BY <1>1, <1>10 DEF Improve
<1> QED BY <1>3, <1>4, <1>5, <1>6, <1>7, <1>8, <1>9, <1>10 DEF StudyNext

\* The hybrid study does not run at first.
LEMMA HybridInvInit == StudyInit => HybridInv
BY DEF StudyInit, HybridInv

\* The windows still to measure are in order when the first is taken.
LEMMA TailIs ==
  ASSUME NEW S, NEW s \in Seq(S), NEW G, Pairwise(s, G), s # <<>>
  PROVE  Head(s) \in S /\ Tail(s) \in Seq(S) /\ Pairwise(Tail(s), G)
<1>1. Tail(s) \in Seq(S) /\ Len(Tail(s)) = Len(s) - 1 /\ \A i \in 1 .. Len(s) - 1 : Tail(s)[i] = s[i + 1]
  OBVIOUS
<1>2. ASSUME NEW i \in 1 .. Len(s) - 1, NEW j \in 1 .. Len(s) - 1, i < j
      PROVE  <<Tail(s)[i], Tail(s)[j]>> \in G
  <2>1. i + 1 \in 1 .. Len(s) /\ j + 1 \in 1 .. Len(s) /\ i + 1 < j + 1
    BY <1>2
  <2> QED BY <1>1, <2>1 DEF Pairwise
<1> QED BY <1>1, <1>2 DEF Pairwise

\* run() plans windows in order, and a measured row has what the training gave.
LEMMA HybridInvStep == Idle /\ HybridInv /\ [StudyNext]_studyVars => HybridInv'
<1> SUFFICES ASSUME Idle, HybridInv, [StudyNext]_studyVars PROVE HybridInv'
  OBVIOUS
<1>1. ASSUME UNCHANGED <<program, plan, features, rows>> PROVE HybridInv'
  BY <1>1, Zenon DEF HybridInv, OfFeatures
<1>2. ASSUME program' # "hybrid" PROVE HybridInv'
  BY <1>2 DEF HybridInv
<1>3. CASE UNCHANGED studyVars
  BY <1>1, <1>3 DEF studyVars
<1>4. ASSUME NEW traces \in Traces, StartHybrid(traces) PROVE HybridInv'
  <2>1. traces \in Seq(Nat)
    BY StudyAssumption DEF StudyAssumption
  <2>2. plan' = WindowPlan(traces) /\ rows' = <<>>
    BY <1>4 DEF StartHybrid, Idle
  <2>3. plan' \in Seq(Trained) /\ Pairwise(plan, Ordered)'
    BY <2>1, <2>2, PlanIs DEF Pairwise
  <2>4. rows' \in Seq({}) /\ \A row \in {} : OfFeatures(row)'
    BY <2>2
  <2> QED BY <2>3, <2>4 DEF HybridInv
<1>5. CASE MeasureWindow
  <2>1. PICK outcome :
          rows' = Append(rows, MakeWindowRow(Head(plan), features[Head(plan).workload], outcome))
    BY <1>5 DEF MeasureWindow
  <2>2. UNCHANGED features /\ plan' = Tail(plan) /\ plan # <<>>
        /\ plan \in Seq(Trained) /\ Pairwise(plan, Ordered)
    BY <1>5 DEF MeasureWindow, HybridInv
  <2>3. plan' \in Seq(Trained) /\ Pairwise(plan', Ordered)
    BY <2>2, TailIs
  <2> DEFINE row == MakeWindowRow(Head(plan), features[Head(plan).workload], outcome)
  <2>4. PICK S : rows \in Seq(S) /\ \A other \in S : OfFeatures(other)
    BY <1>5 DEF MeasureWindow, HybridInv
  <2>5. OfFeatures(row)
    BY DEF OfFeatures, MakeWindowRow
  <2> HIDE DEF row
  <2>6. rows' \in Seq(S \cup {row})
    BY <2>1, <2>4 DEF row
  <2>7. \A other \in S \cup {row} : OfFeatures(other)'
    BY <2>2, <2>4, <2>5 DEF OfFeatures
  <2> QED BY <2>3, <2>6, <2>7 DEF HybridInv, Pairwise
<1>6. ASSUME NEW budgets \in Budgets, ReportHybrid(budgets) PROVE HybridInv'
  BY <1>1, <1>6 DEF ReportHybrid
<1>7. ASSUME NEW n \in Lengths, DivideTrace(n) PROVE HybridInv'
  BY <1>2, <1>7 DEF DivideTrace
<1>8. CASE SimulateRow
  BY <1>2, <1>8 DEF SimulateRow
<1>9. ASSUME NEW p \in VerdictPrograms, Conclude(p) PROVE HybridInv'
  BY <1>2, <1>9, StudyAssumption DEF Conclude, VerdictPrograms, AnalysisPrograms, StudyAssumption
<1>10. CASE Improve
  BY <1>1, <1>10 DEF Improve
<1> QED BY <1>3, <1>4, <1>5, <1>6, <1>7, <1>8, <1>9, <1>10 DEF StudyNext

\* Whatever simulating the newest row gives, every choice is the same.
LEMMA ChoicesBlind ==
  ASSUME NEW S, NEW work \in Seq(S), NEW other, NEW selector, selector # "WindowOracle",
         Len(work) > 0, SameKnown(other, work[Len(work)])
  PROVE  SelectorChoices([work EXCEPT ![Len(work)] = other], selector) = SelectorChoices(work, selector)
<1> DEFINE n == Len(work)
           changed == [work EXCEPT ![n] = other]
<1>1. n \in 1 .. n /\ DOMAIN work = 1 .. n /\ DOMAIN changed = 1 .. n
  OBVIOUS
<1> HIDE DEF n
<1>2. changed[n] = other /\ \A i \in 1 .. n : i # n => changed[i] = work[i]
  BY <1>1
<1> HIDE DEF changed
<1>3. ASSUME NEW i \in 1 .. n PROVE Prior(changed, i) = Prior(work, i)
  <2>1. \A k \in 1 .. i - 1 : changed[k] = work[k]
    BY <1>1, <1>2
  <2>2. Prior(changed, i) = [k \in 1 .. i - 1 |-> changed[k]]
    BY <1>1 DEF Prior
  <2>3. Prior(work, i) = [k \in 1 .. i - 1 |-> work[k]]
    BY <1>1 DEF Prior
  <2> QED BY <2>1, <2>2, <2>3
<1>4. ASSUME NEW prior PROVE SelectorChoice(other, selector, prior) = SelectorChoice(work[n], selector, prior)
  BY Zenon DEF SelectorChoice, ChoosesWAM, SameKnown, n
<1>5. ASSUME NEW i \in 1 .. n
      PROVE  SelectorChoice(changed[i], selector, Prior(changed, i))
               = SelectorChoice(work[i], selector, Prior(work, i))
  <2>1. CASE i = n
    BY <1>2, <1>3, <1>4, <2>1
  <2>2. CASE i # n
    BY <1>2, <1>3, <2>2
  <2> QED BY <2>1, <2>2
<1>6. SelectorChoices(changed, selector) = [i \in 1 .. n |-> SelectorChoice(changed[i], selector, Prior(changed, i))]
  BY <1>1 DEF SelectorChoices
<1>7. SelectorChoices(work, selector) = [i \in 1 .. n |-> SelectorChoice(work[i], selector, Prior(work, i))]
  BY <1>1 DEF SelectorChoices
<1>8. SelectorChoices(changed, selector) = SelectorChoices(work, selector)
  <2> DEFINE f == [i \in 1 .. n |-> SelectorChoice(changed[i], selector, Prior(changed, i))]
             g == [i \in 1 .. n |-> SelectorChoice(work[i], selector, Prior(work, i))]
  <2>1. f = g
    BY <1>5, Zenon
  <2> QED BY <1>6, <1>7, <2>1
<1> QED BY <1>8 DEF changed, n

\* The rows that a report reads, and those of one workload among them.
LEMMA PrimaryIs ==
  ASSUME NEW S, NEW measured \in Seq(S)
  PROVE  Primary(measured) \in Seq(S)
<1>1. ASSUME NEW size PROVE OfSize(measured, size) \in Seq(S)
  <2> DEFINE P == {i \in DOMAIN measured : measured[i].size = size}
  <2>1. OfSize(measured, size) = Kept(measured, P)
    BY DEF OfSize
  <2> HIDE DEF P
  <2>2. Kept(measured, P) \in Seq({measured[k] : k \in P \cap (1 .. Len(measured))})
    BY KeptIs
  <2>3. {measured[k] : k \in P \cap (1 .. Len(measured))} \subseteq S
    OBVIOUS
  <2> QED BY <2>1, <2>2, <2>3
<1> QED BY <1>1 DEF Primary

\* A workload that has rows keeps at least one.
LEMMA RowsOfAre ==
  ASSUME NEW S, NEW measured \in Seq(S), NEW w \in Workloads(measured)
  PROVE  /\ RowsOf(measured, w) \in Seq({row \in S : row.workload = w})
         /\ Len(RowsOf(measured, w)) > 0
<1> DEFINE P == {i \in DOMAIN measured : measured[i].workload = w}
<1>1. RowsOf(measured, w) = Kept(measured, P)
  BY DEF RowsOf
<1>2. PICK i \in 1 .. Len(measured) : measured[i].workload = w
  BY DEF Workloads
<1>3. P \cap (1 .. Len(measured)) # {}
  BY <1>2
<1>4. {measured[k] : k \in P \cap (1 .. Len(measured))} \subseteq {row \in S : row.workload = w}
  OBVIOUS
<1> HIDE DEF P
<1>5. /\ Kept(measured, P) \in Seq({measured[k] : k \in P \cap (1 .. Len(measured))})
      /\ Len(Kept(measured, P)) > 0
  BY <1>3, KeptIs
<1> QED BY <1>1, <1>4, <1>5

\* The invariants of both kinds of programs are what NoLookahead asks for.
LEMMA HybridSeesNoFuture == HybridInv /\ DivideInv => NoLookahead
<1> SUFFICES ASSUME HybridInv, DivideInv PROVE NoLookahead
  OBVIOUS
<1>1. CASE program = "hybrid"
  <2>1. plan \in Seq(Trained) /\ Pairwise(plan, Ordered)
    BY <1>1 DEF HybridInv
  <2>2. ASSUME NEW i \in DOMAIN plan PROVE plan[i] \in Window /\ EndsBefore(plan[i].training, plan[i].span)
    BY <2>1 DEF Trained
  <2>3. ASSUME NEW i \in DOMAIN plan, NEW j \in DOMAIN plan, i # j,
               plan[i].workload = plan[j].workload, plan[i].size = plan[j].size
        PROVE  Disjoint(plan[i].span, plan[j].span)
    <3>1. i \in 1 .. Len(plan) /\ j \in 1 .. Len(plan) /\ DOMAIN plan = 1 .. Len(plan)
      BY <2>1
    <3>2. CASE i < j
      <4>1. <<plan[i], plan[j]>> \in Ordered
        BY <2>1, <3>1, <3>2 DEF Pairwise
      <4> QED BY <2>3, <4>1 DEF Ordered, Disjoint
    <3>3. CASE j < i
      <4>1. <<plan[j], plan[i]>> \in Ordered
        BY <2>1, <3>1, <3>3 DEF Pairwise
      <4> QED BY <2>3, <4>1 DEF Ordered, Disjoint
    <3> QED BY <2>3, <3>1, <3>2, <3>3
  <2>4. ASSUME NEW w \in Workloads(Primary(rows)), NEW selector \in Selectors \ {"WindowOracle"}
        PROVE  LET work == RowsOf(Primary(rows), w)
                   n == Len(work)
               IN  \A outcome \in Outcomes[work[n].size] :
                     LET other == MakeWindowRow(work[n], features[w], outcome)
                     IN  /\ SameKnown(other, work[n])
                         /\ SelectorChoices([work EXCEPT ![n] = other], selector)
                              = SelectorChoices(work, selector)
    <3> DEFINE work == RowsOf(Primary(rows), w)
               n == Len(work)
    <3>1. PICK S : rows \in Seq(S) /\ \A row \in S : OfFeatures(row)
      BY <1>1 DEF HybridInv
    <3>2. work \in Seq({row \in S : row.workload = w}) /\ n > 0
      BY <3>1, PrimaryIs, RowsOfAre
    <3>3. selector # "WindowOracle"
      BY <2>4
    <3> HIDE DEF work
    <3>4. work[n] \in S /\ work[n].workload = w
      BY <3>2
    <3>5. ASSUME NEW outcome
          PROVE  /\ SameKnown(MakeWindowRow(work[n], features[w], outcome), work[n])
                 /\ SelectorChoices([work EXCEPT ![n] = MakeWindowRow(work[n], features[w], outcome)], selector)
                      = SelectorChoices(work, selector)
      <4>1. SameKnown(MakeWindowRow(work[n], features[w], outcome), work[n])
        BY <3>1, <3>4 DEF SameKnown, MakeWindowRow, OfFeatures
      <4> QED BY <3>2, <3>3, <4>1, ChoicesBlind
    <3> QED BY <3>5, Zenon DEF work
  <2> QED BY <1>1, <2>2, <2>3, <2>4, Zenon DEF NoLookahead
<1>2. CASE program = "divide"
  BY <1>2 DEF NoLookahead, DivideInv
<1>3. CASE program # "hybrid" /\ program # "divide"
  BY <1>3 DEF NoLookahead
<1> QED BY <1>1, <1>2, <1>3

\* No evaluation sees its own future: split() and its like divide by time, sampled_windows()
\* gives windows that follow the training and do not overlap, and no selector but the
\* window oracle chooses by what simulating the window gave, for traces of any length.
THEOREM NothingSeesItsFuture == StudySpec => []NoLookahead
<1>1. StudyInit => Idle /\ HybridInv /\ DivideInv
  BY IdleInit, HybridInvInit, DivideInvInit
<1>2. Idle /\ HybridInv /\ DivideInv /\ [StudyNext]_studyVars => (Idle /\ HybridInv /\ DivideInv)'
  BY IdleStep, HybridInvStep, DivideInvStep
<1>3. Idle /\ HybridInv /\ DivideInv => NoLookahead
  BY HybridSeesNoFuture
<1> QED BY <1>1, <1>2, <1>3, PTL DEF StudySpec

----------------------------------------------------------------------------
(* Better evidence, program by program.                                    *)

\* What better evidence means for each program.
LEMMA HorizonContinues ==
  ASSUME NEW e, NEW f, IsEvidence("horizon", e), IsEvidence("horizon", f), Better("horizon", e, f),
         Continues("horizon", e)
  PROVE  Continues("horizon", f)
<1> DEFINE Fields == {"oracle", "wam", "overhead", "hidden", "fraction", "dropped", "useful"}
<1>1. /\ e \in [oracle : Int, wam : Int, overhead : Int, hidden : Int, fraction : Int, dropped : Int, useful : Int]
      /\ f \in [oracle : Int, wam : Int, overhead : Int, hidden : Int, fraction : Int, dropped : Int, useful : Int]
  BY DEF IsEvidence
<1>2. DOMAIN e = Fields
  BY <1>1
<1>3. \A field \in Fields :
        /\ field \in {"oracle", "wam", "hidden", "fraction", "useful"} => f[field] >= e[field]
        /\ field \in {"overhead", "dropped"} => f[field] <= e[field]
  BY <1>2 DEF Better, Rising, Falling
<1>4. /\ f.oracle >= e.oracle /\ f.wam >= e.wam /\ f.hidden >= e.hidden /\ f.fraction >= e.fraction
      /\ f.useful >= e.useful /\ f.overhead <= e.overhead /\ f.dropped <= e.dropped
  BY <1>3
<1>5. HorizonClass(e) = "F"
  BY DEF Continues, Class, Continuing
<1>6. HorizonClass(f) = "F"
  BY <1>1, <1>4, <1>5 DEF HorizonClass, LargerOf
<1> QED BY <1>6 DEF Continues, Class, Continuing

\* DirectWAM-H16 faster and more often the winner stays class E.
LEMMA RealTraceContinues ==
  ASSUME NEW e, NEW f, IsEvidence("real_trace", e), IsEvidence("real_trace", f),
         Better("real_trace", e, f), Continues("real_trace", e)
  PROVE  Continues("real_trace", f)
<1> DEFINE Fields == {"wam", "prior", "wins", "workloads", "hybrid", "gains"}
<1>1. /\ e \in [wam : Int, prior : Int, wins : Nat, workloads : Nat, hybrid : Int, gains : BOOLEAN]
      /\ f \in [wam : Int, prior : Int, wins : Nat, workloads : Nat, hybrid : Int, gains : BOOLEAN]
  BY DEF IsEvidence
<1>2. DOMAIN e = Fields
  BY <1>1
<1>3. \A field \in Fields :
        /\ field \in {"wam", "wins"} => f[field] >= e[field]
        /\ field \in {"prior", "workloads"} => f[field] = e[field]
  BY <1>2 DEF Better, Rising, Falling, RisingEach, Attained
<1>4. f.wam >= e.wam /\ f.wins >= e.wins /\ f.prior = e.prior /\ f.workloads = e.workloads
  BY <1>3
<1>5. RealTraceClass(e) = "E"
  BY DEF Continues, Class, Continuing
<1>6. e.wam > e.prior /\ e.wins >= LargerOf(2, e.workloads \div 3)
  BY <1>5 DEF RealTraceClass
<1>7. e.workloads \div 3 \in Nat
  BY <1>1
<1>8. f.wam > f.prior /\ f.wins >= LargerOf(2, f.workloads \div 3)
  BY <1>1, <1>4, <1>6, <1>7 DEF LargerOf
<1>9. RealTraceClass(f) = "E"
  BY <1>8 DEF RealTraceClass
<1> QED BY <1>9 DEF Continues, Class, Continuing

\* More accuracy, reuse and entropy drop at depth 4 never reach classes A, B and D: class E
\* stays, or becomes C if the accuracy has passed 90%.
LEMMA DiagnosticsContinue ==
  ASSUME NEW e, NEW f, IsEvidence("diagnostics", e), IsEvidence("diagnostics", f),
         Better("diagnostics", e, f), Continues("diagnostics", e)
  PROVE  Continues("diagnostics", f) <=> ~ (Accurate(f) /\ ~ Accurate(e))
<1> DEFINE Fields == {"oracle1", "oracle4", "actual4", "reuse4", "entropyDrop"}
<1>1. /\ e \in [oracle1 : Int, oracle4 : Int, actual4 : Int, reuse4 : Int, entropyDrop : Int]
      /\ f \in [oracle1 : Int, oracle4 : Int, actual4 : Int, reuse4 : Int, entropyDrop : Int]
  BY DEF IsEvidence
<1>2. DOMAIN e = Fields
  BY <1>1
<1>3. \A field \in Fields :
        IF field \in {"actual4", "reuse4", "entropyDrop"} THEN f[field] >= e[field] ELSE f[field] = e[field]
  BY <1>2 DEF Better, Rising, Falling, RisingEach, Attained
<1>4. /\ f.actual4 >= e.actual4 /\ f.reuse4 >= e.reuse4 /\ f.entropyDrop >= e.entropyDrop
      /\ f.oracle1 = e.oracle1 /\ f.oracle4 = e.oracle4
  BY <1>3
<1>5. DiagnosticsClass(e) = "E"
  BY DEF Continues, Class, Continuing
<1>6. ~ Accurate(e)
  BY <1>5 DEF DiagnosticsClass
<1>7. DiagnosticsClass(f) = IF Accurate(f) THEN "C" ELSE "E"
  BY <1>1, <1>4, <1>5 DEF DiagnosticsClass, HigherOrderSignal
<1> QED BY <1>6, <1>7 DEF Continues, Class, Continuing

\* More recovery and less that a direct table hits or the oracle covers stay class E.
LEMMA SetAssocContinues ==
  ASSUME NEW e, NEW f, IsEvidence("set_assoc", e), IsEvidence("set_assoc", f),
         Better("set_assoc", e, f), Continues("set_assoc", e)
  PROVE  Continues("set_assoc", f)
<1> DEFINE Fields == {"setHits", "directHits", "coverage", "accuracy", "shadow", "oracle", "delta"}
<1>1. /\ e \in [setHits : Int, directHits : Int, coverage : Int, accuracy : Int, shadow : Int, oracle : Int,
                delta : Int]
      /\ f \in [setHits : Int, directHits : Int, coverage : Int, accuracy : Int, shadow : Int, oracle : Int,
                delta : Int]
  BY DEF IsEvidence
<1>2. DOMAIN e = Fields
  BY <1>1
<1>3. \A field \in Fields :
        IF field \in {"setHits", "coverage", "accuracy", "shadow", "delta"} THEN f[field] >= e[field]
        ELSE f[field] <= e[field]
  BY <1>2 DEF Better, Rising, Falling
<1>4. /\ f.setHits >= e.setHits /\ f.coverage >= e.coverage /\ f.accuracy >= e.accuracy
      /\ f.shadow >= e.shadow /\ f.delta >= e.delta
      /\ f.directHits <= e.directHits /\ f.oracle <= e.oracle
  BY <1>3
<1>5. SetAssocClass(e) = "E"
  BY DEF Continues, Class, Continuing
<1>6. SetAssocClass(f) = "E"
  BY <1>1, <1>4, <1>5 DEF SetAssocClass, StateRecovered, Recovers
<1> QED BY <1>6 DEF Continues, Class, Continuing

\* Faster systems, or cheaper ones, stay plausible: classes E, F and G.
LEMMA HardwareContinues ==
  ASSUME NEW e, NEW f, IsEvidence("hardware", e), IsEvidence("hardware", f),
         Better("hardware", e, f), Continues("hardware", e)
  PROVE  Continues("hardware", f)
<1> DEFINE Fields == {"speedup", "budget", "fraction", "energy"}
<1>1. /\ e \in [speedup : [HardwareModelNames -> Int], budget : Int,
                fraction : [HardwareModelNames -> Int], energy : Int]
      /\ f \in [speedup : [HardwareModelNames -> Int], budget : Int,
                fraction : [HardwareModelNames -> Int], energy : Int]
  BY DEF IsEvidence
<1>2. DOMAIN e = Fields
  BY <1>1
<1>3. /\ f["budget"] >= e["budget"] /\ f["energy"] <= e["energy"]
      /\ \A system \in DOMAIN e["speedup"] : f["speedup"][system] >= e["speedup"][system]
      /\ \A system \in DOMAIN e["fraction"] : f["fraction"][system] >= e["fraction"][system]
  BY <1>2 DEF Better, Rising, Falling, RisingEach, Attained
<1>4. /\ f.budget >= e.budget /\ f.energy <= e.energy
      /\ \A system \in HardwareModelNames :
           /\ f.speedup[system] >= e.speedup[system] /\ f.fraction[system] >= e.fraction[system]
           /\ f.speedup[system] \in Int /\ e.speedup[system] \in Int
           /\ f.fraction[system] \in Int /\ e.fraction[system] \in Int
  BY <1>1, <1>3
<1>5. HardwareClass(e) \in {"E", "F", "G"}
  BY DEF Continues, Class, Continuing
<1>6. /\ \E system \in HardwareModelNames : ~ (e.speedup[system] <= 100)
      /\ ~ (e.budget <= 100) /\ ~ (e.energy > 200)
      /\ Plausible(e, "HashedContext") \/ Plausible(e, "PipelinedTrie")
  BY <1>5 DEF HardwareClass
<1>7. "HashedContext" \in HardwareModelNames /\ "PipelinedTrie" \in HardwareModelNames
  BY DEF HardwareModelNames
<1>8. /\ \E system \in HardwareModelNames : ~ (f.speedup[system] <= 100)
      /\ ~ (f.budget <= 100) /\ ~ (f.energy > 200)
      /\ Plausible(f, "HashedContext") \/ Plausible(f, "PipelinedTrie")
  BY <1>1, <1>4, <1>6, <1>7 DEF Plausible
<1>9. HardwareClass(f) \in {"E", "F", "G"}
  BY <1>8 DEF HardwareClass
<1> QED BY <1>9 DEF Continues, Class, Continuing

\* Higher accuracy at depth 16 never reaches class A, by the sums of all traces.
LEMMA FinalContinues ==
  ASSUME NEW e, NEW f, IsEvidence("final", e), IsEvidence("final", f), Better("final", e, f),
         Continues("final", e)
  PROVE  Continues("final", f)
<1> DEFINE D == DOMAIN e.h16
<1>1. /\ DOMAIN e = {"h16", "reuse", "deltaAdvantage", "hitRate", "generates", "shadow", "accepts", "useful"}
      /\ IsFiniteSet(D) /\ e.h16 \in [D -> Int] /\ e.reuse \in Int
      /\ f.h16 \in [DOMAIN f.h16 -> Int] /\ f.reuse \in Int
  BY DEF IsEvidence
<1>2. /\ f["reuse"] >= e["reuse"] /\ DOMAIN f["h16"] = DOMAIN e["h16"]
      /\ \A i \in DOMAIN e["h16"] : f["h16"][i] >= e["h16"][i]
  BY <1>1 DEF Better, Rising, Falling, RisingEach, Attained
<1>3. /\ f.reuse >= e.reuse /\ DOMAIN f.h16 = D /\ f.h16 \in [D -> Int]
      /\ \A i \in D : f.h16[i] >= e.h16[i]
  BY <1>1, <1>2
<1> HIDE DEF D
<1>4. /\ SumFunction(e.h16) \in Int /\ SumFunction(f.h16) \in Int
      /\ SumFunction(f.h16) >= SumFunction(e.h16)
  BY <1>1, <1>3, SumRises
<1>5. Cardinality(D) \in Nat
  BY <1>1, FS_CardinalityType
<1> DEFINE Low(x) == /\ x.reuse < 1 /\ SumFunction(x.h16) < 10 * Cardinality(DOMAIN x.h16)
                     /\ \A trace \in DOMAIN x.h16 : x.h16[trace] < 25
<1>6. ASSUME Low(f) PROVE Low(e)
  <2>1. DOMAIN e.h16 = D
    BY DEF D
  <2>2. \A i \in D : f.h16[i] \in Int /\ e.h16[i] \in Int
    BY <1>1, <1>3
  <2>3. \A i \in D : e.h16[i] < 25
    BY <1>3, <1>6, <2>2
  <2>4. SumFunction(e.h16) < 10 * Cardinality(D)
    BY <1>3, <1>4, <1>5, <1>6
  <2> QED BY <1>1, <1>3, <1>6, <2>1, <2>3, <2>4
<1>7. FinalClass(e) \in {"B", "C", "D", "E", "F"}
  BY DEF Continues, Class, Continuing
<1>8. ~ Low(e)
  BY <1>7 DEF FinalClass
<1>9. FinalClass(f) \in {"B", "C", "D", "E", "F"}
  <2>1. ~ Low(f)
    BY <1>6, <1>8
  <2> QED BY <2>1 DEF FinalClass
<1> QED BY <1>9 DEF Continues, Class, Continuing

\* A geometric mean of ratios rises with the numerators.
LEMMA GmeanRises ==
  ASSUME NEW traces, IsFiniteSet(traces), NEW num, NEW better, NEW den, NEW p \in Nat, NEW q \in Nat,
         \A t \in traces : num[t] \in Nat /\ better[t] \in Nat /\ better[t] >= num[t],
         \A t \in traces : den[t] \in Nat,
         GmeanAtLeast(traces, num, den, p, q)
  PROVE  GmeanAtLeast(traces, better, den, p, q)
<1> DEFINE a == [t \in traces |-> num[t] * q]
           b == [t \in traces |-> better[t] * q]
           c == [t \in traces |-> den[t] * p]
<1>1. ASSUME NEW t \in traces
      PROVE  num[t] * q \in Nat /\ better[t] * q \in Nat /\ den[t] * p \in Nat /\ better[t] * q >= num[t] * q
  <2>1. num[t] \in Nat /\ better[t] \in Nat /\ den[t] \in Nat /\ better[t] >= num[t]
    OBVIOUS
  <2> DEFINE x == num[t]
             y == better[t]
  <2> HIDE DEF x, y
  <2>2. x \in Nat /\ y \in Nat /\ y >= x
    BY <2>1 DEF x, y
  <2>3. y * q >= x * q /\ x * q \in Nat /\ y * q \in Nat
    BY <2>2, ProductsRise
  <2>4. den[t] * p \in Nat
    BY <2>1
  <2> QED BY <2>3, <2>4 DEF x, y
<1>2. /\ a \in [traces -> Nat] /\ b \in [traces -> Nat] /\ c \in [traces -> Nat]
      /\ \A t \in traces : b[t] >= a[t]
  BY <1>1
<1>3. traces # {} /\ ProductOf(a) >= ProductOf(c)
  BY DEF GmeanAtLeast
<1>4. \A t \in traces : c[t] >= c[t]
  BY <1>2
<1> HIDE DEF a, b, c
<1>5. ProductOf(a) \in Nat /\ ProductOf(b) \in Nat /\ ProductOf(b) >= ProductOf(a)
  BY <1>2, ProductRises
<1>6. ProductOf(c) \in Nat
  BY <1>2, <1>4, ProductRises
<1>7. ProductOf(b) >= ProductOf(c)
  BY <1>3, <1>5, <1>6
<1> QED BY <1>3, <1>7 DEF GmeanAtLeast, b, c

\* The completed traces and the strong baseline do not change, the hybrid pays as before, and
\* DirectWAM-H16 wins no fewer traces: few wins are new only where there was none.
LEMMA RealEvalContinues ==
  ASSUME NEW e, NEW f, IsEvidence("real_eval", e), IsEvidence("real_eval", f),
         Better("real_eval", e, f), Continues("real_eval", e)
  PROVE  Continues("real_eval", f)
           <=> ~ (CompleteTraces(e) = DOMAIN e.ipc /\ WamWins(e) = 0 /\ FewWins(f))
<1> DEFINE D == DOMAIN e.ipc
           H == "Hybrid-SPP+WAM"
           W == "WAM-H16"
           Ours == {W, H}
           complete == CompleteTraces(e)
<1>1. /\ IsFiniteSet(D) /\ e.ipc \in [D -> [PREDICTORS -> Nat]]
      /\ f.ipc \in [DOMAIN f.ipc -> [PREDICTORS -> Nat]]
      /\ e.irregular \subseteq D
  BY DEF IsEvidence
<1>2. /\ f.irregular = e.irregular /\ DOMAIN f.ipc = D
      /\ \A t \in D :
           /\ \A q \in Ours : f.ipc[t][q] >= e.ipc[t][q] /\ (f.ipc[t][q] = 0) = (e.ipc[t][q] = 0)
           /\ \A q \in PREDICTORS \ Ours : f.ipc[t][q] = e.ipc[t][q]
  BY DEF Better, OwnPredictors
<1>3. /\ H \in Ours /\ W \in Ours /\ H \in PREDICTORS /\ W \in PREDICTORS
      /\ {"NoPrefetch", "NativeSPP", "NativeIPStride"} \subseteq PREDICTORS \ Ours
  BY DEF PREDICTORS
<1> HIDE DEF D, H, W, Ours
<1>4. \A t \in D, q \in PREDICTORS : e.ipc[t][q] \in Nat /\ f.ipc[t][q] \in Nat
  BY <1>1, <1>2
<1>5. CompleteTraces(f) = complete
  <2>1. ASSUME NEW t \in D PROVE (\A q \in PREDICTORS : f.ipc[t][q] > 0) = (\A q \in PREDICTORS : e.ipc[t][q] > 0)
    <3>1. ASSUME NEW q \in PREDICTORS PROVE (f.ipc[t][q] > 0) = (e.ipc[t][q] > 0)
      <4>1. CASE q \in Ours
        <5>1. f.ipc[t][q] \in Nat /\ e.ipc[t][q] \in Nat /\ (f.ipc[t][q] = 0) = (e.ipc[t][q] = 0)
          BY <1>2, <1>4, <4>1
        <5> QED BY <5>1
      <4>2. CASE q \notin Ours
        BY <1>2, <4>2
      <4> QED BY <4>1, <4>2
    <3> QED BY <3>1
  <2>2. CompleteTraces(f) = {t \in D : \A q \in PREDICTORS : f.ipc[t][q] > 0}
    BY <1>2 DEF CompleteTraces
  <2>3. complete = {t \in D : \A q \in PREDICTORS : e.ipc[t][q] > 0}
    BY DEF CompleteTraces, D
  <2> HIDE DEF complete
  <2> QED BY <2>1, <2>2, <2>3
<1>6. complete \subseteq D /\ IsFiniteSet(complete)
  <2>1. complete \subseteq D
    BY DEF CompleteTraces, D
  <2> QED BY <1>1, <2>1, FS_Subset
<1> HIDE DEF complete
<1>7. ASSUME NEW q \in PREDICTORS \ Ours PROVE IpcUnder(f, q) = IpcUnder(e, q)
  BY <1>2 DEF IpcUnder, D
<1>8. StrongBaseline(f) = StrongBaseline(e)
  <2>1. IpcUnder(f, "NativeSPP") = IpcUnder(e, "NativeSPP") /\ IpcUnder(f, "NativeIPStride") = IpcUnder(e, "NativeIPStride")
    BY <1>3, <1>7
  <2> QED BY <1>5, <2>1 DEF StrongBaseline, complete
<1> DEFINE strong == StrongBaseline(e)
<1>9. strong \in PREDICTORS \ Ours
  BY <1>3 DEF StrongBaseline
<1> HIDE DEF strong
<1> DEFINE Pays(x) == GmeanAtLeast(CompleteTraces(x), IpcUnder(x, H), IpcUnder(x, StrongBaseline(x)), 101, 100)
           GoesOn(x) == CompleteTraces(x) # DOMAIN x.ipc \/ (Pays(x) /\ ~ FewWins(x))
<1>10. Pays(e) => Pays(f)
  <2> DEFINE num == IpcUnder(e, H)
             better == IpcUnder(f, H)
             den == IpcUnder(e, strong)
  <2>1. \A t \in complete : num[t] \in Nat /\ better[t] \in Nat /\ better[t] >= num[t]
    BY <1>2, <1>3, <1>4, <1>6 DEF IpcUnder, D
  <2>2. \A t \in complete : den[t] \in Nat
    BY <1>3, <1>4, <1>6, <1>9 DEF IpcUnder, D
  <2>3. IpcUnder(f, strong) = den
    BY <1>7, <1>9
  <2> HIDE DEF num, better, den
  <2>4. GmeanAtLeast(complete, num, den, 101, 100) => GmeanAtLeast(complete, better, den, 101, 100)
    BY <1>6, <2>1, <2>2, GmeanRises
  <2>5. Pays(e) = GmeanAtLeast(complete, num, den, 101, 100)
    BY DEF complete, num, den, strong
  <2>6. Pays(f) = GmeanAtLeast(complete, better, den, 101, 100)
    BY <1>5, <1>8, <2>3 DEF better, strong
  <2> QED BY <2>4, <2>5, <2>6
<1>11. WamWins(e) \in Nat /\ WamWins(f) \in Nat /\ WamWins(e) <= WamWins(f)
  <2> DEFINE Won(x) == {t \in complete : 100 * x.ipc[t]["WAM-H16"] >= 102 * x.ipc[t]["NoPrefetch"]}
  <2>1. WamWins(e) = Cardinality(Won(e)) /\ WamWins(f) = Cardinality(Won(f))
    BY <1>5 DEF WamWins, complete
  <2>2. Won(e) \subseteq Won(f)
    <3>1. ASSUME NEW t \in complete
          PROVE  /\ f.ipc[t]["WAM-H16"] >= e.ipc[t]["WAM-H16"]
                 /\ f.ipc[t]["NoPrefetch"] = e.ipc[t]["NoPrefetch"]
                 /\ f.ipc[t]["WAM-H16"] \in Nat /\ e.ipc[t]["WAM-H16"] \in Nat
                 /\ e.ipc[t]["NoPrefetch"] \in Nat
      BY <1>2, <1>3, <1>4, <1>6 DEF W
    <3> QED BY <3>1
  <2>3. Won(e) \subseteq complete /\ Won(f) \subseteq complete
    OBVIOUS
  <2> HIDE DEF Won
  <2>4. IsFiniteSet(Won(e)) /\ IsFiniteSet(Won(f))
    BY <1>6, <2>3, FS_Subset
  <2>5. Cardinality(Won(e)) <= Cardinality(Won(f)) /\ Cardinality(Won(e)) \in Nat /\ Cardinality(Won(f)) \in Nat
    BY <2>2, <2>4, FS_Subset, FS_CardinalityType
  <2> QED BY <2>1, <2>5
<1>12. ASSUME NEW x PROVE RealEvalClass(x) \in {"D", "E", "F", "incomplete"} <=> GoesOn(x)
  BY DEF RealEvalClass, H
<1>13. GoesOn(e)
  <2>1. RealEvalClass(e) \in {"D", "E", "F", "incomplete"}
    BY DEF Continues, Class, Continuing
  <2> QED BY <1>12, <2>1
<1>14. CompleteTraces(f) = CompleteTraces(e) /\ DOMAIN f.ipc = DOMAIN e.ipc
  BY <1>2, <1>5 DEF D, complete
<1>15. ASSUME CompleteTraces(e) = DOMAIN e.ipc, FewWins(f) PROVE WamWins(e) = 0
  <2>1. ~ FewWins(e)
    BY <1>13, <1>15
  <2> DEFINE limit == LargerOf(2, Cardinality(CompleteTraces(e)) \div 3)
  <2>2. limit \in Int
    <3>1. Cardinality(complete) \in Nat
      BY <1>6, FS_CardinalityType
    <3> QED BY <3>1 DEF LargerOf, complete
  <2>3. ~ (WamWins(e) > 0 /\ WamWins(e) <= limit) /\ WamWins(f) <= limit
    BY <1>14, <1>15, <2>1 DEF FewWins
  <2> HIDE DEF limit
  <2> QED BY <1>11, <2>2, <2>3
<1>16. GoesOn(f) <=> ~ (CompleteTraces(e) = DOMAIN e.ipc /\ WamWins(e) = 0 /\ FewWins(f))
  <2> HIDE DEF Pays
  <2> QED BY <1>10, <1>13, <1>14, <1>15
<1>17. Continues("real_eval", f) <=> RealEvalClass(f) \in {"D", "E", "F", "incomplete"}
  BY DEF Continues, Class, Continuing
<1> QED BY <1>12, <1>16, <1>17

----------------------------------------------------------------------------
(* Verdicts.                                                               *)

\* What a verdict program has concluded follows from evidence that it may find.
VerdictInv ==
  program \in VerdictPrograms =>
    /\ conclusion.evidence \in Evidence[program]
    /\ conclusion = Concluded(program, conclusion.evidence)

\* The programs that measure are not those that conclude.
LEMMA NotVerdictPrograms ==
  "none" \notin VerdictPrograms /\ "hybrid" \notin VerdictPrograms /\ "divide" \notin VerdictPrograms
  /\ "sweep" \notin VerdictPrograms
BY StudyAssumption DEF StudyAssumption, VerdictPrograms, AnalysisPrograms

\* Nothing is concluded at first.
LEMMA VerdictInvInit == StudyInit => VerdictInv
BY NotVerdictPrograms DEF StudyInit, VerdictInv

\* Conclude and Improve conclude from evidence, and nothing else changes what they conclude.
LEMMA VerdictInvStep == VerdictInv /\ [StudyNext]_studyVars => VerdictInv'
<1> SUFFICES ASSUME VerdictInv, [StudyNext]_studyVars PROVE VerdictInv'
  OBVIOUS
<1>1. ASSUME program' \in VerdictPrograms => UNCHANGED <<program, conclusion>> PROVE VerdictInv'
  BY <1>1 DEF VerdictInv, VerdictPrograms, Concluded
<1>2. ASSUME NEW e \in Evidence[program'], conclusion' = Concluded(program', e) PROVE VerdictInv'
  <2>1. conclusion'.evidence = e
    BY <1>2 DEF Concluded
  <2> QED BY <1>2, <2>1 DEF VerdictInv, Concluded
<1>3. CASE UNCHANGED studyVars
  BY <1>1, <1>3 DEF studyVars
<1>4. ASSUME NEW traces \in Traces, StartHybrid(traces) PROVE VerdictInv'
  BY <1>1, <1>4, NotVerdictPrograms DEF StartHybrid
<1>5. CASE MeasureWindow
  BY <1>1, <1>5 DEF MeasureWindow
<1>6. ASSUME NEW budgets \in Budgets, ReportHybrid(budgets) PROVE VerdictInv'
  BY <1>1, <1>6, NotVerdictPrograms DEF ReportHybrid
<1>7. ASSUME NEW n \in Lengths, DivideTrace(n) PROVE VerdictInv'
  BY <1>1, <1>7, NotVerdictPrograms DEF DivideTrace
<1>8. CASE SimulateRow
  BY <1>1, <1>8, NotVerdictPrograms DEF SimulateRow
<1>9. ASSUME NEW p \in VerdictPrograms, Conclude(p) PROVE VerdictInv'
  BY <1>2, <1>9 DEF Conclude
<1>10. CASE Improve
  BY <1>2, <1>10 DEF Improve
<1> QED BY <1>3, <1>4, <1>5, <1>6, <1>7, <1>8, <1>9, <1>10 DEF StudyNext

\* Every program that goes on still does when its evidence is better, but for the two
\* thresholds.
LEMMA BetterContinues ==
  ASSUME NEW p \in VerdictPrograms, NEW e \in Evidence[p], NEW f \in Evidence[p], Better(p, e, f),
         Continues(p, e)
  PROVE  Continues(p, f) <=> ~ Overturns(p, e, f)
<1>1. p \in AnalysisPrograms /\ IsEvidence(p, e) /\ IsEvidence(p, f)
  BY StudyAssumption DEF StudyAssumption, VerdictPrograms
<1>2. \/ p = "horizon" \/ p = "hardware" \/ p = "real_trace" \/ p = "diagnostics"
      \/ p = "set_assoc" \/ p = "final" \/ p = "real_eval"
  BY <1>1 DEF AnalysisPrograms
<1>3. CASE p = "horizon"
  BY <1>1, <1>3, HorizonContinues DEF Overturns
<1>4. CASE p = "hardware"
  BY <1>1, <1>4, HardwareContinues DEF Overturns
<1>5. CASE p = "real_trace"
  BY <1>1, <1>5, RealTraceContinues DEF Overturns
<1>6. CASE p = "diagnostics"
  BY <1>1, <1>6, DiagnosticsContinue DEF Overturns
<1>7. CASE p = "set_assoc"
  BY <1>1, <1>7, SetAssocContinues DEF Overturns
<1>8. CASE p = "final"
  BY <1>1, <1>8, FinalContinues DEF Overturns
<1>9. CASE p = "real_eval"
  BY <1>1, <1>9, RealEvalContinues DEF Overturns
<1> QED BY <1>2, <1>3, <1>4, <1>5, <1>6, <1>7, <1>8, <1>9

\* A report that goes on read a gain of the oracle over the windows that are printed.
LEMMA ClassCIsPrinted ==
  ASSUME NEW measured, NEW budgets, Classification(measured, budgets) = "C"
  PROVE  PrintedContinue(measured)
<1>1. OracleGains(OracleRows(measured)) /\ CheapGains(measured)
  BY DEF Classification
<1>2. Primary(measured) # <<>>
  BY <1>1, Zenon DEF CheapGains
<1>3. OracleRows(measured) = Primary(measured)
  BY <1>2, Zenon DEF OracleRows
<1> QED BY <1>1, <1>2, <1>3, Zenon DEF PrintedContinue

Coherent ==
  /\ program' \in VerdictPrograms /\ conclusion # NoVerdict /\ conclusion.continue =>
       (conclusion'.continue <=> ~ Overturns(program', conclusion.evidence, conclusion'.evidence))
  /\ program' = "hybrid" /\ conclusion' # NoVerdict => (conclusion'.continue => conclusion'.printed)

\* What VerdictsCoherent says of one step.
LEMMA CoherentStep == Idle /\ VerdictInv /\ [StudyNext]_studyVars => [Coherent]_studyVars
<1> SUFFICES ASSUME Idle, VerdictInv, StudyNext, studyVars' # studyVars PROVE Coherent
  OBVIOUS
<1>1. ASSUME program' \notin VerdictPrograms, program' # "hybrid" PROVE Coherent
  BY <1>1 DEF Coherent
<1>2. ASSUME program' = "hybrid", conclusion' = NoVerdict PROVE Coherent
  BY <1>2, NotVerdictPrograms DEF Coherent
<1>3. ASSUME program' \in VerdictPrograms, conclusion = NoVerdict PROVE Coherent
  BY <1>3, NotVerdictPrograms DEF Coherent
<1>4. ASSUME NEW traces \in Traces, StartHybrid(traces) PROVE Coherent
  BY <1>2, <1>4 DEF StartHybrid, Idle
<1>5. CASE MeasureWindow
  BY <1>2, <1>5 DEF MeasureWindow
<1>6. ASSUME NEW budgets \in Budgets, ReportHybrid(budgets) PROVE Coherent
  <2>1. program' = "hybrid" /\ program' \notin VerdictPrograms
    BY <1>6, NotVerdictPrograms DEF ReportHybrid
  <2>2. conclusion'.continue = ContinueResearch(rows, budgets) /\ conclusion'.printed = PrintedContinue(rows)
    BY <1>6 DEF ReportHybrid
  <2>3. ContinueResearch(rows, budgets) => PrintedContinue(rows)
    BY ClassCIsPrinted DEF ContinueResearch
  <2> QED BY <2>1, <2>2, <2>3 DEF Coherent
<1>7. ASSUME NEW n \in Lengths, DivideTrace(n) PROVE Coherent
  BY <1>1, <1>7, NotVerdictPrograms DEF DivideTrace
<1>8. CASE SimulateRow
  BY <1>1, <1>8, NotVerdictPrograms DEF SimulateRow
<1>9. ASSUME NEW p \in VerdictPrograms, Conclude(p) PROVE Coherent
  BY <1>3, <1>9 DEF Conclude, Idle
<1>10. CASE Improve
  <2> DEFINE e == conclusion.evidence
  <2>1. program \in VerdictPrograms /\ program' = program /\ program' # "hybrid"
    BY <1>10, NotVerdictPrograms DEF Improve
  <2>2. e \in Evidence[program] /\ conclusion = Concluded(program, e)
    BY <2>1 DEF VerdictInv
  <2>3. PICK f \in Evidence[program] : Better(program, e, f) /\ conclusion' = Concluded(program, f)
    BY <1>10 DEF Improve
  <2> HIDE DEF e
  <2>4. conclusion.continue = Continues(program, e) /\ conclusion'.continue = Continues(program, f)
    BY <2>2, <2>3 DEF Concluded
  <2>5. Continues(program, e) => (Continues(program, f) <=> ~ Overturns(program, e, f))
    BY <2>1, <2>2, <2>3, BetterContinues
  <2>6. conclusion'.evidence = f
    BY <2>3 DEF Concluded
  <2> QED BY <2>1, <2>4, <2>5, <2>6 DEF Coherent, e
<1> QED BY <1>4, <1>5, <1>6, <1>7, <1>8, <1>9, <1>10 DEF StudyNext

\* Which better results end a line of research: of the seven verdict functions only two turn
\* from going on to stopping when what they read of the mechanism improves, write_report() of
\* the diagnostics where depth-4 accuracy passes 90% and main() of the real-trace summary
\* where DirectWAM-H16 wins its first traces, and there they always do; and build_report()
\* never goes on where print_verdict() stops.
THEOREM TwoReversals == StudySpec => VerdictsCoherent
<1>1. StudyInit => Idle /\ VerdictInv
  BY IdleInit, VerdictInvInit
<1>2. Idle /\ VerdictInv /\ [StudyNext]_studyVars => (Idle /\ VerdictInv)'
  BY IdleStep, VerdictInvStep
<1>3. Idle /\ VerdictInv /\ [StudyNext]_studyVars => [Coherent]_studyVars
  BY CoherentStep
<1>4. StudySpec => [][Coherent]_studyVars
  BY <1>1, <1>2, <1>3, PTL DEF StudySpec
<1> QED BY <1>4 DEF VerdictsCoherent, Coherent
================================================================================
