----------------------------- MODULE StorageProofs -----------------------------
(***************************************************************************)
(* Lemmas about the storage that both simulators are built on: LRU caches, *)
(* the hierarchy of three, the outstanding requests, and what completing a *)
(* request, a demand and a prediction make of the lines and the counters.  *)
(*                                                                         *)
(* M stands for the counters of a simulator: each has some of its own, and *)
(* all of Ledger.                                                          *)
(***************************************************************************)
EXTENDS PrefetchRequests, FiniteSets, FiniteSetTheorems, FunctionTheorems,
        SequenceTheorems, WellFoundedInduction, TLAPS

\* What holds of 0 and passes on from each number to the next holds up to n.
LEMMA UpTo ==
  ASSUME NEW n \in Nat, NEW T, 0 \in T, \A i \in 1 .. n : i - 1 \in T => i \in T
  PROVE  0 .. n \subseteq T
<1> DEFINE R == OpToRel(<, Nat)
           F == (0 .. n) \ T
<1>1. \A x, y \in Nat : x < y => <<x, y>> \in R
  BY DEF OpToRel
<1>2. IsWellFoundedOn(R, Nat)
  BY NatLessThanWellFounded, Zenon
<1> HIDE DEF R
<1> SUFFICES ASSUME F # {} PROVE FALSE
  OBVIOUS
<1>3. F \subseteq Nat
  OBVIOUS
<1>4. \E x \in F : \A y \in F : ~ (<<y, x>> \in R)
  <2> HIDE DEF F
  <2> QED BY <1>2, <1>3, WFMin
<1>5. PICK x \in F : \A y \in F : ~ (y < x)
  BY <1>1, <1>3, <1>4
<1>6. x # 0 /\ x \in 1 .. n
  OBVIOUS
<1>7. x - 1 \in T
  BY <1>5, <1>6
<1> QED BY <1>5, <1>6, <1>7

\* f goes from base to its value at n, one step after the other.
Recurs(f, n, base, step) ==
  f[0] = base /\ \A i \in 1 .. n : f[i] = step[<<f[i - 1], i>>]

\* Such a function exists for every base and every step.
LEMMA RecursionExists ==
  ASSUME NEW n \in Nat, NEW S, NEW base \in S, NEW step \in [S \X (1 .. n) -> S]
  PROVE  \E f \in [0 .. n -> S] : Recurs(f, n, base, step)
<1> DEFINE T == {k \in 0 .. n : \E f \in [0 .. k -> S] : Recurs(f, k, base, step)}
<1>1. 0 \in T
  <2> DEFINE f0 == [i \in 0 .. 0 |-> base]
  <2>1. f0 \in [0 .. 0 -> S] /\ f0[0] = base
    OBVIOUS
  <2>2. 1 .. 0 = {}
    OBVIOUS
  <2> HIDE DEF f0
  <2>3. Recurs(f0, 0, base, step)
    BY <2>1, <2>2 DEF Recurs
  <2>4. \E f \in [0 .. 0 -> S] : Recurs(f, 0, base, step)
    <3> QED BY <2>1, <2>3
  <2> QED BY <2>4
<1>2. ASSUME NEW k \in 1 .. n, k - 1 \in T
      PROVE  k \in T
  <2>1. PICK f \in [0 .. k - 1 -> S] : Recurs(f, k - 1, base, step)
    BY <1>2
  <2> DEFINE g == [i \in 0 .. k |-> IF i = k THEN step[<<f[k - 1], k>>] ELSE f[i]]
  <2>2. f[k - 1] \in S /\ step[<<f[k - 1], k>>] \in S
    OBVIOUS
  <2>3. g \in [0 .. k -> S]
    BY <2>2
  <2>4. \A i \in 0 .. k - 1 : g[i] = f[i]
    OBVIOUS
  <2>5. g[k] = step[<<f[k - 1], k>>]
    OBVIOUS
  <2> HIDE DEF g
  <2>6. Recurs(g, k, base, step)
    <3>1. g[0] = base
      BY <2>1, <2>4 DEF Recurs
    <3>2. ASSUME NEW i \in 1 .. k PROVE g[i] = step[<<g[i - 1], i>>]
      <4>1. CASE i = k
        BY <2>4, <2>5, <4>1
      <4>2. CASE i # k
        <5>1. i \in 1 .. k - 1 /\ i - 1 \in 0 .. k - 1
          BY <4>2
        <5> QED BY <2>1, <2>4, <5>1 DEF Recurs
      <4> QED BY <4>1, <4>2
    <3> QED BY <3>1, <3>2 DEF Recurs
  <2> QED BY <2>3, <2>6
<1> HIDE DEF T
<1>3. 0 .. n \subseteq T
  BY <1>1, <1>2, UpTo
<1>4. n \in T
  BY <1>3
<1> QED BY <1>4 DEF T

\* What is left of a sequence without its k-th member.
LEMMA RemoveAtIs ==
  ASSUME NEW S, NEW s \in Seq(S), NEW k \in 1 .. Len(s)
  PROVE  LET r == SE!RemoveAt(s, k)
         IN  /\ r \in Seq(S)
             /\ Len(r) = Len(s) - 1
             /\ \A i \in 1 .. Len(s) - 1 : r[i] = IF i < k THEN s[i] ELSE s[i + 1]
<1> DEFINE u == SubSeq(s, 1, k - 1)
           v == SubSeq(s, k + 1, Len(s))
           w == u \o v
<1>1. Len(s) \in Nat /\ \A i \in 1 .. Len(s) : s[i] \in S
  OBVIOUS
<1>2. u \in Seq(S) /\ Len(u) = k - 1 /\ \A i \in 1 .. k - 1 : u[i] = s[i]
  BY <1>1
<1>3. v \in Seq(S) /\ Len(v) = Len(s) - k /\ \A i \in 1 .. Len(s) - k : v[i] = s[i + k]
  BY <1>1
<1>4. SE!RemoveAt(s, k) = w
  BY DEF SE!RemoveAt
<1> HIDE DEF u, v
<1>5. /\ w \in Seq(S)
      /\ Len(w) = Len(u) + Len(v)
      /\ \A i \in 1 .. Len(u) + Len(v) : w[i] = IF i <= Len(u) THEN u[i] ELSE v[i - Len(u)]
  BY ONLY <1>2, <1>3, ConcatProperties
<1> HIDE DEF w
<1>6. Len(w) = Len(s) - 1
  BY <1>1, <1>2, <1>3, <1>5
<1>7. ASSUME NEW i \in 1 .. Len(s) - 1
      PROVE  w[i] = IF i < k THEN s[i] ELSE s[i + 1]
  <2>1. w[i] = IF i <= k - 1 THEN u[i] ELSE v[i - (k - 1)]
    BY <1>1, <1>2, <1>3, <1>5
  <2>2. CASE i < k
    BY <1>1, <1>2, <2>1, <2>2
  <2>3. CASE ~ (i < k)
    <3>1. i - (k - 1) \in 1 .. Len(s) - k
      BY <1>1, <2>3
    <3>2. v[i - (k - 1)] = s[(i - (k - 1)) + k]
      BY <1>3, <3>1
    <3>3. (i - (k - 1)) + k = i + 1 /\ ~ (i <= k - 1)
      BY <1>1, <2>3
    <3> QED BY <2>1, <2>3, <3>2, <3>3
  <2> QED BY <2>2, <2>3
<1> QED BY <1>4, <1>5, <1>6, <1>7

\* As many members as places.
LEMMA DistinctSize ==
  ASSUME NEW n \in Nat, NEW f, \A i, j \in 1 .. n : f[i] = f[j] => i = j,
         NEW T, \A t : t \in T <=> \E i \in 1 .. n : t = f[i]
  PROVE  IsFiniteSet(T) /\ Cardinality(T) = n
<1> DEFINE g == [i \in 1 .. n |-> f[i]]
<1>1. g \in [1 .. n -> T] /\ (\A t \in T : \E i \in 1 .. n : g[i] = t)
  OBVIOUS
<1>2. \A i, j \in 1 .. n : g[i] = g[j] => i = j
  OBVIOUS
<1> HIDE DEF g
<1>3. g \in Surjection(1 .. n, T) /\ g \in Injection(1 .. n, T)
  BY <1>1, <1>2, Fun_IsInj, Fun_IsSurj
<1>4. IsFiniteSet(1 .. n) /\ Cardinality(1 .. n) = n
  BY FS_Interval
<1>5. IsFiniteSet(T) /\ Cardinality(T) = Cardinality(1 .. n)
  BY <1>3, <1>4, FS_Surjection
<1> QED BY <1>4, <1>5

----------------------------------------------------------------------------
\* No line is twice in a cache.
Distinct(s) == \A i, j \in 1 .. Len(s) : s[i] = s[j] => i = j

\* A touched line is the most recent one of its cache, once.
LEMMA TouchedIs ==
  ASSUME NEW cache \in Seq(Address), Distinct(cache), NEW a \in Address
  PROVE  LET t == Touched(cache, a)
         IN  /\ t \in Seq(Address)
             /\ Distinct(t)
             /\ SE!ToSet(t) = SE!ToSet(cache) \cup {a}
             /\ Len(t) = IF Holds(cache, a) THEN Len(cache) ELSE Len(cache) + 1
             /\ Len(t) > 0 /\ t[Len(t)] = a
<1> DEFINE n == Len(cache)
           t == Touched(cache, a)
<1>1. n \in Nat /\ DOMAIN cache = 1 .. n /\ \A i \in 1 .. n : cache[i] \in Address
  OBVIOUS
<1>2. CASE Holds(cache, a)
  <2> DEFINE k == Place(cache, a)
             r == SE!RemoveAt(cache, k)
  <2>1. k \in 1 .. n /\ cache[k] = a
    BY <1>1, <1>2 DEF Holds, Place
  <2>2. t = Append(r, a)
    BY <1>2 DEF Touched
  <2> HIDE DEF k
  <2>3. /\ r \in Seq(Address)
        /\ Len(r) = n - 1
        /\ \A i \in 1 .. n - 1 : r[i] = IF i < k THEN cache[i] ELSE cache[i + 1]
    BY <2>1, RemoveAtIs
  <2> HIDE DEF r, n, t
  <2>4. /\ t \in Seq(Address)
        /\ Len(t) = n
        /\ \A i \in 1 .. n : t[i] = IF i = n THEN a ELSE r[i]
        /\ DOMAIN t = 1 .. n
    BY <1>1, <2>1, <2>2, <2>3
  <2>5. ASSUME NEW i \in 1 .. n
        PROVE  t[i] = IF i = n THEN a ELSE IF i < k THEN cache[i] ELSE cache[i + 1]
    <3>1. CASE i = n
      BY <2>4, <3>1
    <3>2. CASE i # n
      <4>1. i \in 1 .. n - 1
        BY <1>1, <3>2
      <4> QED BY <2>3, <2>4, <3>2, <4>1
    <3> QED BY <3>1, <3>2
  <2>6. Distinct(t)
    <3>1. ASSUME NEW i \in 1 .. n, NEW j \in 1 .. n, t[i] = t[j]
          PROVE  i = j
      <4> DEFINE At(m) == IF m = n THEN k ELSE IF m < k THEN m ELSE m + 1
      <4>1. ASSUME NEW m \in 1 .. n
            PROVE  At(m) \in 1 .. n /\ t[m] = cache[At(m)]
        <5>1. At(m) \in 1 .. n
          BY <1>1, <2>1
        <5>2. CASE m = n
          BY <2>1, <2>5, <5>1, <5>2
        <5>3. CASE m # n
          BY <2>5, <5>1, <5>3
        <5> QED BY <5>1, <5>2, <5>3
      <4>2. At(i) = At(j)
        <5> HIDE DEF At
        <5> QED BY <3>1, <4>1 DEF Distinct, n
      <4> QED BY <1>1, <2>1, <4>2
    <3> QED BY <2>4, <3>1 DEF Distinct
  <2>7. SE!ToSet(t) = SE!ToSet(cache) \cup {a}
    <3>1. ASSUME NEW i \in 1 .. n PROVE t[i] \in SE!ToSet(cache) \cup {a}
      <4>1. CASE i = n
        BY <2>5, <4>1
      <4>2. CASE i # n
        <5>1. i + 1 \in 1 .. n
          BY <1>1, <4>2
        <5> QED BY <1>1, <2>5, <4>2, <5>1 DEF SE!ToSet
      <4> QED BY <4>1, <4>2
    <3>2. ASSUME NEW i \in 1 .. n PROVE cache[i] \in SE!ToSet(t)
      <4>1. CASE i = k
        <5>1. n \in 1 .. n /\ t[n] = a
          BY <1>1, <2>1, <2>5
        <5> QED BY <2>1, <2>4, <4>1, <5>1 DEF SE!ToSet
      <4>2. CASE i < k
        <5>1. i # n /\ t[i] = cache[i]
          BY <1>1, <2>1, <2>5, <4>2
        <5> QED BY <2>4, <5>1 DEF SE!ToSet
      <4>3. CASE i > k
        <5>1. i - 1 \in 1 .. n /\ i - 1 # n /\ ~ (i - 1 < k) /\ (i - 1) + 1 = i
          BY <1>1, <2>1, <4>3
        <5>2. t[i - 1] = cache[i]
          BY <2>5, <5>1
        <5> QED BY <2>4, <5>1, <5>2 DEF SE!ToSet
      <4> QED BY <1>1, <2>1, <4>1, <4>2, <4>3
    <3>3. a \in SE!ToSet(t)
      BY <2>1, <3>2
    <3> QED BY <1>1, <2>4, <3>1, <3>2, <3>3 DEF SE!ToSet
  <2>8. n > 0 /\ t[n] = a
    BY <1>1, <2>1, <2>5
  <2> QED BY <1>2, <2>4, <2>6, <2>7, <2>8 DEF n, t
<1>3. CASE ~ Holds(cache, a)
  <2>1. t = Append(cache, a)
    BY <1>3 DEF Touched
  <2>2. \A i \in 1 .. n : cache[i] # a
    BY <1>1, <1>3 DEF Holds
  <2> HIDE DEF t
  <2>3. /\ t \in Seq(Address)
        /\ Len(t) = n + 1
        /\ DOMAIN t = 1 .. n + 1
        /\ \A i \in 1 .. n : t[i] = cache[i]
        /\ t[n + 1] = a
    BY <1>1, <2>1
  <2> HIDE DEF n
  <2>4. Distinct(t)
    <3>1. ASSUME NEW i \in 1 .. n + 1, NEW j \in 1 .. n + 1, t[i] = t[j]
          PROVE  i = j
      <4>1. CASE i = n + 1 \/ j = n + 1
        BY <1>1, <2>2, <2>3, <3>1, <4>1
      <4>2. CASE i # n + 1 /\ j # n + 1
        <5>1. i \in 1 .. n /\ j \in 1 .. n
          BY <1>1, <4>2
        <5> QED BY <2>3, <3>1, <5>1 DEF Distinct, n
      <4> QED BY <4>1, <4>2
    <3> QED BY <2>3, <3>1 DEF Distinct
  <2>5. SE!ToSet(t) = SE!ToSet(cache) \cup {a}
    <3>1. \A i \in 1 .. n + 1 : i \in 1 .. n \/ i = n + 1
      BY <1>1
    <3>2. \A i \in 1 .. n : i \in 1 .. n + 1
      BY <1>1
    <3>3. n + 1 \in 1 .. n + 1
      BY <1>1
    <3> QED BY <1>1, <2>3, <3>1, <3>2, <3>3 DEF SE!ToSet
  <2>6. n + 1 > 0
    BY <1>1
  <2> QED BY <1>3, <2>3, <2>4, <2>5, <2>6 DEF n, t
<1> QED BY <1>2, <1>3

\* What put() keeps, brings and drops.
LEMMA PutIs ==
  ASSUME NEW cache \in Seq(Address), Distinct(cache), NEW a \in Address,
         NEW capacity \in Nat \ {0}, Len(cache) <= capacity
  PROVE  LET p == Put(cache, a, capacity)
             e == PutEvicts(cache, a, capacity)
         IN  /\ p \in Seq(Address) /\ Distinct(p) /\ Len(p) <= capacity
             /\ SE!ToSet(p) = (SE!ToSet(cache) \cup {a}) \ e
             /\ e \subseteq SE!ToSet(cache) \ {a}
             /\ a \in SE!ToSet(p)
<1> DEFINE t == Touched(cache, a)
           p == Put(cache, a, capacity)
           n == Len(t)
<1>1. /\ t \in Seq(Address)
      /\ Distinct(t)
      /\ SE!ToSet(t) = SE!ToSet(cache) \cup {a}
      /\ n <= capacity + 1
      /\ n > 0 /\ t[n] = a
  <2> HIDE DEF t, n
  <2>1. Len(cache) \in Nat
    OBVIOUS
  <2>2. /\ t \in Seq(Address)
        /\ Distinct(t)
        /\ SE!ToSet(t) = SE!ToSet(cache) \cup {a}
        /\ n = IF Holds(cache, a) THEN Len(cache) ELSE Len(cache) + 1
        /\ n > 0 /\ t[n] = a
    BY TouchedIs DEF t, n
  <2> QED BY <2>1, <2>2
<1>2. n \in Nat /\ DOMAIN t = 1 .. n
  BY <1>1
<1>3. p = IF n > capacity THEN Tail(t) ELSE t
  BY DEF Put
<1> HIDE DEF t
<1>4. /\ p \in Seq(Address) /\ Distinct(p) /\ Len(p) <= capacity
      /\ SE!ToSet(p) \subseteq SE!ToSet(t)
      /\ a \in SE!ToSet(p)
  <2>1. CASE n > capacity
    <3>1. t # <<>>
      BY <1>1
    <3>2. /\ p \in Seq(Address)
          /\ Len(p) = n - 1
          /\ \A i \in 1 .. n - 1 : p[i] = t[i + 1]
      BY <1>1, <1>3, <2>1, <3>1, HeadTailProperties
    <3> HIDE DEF p, n
    <3>3. n = capacity + 1
      BY <1>1, <1>2, <2>1
    <3>4. DOMAIN p = 1 .. n - 1
      BY <3>2
    <3>5. \A i \in 1 .. n - 1 : i + 1 \in 1 .. n
      BY <1>2
    <3>6. Distinct(p)
      <4>1. ASSUME NEW i \in 1 .. n - 1, NEW j \in 1 .. n - 1, p[i] = p[j]
            PROVE  i = j
        <5>1. t[i + 1] = t[j + 1]
          BY <3>2, <4>1
        <5>2. i + 1 = j + 1
          BY <1>1, <3>5, <5>1 DEF Distinct, n
        <5> QED BY <1>2, <5>2
      <4> QED BY <3>2, <4>1 DEF Distinct
    <3>7. SE!ToSet(p) \subseteq SE!ToSet(t)
      BY <1>2, <3>2, <3>4, <3>5 DEF SE!ToSet
    <3>8. a \in SE!ToSet(p)
      <4>1. n - 1 \in 1 .. n - 1 /\ (n - 1) + 1 = n
        BY <1>2, <3>3
      <4>2. p[n - 1] = a
        BY <1>1, <3>2, <4>1
      <4> QED BY <3>4, <4>1, <4>2 DEF SE!ToSet
    <3> QED BY <1>2, <3>2, <3>3, <3>6, <3>7, <3>8
  <2>2. CASE ~ (n > capacity)
    <3>1. p = t /\ n <= capacity
      BY <1>2, <1>3, <2>2
    <3>2. a \in SE!ToSet(t)
      BY <1>1
    <3> HIDE DEF p
    <3> QED BY <1>1, <3>1, <3>2
  <2> QED BY <2>1, <2>2
<1> HIDE DEF p, n
<1>5. PutEvicts(cache, a, capacity) = SE!ToSet(cache) \ SE!ToSet(p)
  BY DEF PutEvicts, p
<1> QED BY <1>1, <1>4, <1>5 DEF p

----------------------------------------------------------------------------
\* Caches without repetition, within their capacities.
Hierarchies ==
  {h \in [Level -> Seq(Address)] : \A l \in Level : Distinct(h[l]) /\ Len(h[l]) <= CAPACITY[l]}

\* A line is found at the first level that holds it, in DRAM otherwise.
LEMMA LevelOfIs ==
  ASSUME NEW h, NEW a
  PROVE  LET l == LevelOf(h, a)
         IN  /\ l \in Level \cup {DRAM}
             /\ l = DRAM \/ Holds(h[l], a)
             /\ \A k \in Level : k < l => ~ Holds(h[k], a)
<1> DEFINE First(l) == /\ l = DRAM \/ Holds(h[l], a)
                       /\ \A k \in Level : k < l => ~ Holds(h[k], a)
<1>1. \E l \in Level \cup {DRAM} : First(l)
  <2>1. CASE Holds(h[1], a)
    <3>1. First(1)
      BY <2>1 DEF Level
    <3> QED BY <3>1 DEF Level
  <2>2. CASE ~ Holds(h[1], a) /\ Holds(h[2], a)
    <3>1. First(2)
      BY <2>2 DEF Level
    <3> QED BY <3>1 DEF Level
  <2>3. CASE ~ Holds(h[1], a) /\ ~ Holds(h[2], a) /\ Holds(h[3], a)
    <3>1. First(3)
      BY <2>3 DEF Level
    <3> QED BY <3>1 DEF Level
  <2>4. CASE ~ Holds(h[1], a) /\ ~ Holds(h[2], a) /\ ~ Holds(h[3], a)
    <3>1. First(DRAM)
      BY <2>4 DEF Level, DRAM
    <3> QED BY <3>1
  <2> QED BY <2>1, <2>2, <2>3, <2>4
<1>2. LevelOf(h, a) = CHOOSE l \in Level \cup {DRAM} : First(l)
  BY DEF LevelOf
<1> QED BY <1>1, <1>2

\* The lines of a cache are finitely many.
LEMMA LinesFinite ==
  ASSUME NEW c \in Seq(Address), Distinct(c)
  PROVE  IsFiniteSet(SE!ToSet(c)) /\ Cardinality(SE!ToSet(c)) = Len(c)
<1>1. Len(c) \in Nat /\ DOMAIN c = 1 .. Len(c)
  OBVIOUS
<1>2. \A i, j \in 1 .. Len(c) : c[i] = c[j] => i = j
  BY DEF Distinct
<1>3. \A t : t \in SE!ToSet(c) <=> \E i \in 1 .. Len(c) : t = c[i]
  BY <1>1 DEF SE!ToSet
<1> QED BY <1>1, <1>2, <1>3, DistinctSize

\* What one level of a hierarchy becomes by a put.
LEMMA LevelPutIs ==
  ASSUME NEW h \in Hierarchies, NEW a \in Address, NEW l \in Level
  PROVE  LET p == Put(h[l], a, CAPACITY[l])
             e == PutEvicts(h[l], a, CAPACITY[l])
         IN  /\ p \in Seq(Address) /\ Distinct(p) /\ Len(p) <= CAPACITY[l]
             /\ SE!ToSet(p) = (SE!ToSet(h[l]) \cup {a}) \ e
             /\ e \subseteq SE!ToSet(h[l]) \ {a}
             /\ a \in SE!ToSet(p)
             /\ IsFiniteSet(e)
<1>1. /\ h[l] \in Seq(Address) /\ Distinct(h[l]) /\ Len(h[l]) <= CAPACITY[l]
      /\ CAPACITY[l] \in Nat \ {0}
  BY HierarchyAssumption DEF Hierarchies
<1> DEFINE p == Put(h[l], a, CAPACITY[l])
           e == PutEvicts(h[l], a, CAPACITY[l])
<1>2. /\ p \in Seq(Address) /\ Distinct(p) /\ Len(p) <= CAPACITY[l]
      /\ SE!ToSet(p) = (SE!ToSet(h[l]) \cup {a}) \ e
      /\ e \subseteq SE!ToSet(h[l]) \ {a}
      /\ a \in SE!ToSet(p)
  <2> HIDE DEF p, e
  <2> QED BY <1>1, PutIs DEF p, e
<1> HIDE DEF p, e
<1>3. IsFiniteSet(SE!ToSet(h[l]))
  BY <1>1, LinesFinite
<1>4. IsFiniteSet(e)
  BY <1>2, <1>3, FS_Subset
<1> QED BY <1>2, <1>4 DEF p, e

\* access(): the line is in L1 afterwards, nothing else came, and what went is
\* what it reports as evicted.
LEMMA AccessIs ==
  ASSUME NEW h \in Hierarchies, NEW a \in Address
  PROVE  LET g == AfterAccess(h, a)
             e == AccessEvicts(h, a)
         IN  /\ g \in Hierarchies
             /\ IsFiniteSet(e) /\ a \notin e
             /\ a \in SE!ToSet(g[1])
             /\ \A l \in Level : /\ SE!ToSet(g[l]) \subseteq SE!ToSet(h[l]) \cup {a}
                                /\ SE!ToSet(h[l]) \ e \subseteq SE!ToSet(g[l])
<1> DEFINE g == AfterAccess(h, a)
           e == AccessEvicts(h, a)
           p(l) == Put(h[l], a, CAPACITY[l])
           d(l) == PutEvicts(h[l], a, CAPACITY[l])
           level == LevelOf(h, a)
<1>1. level \in 1 .. 4
  BY LevelOfIs DEF Level, DRAM
<1>2. g = [l \in Level |-> IF l <= level THEN p(l) ELSE h[l]]
  BY DEF AfterAccess
<1>3. e = UNION {d(l) : l \in {k \in Level : k <= level}}
  BY DEF AccessEvicts
<1>4. ASSUME NEW l \in Level
      PROVE  /\ p(l) \in Seq(Address) /\ Distinct(p(l)) /\ Len(p(l)) <= CAPACITY[l]
             /\ SE!ToSet(p(l)) = (SE!ToSet(h[l]) \cup {a}) \ d(l)
             /\ d(l) \subseteq SE!ToSet(h[l]) \ {a}
             /\ a \in SE!ToSet(p(l))
             /\ IsFiniteSet(d(l))
  BY LevelPutIs
<1> HIDE DEF g, e, p, d, level
<1>5. \A l \in Level : h[l] \in Seq(Address) /\ Distinct(h[l]) /\ Len(h[l]) <= CAPACITY[l]
  BY DEF Hierarchies
<1>6. g \in Hierarchies
  BY <1>2, <1>4, <1>5 DEF Hierarchies
<1>7. IsFiniteSet(e)
  <2>1. IsFiniteSet(d(1) \cup d(2) \cup d(3))
    <3>1. IsFiniteSet(d(1)) /\ IsFiniteSet(d(2)) /\ IsFiniteSet(d(3))
      BY <1>4 DEF Level
    <3>2. IsFiniteSet(d(1) \cup d(2))
      BY <3>1, FS_Union
    <3> QED BY <3>1, <3>2, FS_Union
  <2>2. e \subseteq d(1) \cup d(2) \cup d(3)
    BY <1>3 DEF Level
  <2> QED BY <2>1, <2>2, FS_Subset
<1>8. a \notin e
  BY <1>3, <1>4
<1>9. a \in SE!ToSet(g[1])
  BY <1>1, <1>2, <1>4 DEF Level
<1>10. ASSUME NEW l \in Level
       PROVE  /\ SE!ToSet(g[l]) \subseteq SE!ToSet(h[l]) \cup {a}
              /\ SE!ToSet(h[l]) \ e \subseteq SE!ToSet(g[l])
  <2>1. CASE l <= level
    <3>1. g[l] = p(l) /\ d(l) \subseteq e
      BY <1>2, <1>3, <2>1
    <3> QED BY <1>4, <3>1
  <2>2. CASE ~ (l <= level)
    <3>1. g[l] = h[l]
      BY <1>2, <2>2
    <3> QED BY <3>1
  <2> QED BY <2>1, <2>2
<1> QED BY <1>6, <1>7, <1>8, <1>9, <1>10 DEF g, e

\* insert_prefetch(): a line cached nowhere comes to its destination.
LEMMA PrefetchIs ==
  ASSUME NEW h \in Hierarchies, NEW a \in Address, NEW destination \in Level
  PROVE  LET g == AfterPrefetch(h, a, destination)
             e == PrefetchEvicts(h, a, destination)
         IN  /\ g \in Hierarchies
             /\ IsFiniteSet(e) /\ a \notin e
             /\ ~ Contains(h, a) => a \in SE!ToSet(g[destination])
             /\ SE!ToSet(g[destination]) \subseteq SE!ToSet(h[destination]) \cup {a}
             /\ \A l \in Level : /\ l # destination => g[l] = h[l]
                                /\ SE!ToSet(h[l]) \ e \subseteq SE!ToSet(g[l])
<1> DEFINE g == AfterPrefetch(h, a, destination)
           e == PrefetchEvicts(h, a, destination)
           p == Put(h[destination], a, CAPACITY[destination])
           d == PutEvicts(h[destination], a, CAPACITY[destination])
<1>1. CASE Contains(h, a)
  <2>1. g = h /\ e = {}
    BY <1>1 DEF AfterPrefetch, PrefetchEvicts
  <2> HIDE DEF g, e
  <2> QED BY <1>1, <2>1, FS_EmptySet DEF g, e
<1>2. CASE ~ Contains(h, a)
  <2>1. /\ p \in Seq(Address) /\ Distinct(p) /\ Len(p) <= CAPACITY[destination]
        /\ SE!ToSet(p) = (SE!ToSet(h[destination]) \cup {a}) \ d
        /\ d \subseteq SE!ToSet(h[destination]) \ {a}
        /\ a \in SE!ToSet(p)
        /\ IsFiniteSet(d)
    BY LevelPutIs
  <2>2. g = [h EXCEPT ![destination] = p] /\ e = d
    BY <1>2 DEF AfterPrefetch, PrefetchEvicts
  <2> HIDE DEF g, e, p, d
  <2>3. h \in [Level -> Seq(Address)]
    BY DEF Hierarchies
  <2>4. \A l \in Level : g[l] = IF l = destination THEN p ELSE h[l]
    BY <2>2, <2>3
  <2>5. g \in [Level -> Seq(Address)]
    BY <2>1, <2>2, <2>3
  <2>6. g \in Hierarchies
    BY <2>1, <2>4, <2>5 DEF Hierarchies
  <2> QED BY <1>2, <2>1, <2>2, <2>4, <2>6 DEF g, e
<1> QED BY <1>1, <1>2

----------------------------------------------------------------------------
\* No line has two requests outstanding.
OneEach(q) == \A i, j \in 1 .. Len(q) : q[i].line = q[j].line => i = j

\* pop() takes the request of its line out, and no other.
LEMMA PoppedIs ==
  ASSUME NEW q \in Seq(Request), OneEach(q), NEW line
  PROVE  LET p == Popped(q, line)
         IN  /\ p \in Seq(Request) /\ OneEach(p)
             /\ SE!ToSet(p) = {r \in SE!ToSet(q) : r.line # line}
             /\ Lines(p) = Lines(q) \ {line}
             /\ Len(p) = IF Requested(q, line) THEN Len(q) - 1 ELSE Len(q)
<1> DEFINE n == Len(q)
           p == Popped(q, line)
<1>1. n \in Nat /\ DOMAIN q = 1 .. n /\ \A i \in 1 .. n : q[i] \in Request
  OBVIOUS
<1>2. CASE Requested(q, line)
  <2> DEFINE k == CHOOSE i \in DOMAIN q : q[i].line = line
  <2>1. k \in 1 .. n /\ q[k].line = line
    BY <1>1, <1>2 DEF Requested
  <2>2. p = SE!RemoveAt(q, k)
    BY <1>2 DEF Popped
  <2> HIDE DEF k, p
  <2>3. /\ p \in Seq(Request)
        /\ Len(p) = n - 1
        /\ \A i \in 1 .. n - 1 : p[i] = IF i < k THEN q[i] ELSE q[i + 1]
    BY <2>1, <2>2, RemoveAtIs
  <2> HIDE DEF n
  <2>4. DOMAIN p = 1 .. n - 1
    BY <2>3
  <2> DEFINE At(m) == IF m < k THEN m ELSE m + 1
  <2>5. ASSUME NEW m \in 1 .. n - 1
        PROVE  At(m) \in 1 .. n /\ At(m) # k /\ p[m] = q[At(m)]
    <3>1. At(m) \in 1 .. n /\ At(m) # k
      BY <1>1, <2>1
    <3> QED BY <2>3, <3>1
  <2>6. ASSUME NEW m \in 1 .. n, m # k
        PROVE  \E i \in 1 .. n - 1 : p[i] = q[m]
    <3>1. CASE m < k
      <4>1. m \in 1 .. n - 1
        BY <1>1, <2>1, <3>1
      <4> QED BY <2>3, <3>1, <4>1
    <3>2. CASE ~ (m < k)
      <4>1. m - 1 \in 1 .. n - 1 /\ ~ (m - 1 < k) /\ (m - 1) + 1 = m
        BY <1>1, <2>1, <2>6, <3>2
      <4>2. p[m - 1] = q[m]
        BY <2>3, <4>1
      <4> QED BY <4>1, <4>2
    <3> QED BY <3>1, <3>2
  <2>7. \A m \in 1 .. n : m # k => q[m].line # line
    BY <2>1 DEF OneEach, n
  <2>8. OneEach(p)
    <3>1. ASSUME NEW i \in 1 .. n - 1, NEW j \in 1 .. n - 1, p[i].line = p[j].line
          PROVE  i = j
      <4>1. At(i) = At(j)
        <5> HIDE DEF At
        <5> QED BY <2>5, <3>1 DEF OneEach, n
      <4> QED BY <1>1, <2>1, <4>1
    <3> QED BY <2>3, <3>1 DEF OneEach
  <2>9. SE!ToSet(p) = {r \in SE!ToSet(q) : r.line # line}
    <3> HIDE DEF At
    <3>1. SE!ToSet(p) \subseteq {r \in SE!ToSet(q) : r.line # line}
      BY <1>1, <2>4, <2>5, <2>7 DEF SE!ToSet
    <3>2. ASSUME NEW r \in SE!ToSet(q), r.line # line
          PROVE  r \in SE!ToSet(p)
      <4>1. PICK m \in 1 .. n : r = q[m]
        BY <1>1 DEF SE!ToSet
      <4>2. PICK i \in 1 .. n - 1 : p[i] = q[m]
        BY <2>1, <2>6, <3>2, <4>1
      <4> QED BY <2>4, <4>1, <4>2 DEF SE!ToSet
    <3> QED BY <3>1, <3>2
  <2>10. Lines(p) = Lines(q) \ {line}
    <3>1. \A s : Lines(s) = {r.line : r \in SE!ToSet(s)}
      BY DEF Lines, SE!ToSet
    <3> QED BY <2>9, <3>1
  <2> QED BY <1>2, <2>3, <2>8, <2>9, <2>10 DEF n, p
<1>3. CASE ~ Requested(q, line)
  <2>1. p = q
    BY <1>3 DEF Popped
  <2>2. \A i \in DOMAIN q : q[i].line # line
    BY <1>3 DEF Requested
  <2>3. SE!ToSet(q) = {r \in SE!ToSet(q) : r.line # line}
    BY <2>2 DEF SE!ToSet
  <2>4. Lines(q) = Lines(q) \ {line}
    BY <2>2 DEF Lines
  <2> HIDE DEF p
  <2> QED BY <1>3, <2>1, <2>3, <2>4 DEF p
<1> QED BY <1>2, <1>3

----------------------------------------------------------------------------
(* The state that both simulators keep of their lines and prefetches.      *)

\* The counters that say what became of the prefetches.
Ledger == {"requests", "duplicates", "dropped", "issued", "completed", "useful", "unused",
           "pollution"}

\* M names all counters.
State(M) ==
  [caches : Hierarchies, pending : {q \in Seq(Request) : OneEach(q)},
   prefetched : SUBSET Address, demanded : SUBSET Address,
   polluted : SUBSET Address, metrics : [M -> Nat]]

\* The counters that completing a request and marking evictions may change.
Touchable == {"completed", "unused", "evictions"}

\* What marking evictions makes of a state, field by field.
Marked(M, m, st, E) ==
  /\ m \in State(M)
  /\ m.caches = st.caches
  /\ m.pending = st.pending
  /\ m.prefetched = st.prefetched \ E
  /\ m.demanded = st.demanded \ (E \ st.prefetched)
  /\ m.polluted = st.polluted \cup (E \cap st.prefetched)
  /\ IsFiniteSet(E \cap st.prefetched)
  /\ m.metrics["unused"] = st.metrics["unused"] + Cardinality(E \cap st.prefetched)
  /\ \A n \in M \ {"unused", "evictions"} : m.metrics[n] = st.metrics[n]

\* What completing a request makes of a state, whatever the request.
Completed(M, c, st, r) ==
  LET E == PrefetchEvicts(st.caches, r.line, DESTINATION)
      came == st.prefetched \cup {r.line}
  IN  /\ c \in State(M)
      /\ c.caches = AfterPrefetch(st.caches, r.line, DESTINATION)
      /\ c.pending = Popped(st.pending, r.line)
      /\ c.prefetched = came \ E
      /\ c.demanded = st.demanded \ (E \ came)
      /\ c.polluted = st.polluted \cup (E \cap came)
      /\ IsFiniteSet(E \cap came)
      /\ c.metrics["completed"] = st.metrics["completed"] + 1
      /\ c.metrics["unused"] = st.metrics["unused"] + Cardinality(E \cap came)
      /\ \A n \in M \ Touchable : c.metrics[n] = st.metrics[n]

\* Where a line may be, as far as it is not a matter of types.
Where(st) ==
  /\ \A l \in Level : /\ SE!ToSet(st.caches[l]) \cap Lines(st.pending) = {}
                      /\ l # DESTINATION => SE!ToSet(st.caches[l]) \cap st.prefetched = {}
  /\ st.prefetched \subseteq SE!ToSet(st.caches[DESTINATION])
  /\ st.demanded \subseteq SE!ToSet(st.caches[1]) \ st.prefetched
  /\ Len(st.pending) <= MAX_OUTSTANDING

\* A cached line is in the set of its cache.
LEMMA HoldsIs == \A c, a : Holds(c, a) <=> a \in SE!ToSet(c)
BY DEF Holds, SE!ToSet

\* The prefetched lines are finitely many: all are at the destination.
LEMMA PrefetchedFinite ==
  ASSUME NEW M, NEW st \in State(M), Where(st)
  PROVE  IsFiniteSet(st.prefetched) /\ Cardinality(st.prefetched) \in Nat
<1>1. st.caches[DESTINATION] \in Seq(Address) /\ Distinct(st.caches[DESTINATION])
  BY RequestsAssumption DEF State, Hierarchies
<1>2. IsFiniteSet(SE!ToSet(st.caches[DESTINATION]))
  BY <1>1, LinesFinite
<1>3. IsFiniteSet(st.prefetched)
  BY <1>2, FS_Subset DEF Where
<1> QED BY <1>3, FS_CardinalityType

\* The lines of the outstanding requests.
LEMMA LinesAre ==
  ASSUME NEW q \in Seq(Request)
  PROVE  /\ Lines(q) = {r.line : r \in SE!ToSet(q)}
         /\ \A line : Requested(q, line) <=> line \in Lines(q)
BY DEF Lines, Requested, SE!ToSet

\* A completed request leaves every line in its place.
LEMMA CompleteWhere ==
  ASSUME NEW M, NEW st \in State(M), Where(st), NEW r \in SE!ToSet(st.pending),
         NEW c, Completed(M, c, st, r)
  PROVE  Where(c)
<1> DEFINE E == PrefetchEvicts(st.caches, r.line, DESTINATION)
           came == st.prefetched \cup {r.line}
           g == AfterPrefetch(st.caches, r.line, DESTINATION)
<1>1. st.pending \in Seq(Request) /\ OneEach(st.pending) /\ st.caches \in Hierarchies
  BY DEF State
<1>2. r \in Request /\ r.line \in Address /\ r.line \in Lines(st.pending)
  <2>1. r \in Request
    BY <1>1 DEF SE!ToSet
  <2>2. Lines(st.pending) = {q.line : q \in SE!ToSet(st.pending)}
    BY <1>1, LinesAre
  <2> QED BY <2>1, <2>2 DEF Request
<1>3. /\ c.caches = g
      /\ c.pending = Popped(st.pending, r.line)
      /\ c.prefetched = came \ E
      /\ c.demanded = st.demanded \ (E \ came)
  BY DEF Completed
<1>4. ~ Contains(st.caches, r.line)
  BY <1>2, HoldsIs DEF Where, Contains
<1>5. /\ r.line \notin E
      /\ r.line \in SE!ToSet(g[DESTINATION])
      /\ SE!ToSet(g[DESTINATION]) \subseteq SE!ToSet(st.caches[DESTINATION]) \cup {r.line}
      /\ \A l \in Level : /\ l # DESTINATION => g[l] = st.caches[l]
                          /\ SE!ToSet(st.caches[l]) \ E \subseteq SE!ToSet(g[l])
  BY <1>1, <1>2, <1>4, PrefetchIs, RequestsAssumption
<1>6. /\ Lines(c.pending) = Lines(st.pending) \ {r.line}
      /\ Len(c.pending) = Len(st.pending) - 1
  BY <1>1, <1>2, <1>3, PoppedIs, LinesAre
<1> HIDE DEF E, g
<1>7. DESTINATION \in Level /\ 1 \in Level
  BY RequestsAssumption DEF Level
<1>8. ASSUME NEW l \in Level
      PROVE  /\ SE!ToSet(c.caches[l]) \cap Lines(c.pending) = {}
             /\ l # DESTINATION => SE!ToSet(c.caches[l]) \cap c.prefetched = {}
  <2>1. CASE l = DESTINATION
    BY <1>3, <1>5, <1>6, <2>1 DEF Where
  <2>2. CASE l # DESTINATION
    <3>1. c.caches[l] = st.caches[l]
      BY <1>3, <1>5, <2>2
    <3>2. r.line \notin SE!ToSet(st.caches[l])
      BY <1>2 DEF Where
    <3> QED BY <1>3, <1>6, <2>2, <3>1, <3>2 DEF Where
  <2> QED BY <2>1, <2>2
<1>9. c.prefetched \subseteq SE!ToSet(c.caches[DESTINATION])
  BY <1>3, <1>5, <1>7 DEF Where
<1>10. c.demanded \subseteq SE!ToSet(c.caches[1]) \ c.prefetched
  <2>1. r.line \notin st.demanded
    BY <1>2, <1>7 DEF Where
  <2>2. st.demanded \cap st.prefetched = {} /\ st.demanded \subseteq SE!ToSet(st.caches[1])
    BY DEF Where
  <2>3. c.demanded \cap E = {} /\ c.demanded \subseteq st.demanded
    BY <1>3, <2>1, <2>2
  <2> QED BY <1>3, <1>5, <1>7, <2>1, <2>2, <2>3
<1>11. Len(c.pending) <= MAX_OUTSTANDING
  BY <1>1, <1>6, RequestsAssumption DEF Where
<1> QED BY <1>8, <1>9, <1>10, <1>11 DEF Where

----------------------------------------------------------------------------
(* What is counted.                                                        *)

\* Each prefetch has one fate, and each polluting miss its eviction.
Counts(st) ==
  LET m == st.metrics
  IN  /\ IsFiniteSet(st.polluted)
      /\ m["requests"] = m["duplicates"] + m["dropped"] + m["issued"]
      /\ m["issued"] = m["completed"] + Len(st.pending)
      /\ m["issued"] = m["useful"] + m["unused"] + Len(st.pending) + Cardinality(st.prefetched)
      /\ m["pollution"] + Cardinality(st.polluted) <= m["unused"]

\* A completed request moves from the outstanding to the prefetched, and what it
\* pushes out from the prefetched to the wasted.
LEMMA CompleteCounts ==
  ASSUME NEW M, Ledger \subseteq M, NEW st \in State(M), Where(st), Counts(st),
         NEW r \in SE!ToSet(st.pending), NEW c, Completed(M, c, st, r)
  PROVE  Counts(c)
<1> DEFINE E == PrefetchEvicts(st.caches, r.line, DESTINATION)
           came == st.prefetched \cup {r.line}
<1>1. st.pending \in Seq(Request) /\ OneEach(st.pending) /\ st.metrics \in [M -> Nat]
  BY DEF State
<1>2. r \in Request /\ r.line \in Lines(st.pending)
  <2>1. r \in Request
    BY <1>1 DEF SE!ToSet
  <2>2. Lines(st.pending) = {q.line : q \in SE!ToSet(st.pending)}
    BY <1>1, LinesAre
  <2> QED BY <2>1, <2>2
<1>4. Len(c.pending) = Len(st.pending) - 1 /\ Len(st.pending) \in Nat
  BY <1>1, <1>2, PoppedIs, LinesAre DEF Completed
<1>5. r.line \notin st.prefetched
  BY <1>2, RequestsAssumption DEF Where
<1>6. IsFiniteSet(st.prefetched) /\ Cardinality(st.prefetched) \in Nat
  BY PrefetchedFinite
<1>7. IsFiniteSet(came) /\ Cardinality(came) = Cardinality(st.prefetched) + 1
  BY <1>5, <1>6, FS_AddElement
<1> DEFINE wasted == E \cap came
<1>8. /\ c.prefetched = came \ E
      /\ c.polluted = st.polluted \cup wasted
      /\ IsFiniteSet(wasted)
      /\ c.metrics["completed"] = st.metrics["completed"] + 1
      /\ c.metrics["unused"] = st.metrics["unused"] + Cardinality(wasted)
      /\ \A n \in M \ Touchable : c.metrics[n] = st.metrics[n]
  BY DEF Completed
<1> HIDE DEF E, came
<1>9. Cardinality(wasted) \in Nat
  BY <1>8, FS_CardinalityType
<1>10. Cardinality(c.prefetched) = Cardinality(came) - Cardinality(wasted)
  <2>1. c.prefetched = came \ wasted /\ came \cap wasted = wasted
    BY <1>8
  <2> HIDE DEF wasted
  <2>2. Cardinality(came \ wasted) = Cardinality(came) - Cardinality(came \cap wasted)
    BY <1>7, FS_Difference
  <2> QED BY <2>1, <2>2
<1> HIDE DEF wasted
<1>11. /\ IsFiniteSet(c.polluted)
       /\ Cardinality(c.polluted) <= Cardinality(st.polluted) + Cardinality(wasted)
       /\ Cardinality(c.polluted) \in Nat /\ Cardinality(st.polluted) \in Nat
  <2>1. IsFiniteSet(st.polluted)
    BY DEF Counts
  <2>2. /\ IsFiniteSet(c.polluted)
        /\ Cardinality(c.polluted)
             = Cardinality(st.polluted) + Cardinality(wasted) - Cardinality(st.polluted \cap wasted)
    <3>1. c.polluted = st.polluted \cup wasted /\ IsFiniteSet(wasted)
      BY <1>8
    <3>2. /\ IsFiniteSet(st.polluted \cup wasted)
          /\ Cardinality(st.polluted \cup wasted)
               = Cardinality(st.polluted) + Cardinality(wasted) - Cardinality(st.polluted \cap wasted)
      BY ONLY <2>1, <3>1, FS_Union
    <3> QED BY ONLY <3>1, <3>2
  <2>3. Cardinality(st.polluted \cap wasted) \in Nat
    BY <2>1, FS_Subset, FS_CardinalityType
  <2>4. Cardinality(c.polluted) \in Nat /\ Cardinality(st.polluted) \in Nat
    BY <2>1, <2>2, FS_CardinalityType
  <2> QED BY <1>9, <2>2, <2>3, <2>4
<1>12. \A n \in {"requests", "duplicates", "dropped", "issued", "useful", "pollution"} :
         c.metrics[n] = st.metrics[n]
  BY <1>8 DEF Ledger, Touchable
<1>13. \A n \in M : st.metrics[n] \in Nat
  BY <1>1
<1> DEFINE m == st.metrics
           k == c.metrics
<1>14. /\ m["requests"] = m["duplicates"] + m["dropped"] + m["issued"]
       /\ m["issued"] = m["completed"] + Len(st.pending)
       /\ m["issued"] = m["useful"] + m["unused"] + Len(st.pending) + Cardinality(st.prefetched)
       /\ m["pollution"] + Cardinality(st.polluted) <= m["unused"]
  BY DEF Counts
<1>15. /\ m["issued"] \in Nat /\ m["completed"] \in Nat /\ m["useful"] \in Nat
       /\ m["unused"] \in Nat /\ m["pollution"] \in Nat
  BY <1>13 DEF Ledger
<1>16. /\ k["requests"] = m["requests"] /\ k["duplicates"] = m["duplicates"]
       /\ k["dropped"] = m["dropped"] /\ k["issued"] = m["issued"]
       /\ k["useful"] = m["useful"] /\ k["pollution"] = m["pollution"]
       /\ k["completed"] = m["completed"] + 1
       /\ k["unused"] = m["unused"] + Cardinality(wasted)
  BY <1>8, <1>12
<1> HIDE DEF m, k
<1> DEFINE long == Len(st.pending)
           lost == Cardinality(wasted)
           had == Cardinality(st.prefetched)
<1>16a. /\ long \in Nat /\ lost \in Nat /\ had \in Nat
        /\ Len(c.pending) = long - 1
        /\ Cardinality(c.prefetched) = (had + 1) - lost
  BY <1>4, <1>6, <1>7, <1>9, <1>10
<1>16b. /\ m["issued"] = m["completed"] + long
        /\ m["issued"] = m["useful"] + m["unused"] + long + had
        /\ k["unused"] = m["unused"] + lost
  BY <1>14, <1>16
<1> HIDE DEF long, lost, had
<1>17. k["issued"] = k["completed"] + Len(c.pending)
  <2>1. k["issued"] = m["completed"] + long /\ k["completed"] = m["completed"] + 1
    BY <1>16, <1>16b
  <2> QED BY ONLY <1>15, <1>16a, <2>1
<1>18. k["issued"] = k["useful"] + k["unused"] + Len(c.pending) + Cardinality(c.prefetched)
  <2>1. /\ k["issued"] = m["useful"] + m["unused"] + long + had
        /\ k["useful"] = m["useful"]
        /\ k["unused"] = m["unused"] + lost
    BY <1>16, <1>16b
  <2>2. m["useful"] \in Nat /\ m["unused"] \in Nat /\ long \in Nat /\ lost \in Nat /\ had \in Nat
    BY <1>15, <1>16a
  <2>3. m["useful"] + m["unused"] + long + had
          = m["useful"] + (m["unused"] + lost) + (long - 1) + ((had + 1) - lost)
    BY ONLY <2>2
  <2>4. k["useful"] + k["unused"] + Len(c.pending) + Cardinality(c.prefetched)
          = m["useful"] + (m["unused"] + lost) + (long - 1) + ((had + 1) - lost)
    BY <1>16a, <2>1
  <2> QED BY <2>1, <2>3, <2>4
<1>19. k["pollution"] + Cardinality(c.polluted) <= k["unused"]
  BY <1>9, <1>11, <1>14, <1>15, <1>16
<1>20. k["requests"] = k["duplicates"] + k["dropped"] + k["issued"]
  BY <1>14, <1>16
<1> QED BY <1>11, <1>17, <1>18, <1>19, <1>20 DEF Counts, k

----------------------------------------------------------------------------
(* How long a prefetched line stays at its destination.                    *)

\* The line a is among the d + 1 most recent lines of a cache.
Recent(cache, a, d) == \E i \in 1 .. Len(cache) : cache[i] = a /\ Len(cache) - i <= d

\* Less recent is recent too.
LEMMA RecentWeakens ==
  ASSUME NEW cache \in Seq(Address), NEW a, NEW d \in Nat, NEW e \in Nat, d <= e,
         Recent(cache, a, d)
  PROVE  Recent(cache, a, e)
<1>1. PICK i \in 1 .. Len(cache) : cache[i] = a /\ Len(cache) - i <= d
  BY DEF Recent
<1>2. Len(cache) \in Nat
  OBVIOUS
<1>3. Len(cache) - i <= e
  BY <1>1, <1>2
<1> QED BY <1>1, <1>3 DEF Recent

\* Touching another line makes a line less recent by one at most.
LEMMA TouchedRecent ==
  ASSUME NEW cache \in Seq(Address), NEW a, NEW b \in Address, a # b,
         NEW d \in Nat, Recent(cache, a, d)
  PROVE  Recent(Touched(cache, b), a, d + 1)
<1> DEFINE n == Len(cache)
           t == Touched(cache, b)
<1>1. n \in Nat /\ DOMAIN cache = 1 .. n /\ \A i \in 1 .. n : cache[i] \in Address
  OBVIOUS
<1>2. PICK i \in 1 .. n : cache[i] = a /\ n - i <= d
  BY DEF Recent
<1>3. CASE Holds(cache, b)
  <2> DEFINE k == Place(cache, b)
             r == SE!RemoveAt(cache, k)
  <2>1. k \in 1 .. n /\ cache[k] = b
    BY <1>1, <1>3 DEF Holds, Place
  <2>2. t = Append(r, b)
    BY <1>3 DEF Touched
  <2> HIDE DEF k
  <2>3. /\ r \in Seq(Address)
        /\ Len(r) = n - 1
        /\ \A j \in 1 .. n - 1 : r[j] = IF j < k THEN cache[j] ELSE cache[j + 1]
    BY <2>1, RemoveAtIs
  <2> HIDE DEF r, n, t
  <2>4. Len(t) = n /\ \A j \in 1 .. n - 1 : t[j] = r[j]
    BY <1>1, <2>1, <2>2, <2>3
  <2>5. CASE i < k
    <3>1. i \in 1 .. n - 1
      BY <1>1, <2>1, <2>5
    <3>2. t[i] = a
      BY <1>2, <2>3, <2>4, <2>5, <3>1
    <3>3. n - i <= d + 1
      BY <1>1, <1>2
    <3> QED BY <2>4, <3>2, <3>3 DEF Recent, t
  <2>6. CASE i > k
    <3>1. i - 1 \in 1 .. n - 1 /\ i - 1 \in 1 .. n /\ ~ (i - 1 < k) /\ (i - 1) + 1 = i
      BY <1>1, <2>1, <2>6
    <3>2. t[i - 1] = a
      BY <1>2, <2>3, <2>4, <3>1
    <3>3. n - (i - 1) <= d + 1
      BY <1>1, <1>2
    <3> QED BY <2>4, <3>1, <3>2, <3>3 DEF Recent, t
  <2>7. i # k
    BY <1>2, <2>1
  <2> QED BY <1>1, <2>1, <2>5, <2>6, <2>7
<1>4. CASE ~ Holds(cache, b)
  <2>1. t = Append(cache, b)
    BY <1>4 DEF Touched
  <2> HIDE DEF t
  <2>2. Len(t) = n + 1 /\ t[i] = a
    BY <1>2, <2>1
  <2> HIDE DEF n
  <2>3. i \in 1 .. n + 1 /\ (n + 1) - i <= d + 1
    BY <1>1, <1>2
  <2> QED BY <2>2, <2>3 DEF Recent, t
<1> QED BY <1>3, <1>4

\* A put makes its own line the most recent one, and pushes no other line out that
\* is among the most recent.
LEMMA PutRecent ==
  ASSUME NEW cache \in Seq(Address), Distinct(cache), NEW b \in Address,
         NEW capacity \in Nat \ {0}
  PROVE  /\ Recent(Put(cache, b, capacity), b, 0)
         /\ \A a, d : d \in Nat /\ a # b /\ Recent(cache, a, d) /\ d + 1 < capacity =>
              Recent(Put(cache, b, capacity), a, d + 1)
<1> DEFINE t == Touched(cache, b)
           p == Put(cache, b, capacity)
           n == Len(t)
<1>1. t \in Seq(Address) /\ n \in Nat /\ n > 0 /\ t[n] = b
  BY TouchedIs
<1>2. p = IF n > capacity THEN Tail(t) ELSE t
  BY DEF Put
<1>3. ASSUME NEW a, NEW d \in Nat, d < capacity, Recent(t, a, d)
      PROVE  Recent(p, a, d)
  <2> HIDE DEF t, n, p
  <2>1. CASE n > capacity
    <3>1. t # <<>>
      BY <1>1 DEF n
    <3>2. Len(p) = n - 1 /\ \A i \in 1 .. n - 1 : p[i] = t[i + 1]
      BY <1>1, <1>2, <2>1, <3>1, HeadTailProperties DEF n
    <3>3. PICK i \in 1 .. n : t[i] = a /\ n - i <= d
      BY <1>3 DEF Recent, n
    <3>4. i - 1 \in 1 .. n - 1 /\ (i - 1) + 1 = i /\ (n - 1) - (i - 1) <= d
      BY <1>1, <1>3, <2>1, <3>3
    <3>5. p[i - 1] = a
      BY <3>2, <3>3, <3>4
    <3> QED BY <3>2, <3>4, <3>5 DEF Recent
  <2>2. CASE ~ (n > capacity)
    BY <1>2, <1>3, <2>2
  <2> QED BY <2>1, <2>2
<1>4. Recent(t, b, 0)
  <2> HIDE DEF t
  <2>1. n \in 1 .. n /\ n - n <= 0
    BY <1>1
  <2> QED BY <1>1, <2>1 DEF Recent
<1>5. Recent(p, b, 0)
  BY <1>3, <1>4
<1>6. ASSUME NEW a, NEW d, d \in Nat, a # b, Recent(cache, a, d), d + 1 < capacity
      PROVE  Recent(p, a, d + 1)
  <2>1. Recent(t, a, d + 1)
    BY <1>6, TouchedRecent
  <2> HIDE DEF t, p
  <2>2. d + 1 \in Nat
    BY <1>6
  <2> QED BY <1>3, <1>6, <2>1, <2>2
<1> QED BY <1>5, <1>6

\* A completed request brings its line to the most recent end of the destination,
\* and pushes none out that is recent enough.
Stays(c, st, r) ==
  /\ r.line \in c.prefetched
  /\ Recent(c.caches[DESTINATION], r.line, 0)
  /\ \A a, d : /\ d \in Nat /\ d + 1 < CAPACITY[DESTINATION]
               /\ a # r.line /\ a \in st.prefetched
               /\ Recent(st.caches[DESTINATION], a, d)
               => a \in c.prefetched /\ Recent(c.caches[DESTINATION], a, d + 1)

LEMMA CompleteRecent ==
  ASSUME NEW M, NEW st \in State(M), Where(st), NEW r \in SE!ToSet(st.pending),
         NEW c, Completed(M, c, st, r)
  PROVE  Stays(c, st, r)
<1> DEFINE before == st.caches[DESTINATION]
           now == c.caches[DESTINATION]
           p == Put(before, r.line, CAPACITY[DESTINATION])
           E == PrefetchEvicts(st.caches, r.line, DESTINATION)
<1>1. /\ DESTINATION \in Level /\ CAPACITY[DESTINATION] \in Nat \ {0}
      /\ st.caches \in [Level -> Seq(Address)]
      /\ before \in Seq(Address) /\ Distinct(before)
      /\ st.pending \in Seq(Request)
  BY RequestsAssumption, HierarchyAssumption DEF State, Hierarchies
<1>2. r \in Request /\ r.line \in Address /\ r.line \in Lines(st.pending)
  <2>1. r \in Request
    BY <1>1 DEF SE!ToSet
  <2> QED BY <1>1, <2>1, LinesAre DEF Request
<1>3. ~ Contains(st.caches, r.line)
  BY <1>2, HoldsIs DEF Contains, Where
<1>4. now = p /\ E = PutEvicts(before, r.line, CAPACITY[DESTINATION])
  BY <1>1, <1>3 DEF Completed, AfterPrefetch, PrefetchEvicts
<1>5. E = SE!ToSet(before) \ SE!ToSet(p)
  BY <1>4 DEF PutEvicts
<1>6. c.prefetched = (st.prefetched \cup {r.line}) \ E
  BY DEF Completed
<1>7. \A a, d : Recent(now, a, d) => a \in SE!ToSet(now)
  BY DEF Recent, SE!ToSet
<1> HIDE DEF before, E, p, now
<1>8. /\ Recent(p, r.line, 0)
      /\ \A a, d : /\ d \in Nat /\ a # r.line /\ Recent(before, a, d)
                   /\ d + 1 < CAPACITY[DESTINATION]
                   => Recent(p, a, d + 1)
  BY <1>1, <1>2, PutRecent DEF p
<1> QED BY <1>4, <1>5, <1>6, <1>7, <1>8 DEF Stays, before, now

----------------------------------------------------------------------------
(* complete_ready()                                                        *)

\* What complete_ready() makes of a state in which all lines are in place.
Readied(M, c, st, now) ==
  /\ c \in State(M) /\ Where(c)
  /\ Counts(st) => Counts(c)
  /\ SE!ToSet(c.pending) = {q \in SE!ToSet(st.pending) : ~ (q.ready <= now)}
  /\ \A n \in M \ Touchable : c.metrics[n] = st.metrics[n]
  /\ c.metrics["completed"] >= st.metrics["completed"]
  /\ c.metrics["completed"] = st.metrics["completed"] => c.caches = st.caches
  /\ MAX_OUTSTANDING <= CAPACITY[DESTINATION] =>
       \A q \in SE!ToSet(st.pending) : q.ready <= now => q.line \in c.prefetched

\* Completing the due requests one after the other, in the order of issue, leaves
\* the lines in place and exactly the requests that are not due outstanding.  Where
\* the destination has room for all requests, none of those completed here has
\* pushed another out.
LEMMA ReadyIs ==
  ASSUME NEW M, Ledger \subseteq M, NEW st \in State(M), Where(st), NEW now \in Nat, NEW after,
         after[0] = st,
         \A i \in 1 .. Len(st.pending) : after[i - 1] \in State(M) =>
           IF st.pending[i].ready <= now
           THEN Completed(M, after[i], after[i - 1], st.pending[i])
           ELSE after[i] = after[i - 1]
  PROVE  Readied(M, after[Len(st.pending)], st, now)
<1> DEFINE q == st.pending
           n == Len(q)
<1>1. /\ n \in Nat /\ DOMAIN q = 1 .. n /\ OneEach(q)
      /\ \A i \in 1 .. n : q[i] \in Request
  BY DEF State
<1>2. \A i \in 1 .. n : after[i - 1] \in State(M) =>
        IF q[i].ready <= now THEN Completed(M, after[i], after[i - 1], q[i])
        ELSE after[i] = after[i - 1]
  OBVIOUS
<1> HIDE DEF q, n
<1> DEFINE Kept(i) == {j \in 1 .. n : j > i \/ ~ (q[j].ready <= now)}
           Room == MAX_OUTSTANDING <= CAPACITY[DESTINATION]
           Fresh(i, j) == /\ q[j].line \in after[i].prefetched
                          /\ Recent(after[i].caches[DESTINATION], q[j].line, i - j)
           Reached(i) ==
             LET c == after[i]
             IN  /\ c \in State(M) /\ Where(c)
                 /\ Counts(st) => Counts(c)
                 /\ SE!ToSet(c.pending) = {q[j] : j \in Kept(i)}
                 /\ \A k \in M \ Touchable : c.metrics[k] = st.metrics[k]
                 /\ c.metrics["completed"] >= st.metrics["completed"]
                 /\ c.metrics["completed"] = st.metrics["completed"] => c.caches = st.caches
                 /\ Room => \A j \in 1 .. i : q[j].ready <= now => Fresh(i, j)
           T == {i \in 0 .. n : Reached(i)}
<1>5. \A s \in State(M) : s.metrics["completed"] \in Nat
  BY DEF State, Ledger
<1>6. 0 \in T
  <2>1. after[0] = st
    OBVIOUS
  <2>2. SE!ToSet(st.pending) = {q[j] : j \in Kept(0)}
    BY <1>1 DEF SE!ToSet, q
  <2>3. Reached(0)
    <3> HIDE DEF Kept
    <3> QED BY <1>5, <2>1, <2>2
  <2> HIDE DEF Reached
  <2> QED BY <1>1, <2>3
<1>7. ASSUME NEW i \in 1 .. n, i - 1 \in T
      PROVE  i \in T
  <2> DEFINE s == after[i - 1]
             r == q[i]
  <2>1. Reached(i - 1)
    BY <1>7
  <2>2. s \in State(M) /\ Where(s)
    BY <2>1
  <2>3. CASE ~ (r.ready <= now)
    <3>1. after[i] = s
      BY <1>2, <2>2, <2>3
    <3>2. Kept(i) = Kept(i - 1)
      BY <1>1, <2>3
    <3>3. ASSUME Room, NEW j \in 1 .. i, q[j].ready <= now
          PROVE  Fresh(i, j)
      <4>1. j \in 1 .. i - 1
        BY <1>1, <2>3, <3>3
      <4>2. q[j].line \in s.prefetched /\ Recent(s.caches[DESTINATION], q[j].line, i - 1 - j)
        BY <2>1, <3>3, <4>1
      <4>3. s.caches[DESTINATION] \in Seq(Address)
        BY <2>2, RequestsAssumption DEF State, Hierarchies
      <4>4. i - 1 - j \in Nat /\ i - j \in Nat /\ i - 1 - j <= i - j
        BY <4>1
      <4> HIDE DEF s
      <4>5. Recent(s.caches[DESTINATION], q[j].line, i - j)
        BY <4>2, <4>3, <4>4, RecentWeakens
      <4> QED BY <3>1, <4>2, <4>5
    <3>4. Reached(i)
      <4> HIDE DEF Kept, s, Fresh, Room
      <4> QED BY <2>1, <3>1, <3>2, <3>3 DEF s
    <3> HIDE DEF Reached
    <3> QED BY <3>4
  <2>4. CASE r.ready <= now
    <3> DEFINE c == after[i]
    <3>1. Completed(M, c, s, r)
      BY <1>2, <2>2, <2>4
    <3> HIDE DEF c, s
    <3>2. /\ Counts(st) => Counts(s)
          /\ SE!ToSet(s.pending) = {q[j] : j \in Kept(i - 1)}
          /\ \A k \in M \ Touchable : s.metrics[k] = st.metrics[k]
          /\ s.metrics["completed"] >= st.metrics["completed"]
      BY <2>1 DEF s
    <3>3. i \in Kept(i - 1) /\ r \in Request
      BY <1>1
    <3>4. r \in SE!ToSet(s.pending)
      BY <3>2, <3>3
    <3>5. Where(c) /\ (Counts(s) => Counts(c))
      BY <2>2, <3>1, <3>4, CompleteWhere, CompleteCounts
    <3>6. SE!ToSet(c.pending) = {x \in SE!ToSet(s.pending) : x.line # r.line}
      <4>1. s.pending \in Seq(Request) /\ OneEach(s.pending)
        BY <2>2 DEF State
      <4> QED BY <3>1, <4>1, PoppedIs DEF Completed
    <3>7. {x \in SE!ToSet(s.pending) : x.line # r.line} = {q[j] : j \in Kept(i)}
      <4>1. \A j \in 1 .. n : q[j].line = r.line <=> j = i
        BY <1>1 DEF OneEach, n
      <4>2. Kept(i) = Kept(i - 1) \ {i}
        BY <1>1, <2>4
      <4>3. Kept(i - 1) \subseteq 1 .. n
        OBVIOUS
      <4> HIDE DEF Kept, r
      <4> QED BY <3>2, <4>1, <4>2, <4>3
    <3>8. /\ \A k \in M \ Touchable : c.metrics[k] = st.metrics[k]
          /\ c.metrics["completed"] >= st.metrics["completed"]
          /\ c.metrics["completed"] # st.metrics["completed"]
      <4>1. /\ \A k \in M \ Touchable : c.metrics[k] = s.metrics[k]
            /\ c.metrics["completed"] = s.metrics["completed"] + 1
        BY <3>1 DEF Completed
      <4> QED BY <1>5, <2>2, <3>2, <4>1
    <3>9. ASSUME Room, NEW j \in 1 .. i, q[j].ready <= now
          PROVE  Fresh(i, j)
      <4> DEFINE before == s.caches[DESTINATION]
                 then == c.caches[DESTINATION]
      <4>1. /\ r.line \in c.prefetched /\ Recent(then, r.line, 0)
            /\ \A a, d : /\ d \in Nat /\ d + 1 < CAPACITY[DESTINATION]
                         /\ a # r.line /\ a \in s.prefetched /\ Recent(before, a, d)
                         => a \in c.prefetched /\ Recent(then, a, d + 1)
        <5>1. Stays(c, s, r)
          BY <2>2, <3>1, <3>4, CompleteRecent
        <5> HIDE DEF r
        <5> QED BY <5>1 DEF Stays
      <4>2. CASE j = i
        BY <1>1, <4>1, <4>2 DEF c
      <4>3. CASE j # i
        <5>1. j \in 1 .. i - 1 /\ j \in 1 .. n
          BY <1>1, <4>3
        <5>2. q[j].line \in s.prefetched /\ Recent(before, q[j].line, i - 1 - j)
          BY <2>1, <3>9, <5>1 DEF s
        <5>3. q[j].line # r.line
          BY <1>1, <4>3, <5>1 DEF OneEach, n
        <5>4. i - 1 - j \in Nat /\ (i - 1 - j) + 1 = i - j /\ i - j < n
          BY <1>1, <5>1
        <5>5. n <= CAPACITY[DESTINATION] /\ CAPACITY[DESTINATION] \in Nat
          <6>1. n <= MAX_OUTSTANDING
            BY DEF Where, n, q
          <6>2. CAPACITY[DESTINATION] \in Nat /\ MAX_OUTSTANDING \in Nat
            BY RequestsAssumption, HierarchyAssumption
          <6> QED BY <1>1, <3>9, <6>1, <6>2
        <5>6. (i - 1 - j) + 1 < CAPACITY[DESTINATION]
          BY <1>1, <5>4, <5>5
        <5> HIDE DEF before, then, r
        <5>7. q[j].line \in c.prefetched /\ Recent(then, q[j].line, (i - 1 - j) + 1)
          BY <4>1, <5>2, <5>3, <5>4, <5>6
        <5> QED BY <5>4, <5>7 DEF then, c
      <4> QED BY <4>2, <4>3
    <3>10. Reached(i)
      <4> HIDE DEF Kept, Fresh, Room
      <4> QED BY <3>1, <3>2, <3>5, <3>6, <3>7, <3>8, <3>9 DEF Completed, c
    <3> HIDE DEF Reached
    <3> QED BY <3>10
  <2> QED BY <2>3, <2>4
<1> HIDE DEF T
<1>8. 0 .. n \subseteq T
  BY <1>1, <1>6, <1>7, UpTo
<1>9. Reached(n)
  BY <1>1, <1>8 DEF T
<1>10. {q[j] : j \in Kept(n)} = {x \in SE!ToSet(q) : ~ (x.ready <= now)}
  BY <1>1 DEF SE!ToSet
<1> HIDE DEF Kept
<1>11. Room => \A x \in SE!ToSet(q) : x.ready <= now => x.line \in after[n].prefetched
  <2>1. \A x \in SE!ToSet(q) : \E j \in 1 .. n : x = q[j]
    BY <1>1 DEF SE!ToSet
  <2> QED BY <1>9, <2>1
<1>12. Room <=> MAX_OUTSTANDING <= CAPACITY[DESTINATION]
  OBVIOUS
<1> HIDE DEF Room, Fresh
<1> QED BY <1>9, <1>10, <1>11, <1>12 DEF Readied, q, n

----------------------------------------------------------------------------
(* The demand access.                                                      *)

\* What a demand makes of a state; settled says whether it ends the pollution
\* that the line may be part of.
Accessed(M, d, st, line, settled) ==
  LET E == AccessEvicts(st.caches, line)
      wasted == E \cap st.prefetched
      owed == st.polluted \cup wasted
      m == st.metrics
  IN  /\ d \in State(M)
      /\ d.caches = AfterAccess(st.caches, line)
      /\ d.pending = st.pending
      /\ d.prefetched = (st.prefetched \ E) \ {line}
      /\ d.demanded = (st.demanded \ (E \ st.prefetched)) \cup {line}
      /\ d.polluted = IF settled THEN owed \ {line} ELSE owed
      /\ IsFiniteSet(wasted)
      /\ d.metrics["unused"] = m["unused"] + Cardinality(wasted)
      /\ d.metrics["pollution"] = m["pollution"] + One(settled /\ line \in owed)
      /\ d.metrics["useful"] = m["useful"] + One(line \in st.prefetched \ E)
      /\ \A n \in {"requests", "duplicates", "dropped", "issued", "completed"} :
           d.metrics[n] = m[n]

\* A demand of a line that is not outstanding leaves every line in its place.
LEMMA AccessedWhere ==
  ASSUME NEW M, NEW st \in State(M), Where(st),
         NEW line \in Address, line \notin Lines(st.pending),
         NEW settled, NEW d, Accessed(M, d, st, line, settled)
  PROVE  Where(d)
<1> DEFINE E == AccessEvicts(st.caches, line)
           g == AfterAccess(st.caches, line)
<1>1. /\ line \notin E
      /\ line \in SE!ToSet(g[1])
      /\ \A l \in Level : /\ SE!ToSet(g[l]) \subseteq SE!ToSet(st.caches[l]) \cup {line}
                          /\ SE!ToSet(st.caches[l]) \ E \subseteq SE!ToSet(g[l])
  BY AccessIs DEF State
<1>2. /\ d.caches = g /\ d.pending = st.pending
      /\ d.prefetched = (st.prefetched \ E) \ {line}
      /\ d.demanded = (st.demanded \ (E \ st.prefetched)) \cup {line}
  BY DEF Accessed
<1> HIDE DEF E, g
<1>3. DESTINATION \in Level /\ 1 \in Level
  BY RequestsAssumption DEF Level
<1>4. ASSUME NEW l \in Level
      PROVE  /\ SE!ToSet(d.caches[l]) \cap Lines(d.pending) = {}
             /\ l # DESTINATION => SE!ToSet(d.caches[l]) \cap d.prefetched = {}
  BY <1>1, <1>2 DEF Where
<1>5. d.prefetched \subseteq SE!ToSet(d.caches[DESTINATION])
  BY <1>1, <1>2, <1>3 DEF Where
<1>6. d.demanded \subseteq SE!ToSet(d.caches[1]) \ d.prefetched
  <2>1. st.demanded \cap st.prefetched = {} /\ st.demanded \subseteq SE!ToSet(st.caches[1])
    BY DEF Where
  <2>2. d.demanded \subseteq (st.demanded \ E) \cup {line}
    BY <1>2, <2>1
  <2> QED BY <1>1, <1>2, <1>3, <2>1, <2>2
<1>7. Len(d.pending) <= MAX_OUTSTANDING
  BY <1>2 DEF Where
<1> QED BY <1>4, <1>5, <1>6, <1>7 DEF Where

\* A demand that a prefetched line serves moves it to the useful; what it pushes
\* out from the prefetched is wasted; a paid pollution is no longer owed.
LEMMA AccessedCounts ==
  ASSUME NEW M, Ledger \subseteq M, NEW st \in State(M), Where(st), Counts(st),
         NEW line \in Address, NEW settled \in BOOLEAN, NEW d, Accessed(M, d, st, line, settled)
  PROVE  Counts(d)
<1> DEFINE E == AccessEvicts(st.caches, line)
           wasted == E \cap st.prefetched
           kept == st.prefetched \ E
           owed == st.polluted \cup wasted
           paid == settled /\ line \in owed
           m == st.metrics
           k == d.metrics
<1>1. /\ d.pending = st.pending
      /\ d.prefetched = kept \ {line}
      /\ d.polluted = IF settled THEN owed \ {line} ELSE owed
      /\ IsFiniteSet(wasted)
      /\ k["unused"] = m["unused"] + Cardinality(wasted)
      /\ k["pollution"] = m["pollution"] + One(paid)
      /\ k["useful"] = m["useful"] + One(line \in kept)
      /\ \A n \in {"requests", "duplicates", "dropped", "issued", "completed"} : k[n] = m[n]
  BY DEF Accessed
<1>2. /\ m["requests"] = m["duplicates"] + m["dropped"] + m["issued"]
      /\ m["issued"] = m["completed"] + Len(st.pending)
      /\ m["issued"] = m["useful"] + m["unused"] + Len(st.pending) + Cardinality(st.prefetched)
      /\ m["pollution"] + Cardinality(st.polluted) <= m["unused"]
      /\ IsFiniteSet(st.polluted)
  BY DEF Counts
<1>3. m["useful"] \in Nat /\ m["unused"] \in Nat /\ m["pollution"] \in Nat /\ Len(st.pending) \in Nat
  BY DEF State, Ledger
<1>4. IsFiniteSet(st.prefetched) /\ Cardinality(st.prefetched) \in Nat
  BY PrefetchedFinite
<1> HIDE DEF E, m, k
<1>5. /\ IsFiniteSet(kept)
      /\ Cardinality(kept) = Cardinality(st.prefetched) - Cardinality(wasted)
  <2>1. kept = st.prefetched \ E /\ st.prefetched \cap E = wasted
    OBVIOUS
  <2> HIDE DEF kept, wasted
  <2>2. Cardinality(st.prefetched \ E) = Cardinality(st.prefetched) - Cardinality(st.prefetched \cap E)
    BY <1>4, FS_Difference
  <2>3. IsFiniteSet(st.prefetched \ E)
    BY <1>4, FS_Difference
  <2> QED BY <2>1, <2>2, <2>3
<1> HIDE DEF kept
<1>6. Cardinality(wasted) \in Nat /\ Cardinality(kept) \in Nat
  BY <1>1, <1>5, FS_CardinalityType
<1>7. Cardinality(d.prefetched) = Cardinality(kept) - One(line \in kept)
  <2>1. Cardinality(kept \ {line})
          = IF line \in kept THEN Cardinality(kept) - 1 ELSE Cardinality(kept)
    BY <1>5, FS_RemoveElement
  <2> QED BY <1>1, <1>6, <2>1 DEF One
<1>8. IsFiniteSet(owed) /\ Cardinality(owed) <= Cardinality(st.polluted) + Cardinality(wasted)
  <2>1. IsFiniteSet(owed) /\ Cardinality(owed)
          = Cardinality(st.polluted) + Cardinality(wasted) - Cardinality(st.polluted \cap wasted)
    BY <1>1, <1>2, FS_Union
  <2>2. /\ Cardinality(st.polluted) \in Nat
        /\ Cardinality(st.polluted \cap wasted) \in Nat
    BY <1>2, FS_Subset, FS_CardinalityType
  <2> HIDE DEF wasted, owed
  <2> QED BY <1>6, <2>1, <2>2
<1> HIDE DEF wasted, owed
<1>9. /\ IsFiniteSet(d.polluted)
      /\ Cardinality(d.polluted) + One(paid) = Cardinality(owed)
  <2>1. CASE settled
    <3>1. d.polluted = owed \ {line}
      BY <1>1, <2>1
    <3>2. /\ IsFiniteSet(owed \ {line})
          /\ Cardinality(owed \ {line})
               = IF line \in owed THEN Cardinality(owed) - 1 ELSE Cardinality(owed)
          /\ Cardinality(owed) \in Nat
      BY <1>8, FS_RemoveElement, FS_CardinalityType
    <3> QED BY <2>1, <3>1, <3>2 DEF One
  <2>2. CASE ~ settled
    <3>1. d.polluted = owed
      BY <1>1, <2>2
    <3>2. Cardinality(owed) \in Nat
      BY <1>8, FS_CardinalityType
    <3> QED BY <1>8, <2>2, <3>1, <3>2 DEF One
  <2> QED BY <2>1, <2>2
<1> DEFINE long == Len(st.pending)
           had == Cardinality(st.prefetched)
           lost == Cardinality(wasted)
           one == One(line \in kept)
<1>10. /\ m["useful"] \in Nat /\ m["unused"] \in Nat /\ long \in Nat /\ had \in Nat
       /\ lost \in Nat /\ one \in Nat
  BY <1>3, <1>4, <1>6 DEF One
<1>11. k["issued"] = k["useful"] + k["unused"] + Len(d.pending) + Cardinality(d.prefetched)
  <2>1. /\ k["issued"] = m["useful"] + m["unused"] + long + had
        /\ k["useful"] + k["unused"] + Len(d.pending) + Cardinality(d.prefetched)
             = (m["useful"] + one) + (m["unused"] + lost) + long + ((had - lost) - one)
    BY <1>1, <1>2, <1>5, <1>7
  <2> HIDE DEF long, had, lost, one
  <2>2. m["useful"] + m["unused"] + long + had
          = (m["useful"] + one) + (m["unused"] + lost) + long + ((had - lost) - one)
    BY ONLY <1>10
  <2> QED BY <2>1, <2>2
<1>12. k["pollution"] + Cardinality(d.polluted) <= k["unused"]
  <2> DEFINE was == Cardinality(st.polluted)
             now == Cardinality(owed)
             left == Cardinality(d.polluted)
             o == One(paid)
  <2>1. /\ was \in Nat /\ now \in Nat /\ left \in Nat /\ lost \in Nat /\ o \in Nat
        /\ m["pollution"] \in Nat /\ m["unused"] \in Nat
    BY <1>2, <1>3, <1>6, <1>8, <1>9, FS_CardinalityType DEF One
  <2>2. /\ m["pollution"] + was <= m["unused"]
        /\ left + o = now
        /\ now <= was + lost
    BY <1>2, <1>8, <1>9
  <2>3. k["pollution"] = m["pollution"] + o /\ k["unused"] = m["unused"] + lost
    BY <1>1
  <2> HIDE DEF was, now, left, o, lost
  <2>4. (m["pollution"] + o) + left <= m["unused"] + lost
    BY ONLY <2>1, <2>2
  <2> QED BY <2>3, <2>4 DEF left
<1>13. k["issued"] = k["completed"] + Len(d.pending)
  BY <1>1, <1>2
<1>14. k["requests"] = k["duplicates"] + k["dropped"] + k["issued"]
  BY <1>1, <1>2
<1> QED BY <1>9, <1>11, <1>12, <1>13, <1>14 DEF Counts, k

----------------------------------------------------------------------------
(* The predictions.                                                        *)

\* A request for a line that has none joins the outstanding ones.
LEMMA AppendIs ==
  ASSUME NEW queue \in Seq(Request), OneEach(queue), NEW r \in Request,
         ~ Requested(queue, r.line)
  PROVE  LET q == Append(queue, r)
         IN  /\ q \in Seq(Request) /\ OneEach(q)
             /\ Len(q) = Len(queue) + 1
             /\ Lines(q) = Lines(queue) \cup {r.line}
<1> DEFINE q == Append(queue, r)
           n == Len(queue)
<1>1. /\ q \in Seq(Request) /\ Len(q) = n + 1 /\ n \in Nat
      /\ DOMAIN q = 1 .. n + 1 /\ DOMAIN queue = 1 .. n
      /\ \A i \in 1 .. n : q[i] = queue[i]
      /\ q[n + 1] = r
  OBVIOUS
<1>2. \A i \in 1 .. n : queue[i].line # r.line
  BY <1>1 DEF Requested
<1> HIDE DEF n, q
<1>3. \A i \in 1 .. n + 1 : i \in 1 .. n \/ i = n + 1
  BY <1>1
<1>4. \A i \in 1 .. n : i \in 1 .. n + 1
  BY <1>1
<1>5. n + 1 \in 1 .. n + 1
  BY <1>1
<1>6. OneEach(q)
  <2>1. ASSUME NEW i \in 1 .. n + 1, NEW j \in 1 .. n + 1, q[i].line = q[j].line
        PROVE  i = j
    <3>1. CASE i = n + 1 \/ j = n + 1
      BY <1>1, <1>2, <1>3, <2>1, <3>1
    <3>2. CASE i \in 1 .. n /\ j \in 1 .. n
      BY <1>1, <2>1, <3>2 DEF OneEach, n
    <3> QED BY <1>3, <3>1, <3>2
  <2> QED BY <1>1, <2>1 DEF OneEach
<1>7. Lines(q) = Lines(queue) \cup {r.line}
  BY <1>1, <1>3, <1>4, <1>5 DEF Lines
<1> QED BY <1>1, <1>6, <1>7 DEF n, q

\* What one prediction makes of a state: it is a duplicate, dropped, or issued.
Proposal(M, p, l, line) ==
  LET m == l.metrics
      k == p.metrics
  IN  /\ p \in State(M)
      /\ p.caches = l.caches /\ p.prefetched = l.prefetched
      /\ p.demanded = l.demanded /\ p.polluted = l.polluted
      /\ \A n \in {"completed", "useful", "unused", "pollution"} : k[n] = m[n]
      /\ k["requests"] = m["requests"] + 1
      /\ \/ /\ p.pending = l.pending
            /\ k["issued"] = m["issued"]
            /\ \/ k["duplicates"] = m["duplicates"] + 1 /\ k["dropped"] = m["dropped"]
               \/ k["duplicates"] = m["duplicates"] /\ k["dropped"] = m["dropped"] + 1
         \/ /\ Len(p.pending) = Len(l.pending) + 1
            /\ Lines(p.pending) = Lines(l.pending) \cup {line}
            /\ Len(l.pending) < MAX_OUTSTANDING
            /\ ~ Contains(l.caches, line)
            /\ k["issued"] = m["issued"] + 1
            /\ k["duplicates"] = m["duplicates"] /\ k["dropped"] = m["dropped"]

\* No prediction makes a request for a cached line.
LEMMA ProposalWhere ==
  ASSUME NEW M, NEW l \in State(M), Where(l), NEW line, NEW p, Proposal(M, p, l, line)
  PROVE  Where(p)
<1>1. /\ p.caches = l.caches /\ p.prefetched = l.prefetched /\ p.demanded = l.demanded
      /\ l.pending \in Seq(Request) /\ MAX_OUTSTANDING \in Nat
  BY RequestsAssumption DEF Proposal, State
<1>2. CASE p.pending = l.pending
  BY <1>1, <1>2 DEF Where
<1>3. CASE /\ Len(p.pending) = Len(l.pending) + 1
           /\ Lines(p.pending) = Lines(l.pending) \cup {line}
           /\ Len(l.pending) < MAX_OUTSTANDING
           /\ ~ Contains(l.caches, line)
  <2>1. \A k \in Level : line \notin SE!ToSet(l.caches[k])
    BY <1>3, HoldsIs DEF Contains
  <2>2. Len(p.pending) <= MAX_OUTSTANDING
    BY <1>1, <1>3
  <2> QED BY <1>1, <1>3, <2>1, <2>2 DEF Where
<1> QED BY <1>2, <1>3 DEF Proposal

\* Each prediction is counted under one heading.
LEMMA ProposalCounts ==
  ASSUME NEW M, Ledger \subseteq M, NEW l \in State(M), Where(l), Counts(l), NEW line,
         NEW p, Proposal(M, p, l, line)
  PROVE  Counts(p)
<1> DEFINE m == l.metrics
           k == p.metrics
           long == Len(l.pending)
           had == Cardinality(l.prefetched)
<1>1. /\ m["requests"] \in Nat /\ m["duplicates"] \in Nat /\ m["dropped"] \in Nat
      /\ m["issued"] \in Nat /\ m["completed"] \in Nat /\ m["useful"] \in Nat
      /\ m["unused"] \in Nat /\ long \in Nat
  BY DEF State, Ledger
<1>2. had \in Nat
  BY PrefetchedFinite
<1>3. /\ m["requests"] = m["duplicates"] + m["dropped"] + m["issued"]
      /\ m["issued"] = m["completed"] + long
      /\ m["issued"] = m["useful"] + m["unused"] + long + had
  BY DEF Counts
<1>3a. /\ m["pollution"] + Cardinality(l.polluted) <= m["unused"]
       /\ IsFiniteSet(l.polluted)
  BY DEF Counts
<1>4. /\ p.prefetched = l.prefetched /\ p.polluted = l.polluted
      /\ \A n \in {"completed", "useful", "unused", "pollution"} : k[n] = m[n]
      /\ k["requests"] = m["requests"] + 1
  BY DEF Proposal
<1> HIDE DEF m, k, long, had
<1>5. CASE /\ p.pending = l.pending
           /\ k["issued"] = m["issued"]
           /\ \/ k["duplicates"] = m["duplicates"] + 1 /\ k["dropped"] = m["dropped"]
              \/ k["duplicates"] = m["duplicates"] /\ k["dropped"] = m["dropped"] + 1
  <2>1. /\ m["requests"] + 1 = (m["duplicates"] + 1) + m["dropped"] + m["issued"]
        /\ m["requests"] + 1 = m["duplicates"] + (m["dropped"] + 1) + m["issued"]
    <3>1. m["requests"] = m["duplicates"] + m["dropped"] + m["issued"]
      BY <1>3
    <3>2. m["requests"] + 1 = (m["duplicates"] + 1) + m["dropped"] + m["issued"]
      BY ONLY <1>1, <3>1
    <3>3. m["requests"] + 1 = m["duplicates"] + (m["dropped"] + 1) + m["issued"]
      BY ONLY <1>1, <3>1
    <3> QED BY <3>2, <3>3
  <2>2. k["requests"] = k["duplicates"] + k["dropped"] + k["issued"]
    BY <1>4, <1>5, <2>1
  <2> QED BY <1>3, <1>3a, <1>4, <1>5, <2>2 DEF Counts, m, k, long, had
<1>6. CASE /\ Len(p.pending) = long + 1
           /\ k["issued"] = m["issued"] + 1
           /\ k["duplicates"] = m["duplicates"] /\ k["dropped"] = m["dropped"]
  <2>1. /\ m["requests"] + 1 = m["duplicates"] + m["dropped"] + (m["issued"] + 1)
        /\ m["issued"] + 1 = m["completed"] + (long + 1)
        /\ m["issued"] + 1 = m["useful"] + m["unused"] + (long + 1) + had
    BY ONLY <1>1, <1>2, <1>3
  <2>2. /\ k["requests"] = k["duplicates"] + k["dropped"] + k["issued"]
        /\ k["issued"] = k["completed"] + Len(p.pending)
        /\ k["issued"] = k["useful"] + k["unused"] + Len(p.pending) + Cardinality(p.prefetched)
    BY <1>4, <1>6, <2>1 DEF had
  <2> QED BY <1>3a, <1>4, <2>2 DEF Counts, m, k
<1> QED BY <1>5, <1>6 DEF Proposal, m, k, long
================================================================================
