---------------------------- MODULE MemoryHierarchy ----------------------------
(***************************************************************************)
(* The three LRU caches of the Python cycle-accounting simulator, as       *)
(* operators on their contents.  A cache is the sequence of its lines, the *)
(* least recently used first; a hierarchy is a function from levels to     *)
(* caches.  Hit, miss and eviction counters are left out.                  *)
(***************************************************************************)
EXTENDS Naturals, Sequences

CONSTANTS
  Address,       \* normalized line addresses
  CAPACITY,      \* lines per level
  LATENCY        \* cycles per level, DRAM included

Level == 1 .. 3
DRAM == 4

ASSUME HierarchyAssumption ==
  /\ CAPACITY \in [Level -> Nat \ {0}]
  /\ LATENCY \in [Level \cup {DRAM} -> Nat]

SE == INSTANCE SequencesExt

Holds(cache, a) == \E i \in DOMAIN cache : cache[i] = a

Place(cache, a) == CHOOSE i \in DOMAIN cache : cache[i] = a

\* LRUCache.put(a) before its eviction, which is also what get(a) does to a
\* cache that holds a: an OrderedDict holds a key at one place, and moves it.
Touched(cache, a) ==
  IF Holds(cache, a) THEN Append(SE!RemoveAt(cache, Place(cache, a)), a)
  ELSE Append(cache, a)

Put(cache, a, capacity) ==
  IF Len(Touched(cache, a)) > capacity THEN Tail(Touched(cache, a)) ELSE Touched(cache, a)

\* What put(a) returns: the evicted line, if there is one.
PutEvicts(cache, a, capacity) ==
  SE!ToSet(cache) \ SE!ToSet(Put(cache, a, capacity))

Empty == [l \in Level |-> <<>>]

Contains(h, a) == \E l \in Level : Holds(h[l], a)

\* level_of(a): the first level that holds a, DRAM if none does.
LevelOf(h, a) ==
  CHOOSE l \in Level \cup {DRAM} :
    /\ l = DRAM \/ Holds(h[l], a)
    /\ \A k \in Level : k < l => ~Holds(h[k], a)

\* access(a): the line becomes the most recent one of the level that has it and
\* is put into every level above.
AfterAccess(h, a) ==
  [l \in Level |-> IF l <= LevelOf(h, a) THEN Put(h[l], a, CAPACITY[l]) ELSE h[l]]

AccessEvicts(h, a) ==
  UNION {PutEvicts(h[l], a, CAPACITY[l]) : l \in {k \in Level : k <= LevelOf(h, a)}}

\* insert_prefetch(a, destination): nothing happens to a line cached anywhere.
AfterPrefetch(h, a, destination) ==
  IF Contains(h, a) THEN h
  ELSE [h EXCEPT ![destination] = Put(@, a, CAPACITY[destination])]

PrefetchEvicts(h, a, destination) ==
  IF Contains(h, a) THEN {} ELSE PutEvicts(h[destination], a, CAPACITY[destination])
================================================================================
