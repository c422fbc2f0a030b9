------------------------------- MODULE Predictors -------------------------------
(***************************************************************************)
(* The predictors of wam/predictor.py, wam/horizon.py, wam/hardware.py and *)
(* wam/real_predictors.py.  Each has a learning step, the body of its      *)
(* fit() or observe() for the last of the values seen so far, and a        *)
(* forecast: the set of lines it predicts after a context, at most one     *)
(* unless it says otherwise.                                               *)
(***************************************************************************)
EXTENDS ContextTables, BoundedTable

CONSTANTS
  Depth,        \* context_depth of every predictor
  Horizon,      \* the distance at which the horizon predictors aim
  TableSize,    \* buckets of HashedContextPredictor
  Levels,       \* 2^counter_bits - 1 of HashedContextPredictor
  Mix(_)        \* the hash of a context

ASSUME PredictorsAssumption ==
  {Depth, Horizon, TableSize, Levels} \subseteq Nat \ {0}

\* The values known when the target of the last one was predicted.
Past(values, horizon) == SubSeq(values, 1, Len(values) - horizon)

----------------------------------------------------------------------------
(* Absolute contexts at distance 1.                                        *)

WAMLearns(trie, history, line) ==
  IF history = <<>> THEN trie ELSE TrieUpdate(trie, history, line, Depth)

\* Mutation of MarkovLearns: the line is part of its own context.
MarkovLearnsLate(table, history, line) ==
  Counted(table, SuffixesOf(Recent(Append(history, line), Depth)), line)

MarkovLearns(table, history, line) ==
  Counted(table, SuffixesOf(Recent(history, Depth)), line)

LastTransitionLearns(table, history, line) ==
  Counted(table, SuffixesOf(Recent(history, 1)), line)

\* WeightedTriePredictor.predict(): policy holds minimum_observations, exact_only,
\* the threshold num / den, support_k, and whether an entropy threshold below
\* that of any two-way split gates the answer.
Plain == [least |-> 1, exact |-> FALSE, num |-> 0, den |-> 1, support |-> 0, gated |-> FALSE]
WAMForecast(trie, context, policy, k) ==
  LET n    == MatchedDepth(trie, context, Depth, policy.least, policy.exact)
      seen == At(trie, Recent(context, n))
      confident == {x \in DOMAIN seen :
                      seen[x] * policy.den >= policy.num * (Total(seen) + policy.support)}
  IN  IF n = 0 \/ (policy.gated /\ Cardinality(DOMAIN seen) > 1) THEN {}
      ELSE Top(Restrict(seen, confident), k)

\* Only the whole available context is looked up.
MarkovForecast(table, context) == Top(At(table, Recent(context, Depth)), 1)

----------------------------------------------------------------------------
(* Absolute contexts at distance Horizon.                                  *)

\* Mutation of DirectLearns: the context ends one line too early.
DirectLearnsEarly(trie, values) ==
  IF Len(values) <= Horizon + 1 THEN trie
  ELSE TrieUpdate(trie, Past(values, Horizon + 1), Last(values), Depth)

DirectLearns(trie, values) ==
  IF Len(values) <= Horizon THEN trie
  ELSE TrieUpdate(trie, Past(values, Horizon), Last(values), Depth)

FlatLearns(table, values) ==
  IF Len(values) <= Horizon THEN table
  ELSE Counted(table, {Recent(Past(values, Horizon), Depth)}, Last(values))

FlatForecast(table, context) == Top(At(table, Recent(context, Depth)), 1)

\* HashedContextPredictor: contexts that share a bucket share its counts.
EmptyHash == [counts |-> [b \in 0 .. TableSize - 1 |-> EmptyBag],
              contexts |-> [b \in 0 .. TableSize - 1 |-> {}],
              observations |-> 0, collisions |-> 0]
Bucket(context) == Mix(Recent(context, Depth)) % TableSize

\* Mutation of HashedLearns: every observation of a shared bucket is a collision.
HashedLearnsAlways(hash, values) ==
  LET context == Recent(Past(values, Horizon), Depth)
      b       == Bucket(context)
  IN  IF Len(values) <= Horizon THEN hash
      ELSE [counts       |-> [hash.counts EXCEPT ![b] = BG!BagAdd(@, Last(values))],
            contexts     |-> [hash.contexts EXCEPT ![b] = @ \cup {context}],
            observations |-> hash.observations + 1,
            collisions   |-> hash.collisions + (IF hash.contexts[b] # {} THEN 1 ELSE 0)]

HashedLearns(hash, values) ==
  LET context == Recent(Past(values, Horizon), Depth)
      b       == Bucket(context)
      known   == hash.contexts[b]
  IN  IF Len(values) <= Horizon THEN hash
      ELSE [counts       |-> [hash.counts EXCEPT ![b] = BG!BagAdd(@, Last(values))],
            contexts     |-> [hash.contexts EXCEPT ![b] = @ \cup {context}],
            observations |-> hash.observations + 1,
            collisions   |-> hash.collisions
                               + (IF known # {} /\ context \notin known THEN 1 ELSE 0)]

\* Counts are unbounded, and quantised against the largest of the bucket when
\* they are read; a half rounds to the even neighbour.
Rounded(n, d) ==
  LET twice == 2 * (n % d)
  IN  (n \div d) + (IF twice > d \/ (twice = d /\ (n \div d) % 2 = 1) THEN 1 ELSE 0)
Quantised(seen) ==
  [x \in DOMAIN seen |->
     Max({1, Rounded(seen[x] * Levels, Max({seen[y] : y \in DOMAIN seen}))})]
HashedForecast(hash, context) == Top(Quantised(hash.counts[Bucket(context)]), 1)

----------------------------------------------------------------------------
(* Deltas, in bounded tables.                                              *)

Deltas(values) == [i \in 1 .. Len(values) - 1 |-> values[i + 1] - values[i]]

\* The table after the keys, one after the other.
InsertedAll(table, keys, target) ==
  LET after[i \in 0 .. Len(keys)] ==
        IF i = 0 THEN table ELSE Inserted(after[i - 1], keys[i], target)
  IN  after[Len(keys)]

UpTo(n) == [i \in 1 .. n |-> i]

\* Mutation of DeltaLearns: the target is measured from the line before it.
DeltaLearnsStep(table, values, horizon, longest) ==
  LET past   == Past(values, horizon)
      deltas == Deltas(past)
      keys   == [n \in 1 .. Min({Depth, Len(deltas)}) |-> Recent(deltas, n)]
  IN  IF Len(values) < horizon + 2 THEN table
      ELSE InsertedAll(table, keys, Last(values) - values[Len(values) - 1])

\* DeltaContextPredictor.fit(): the deltas up to the past line, in every length
\* or in full depth only, each with the delta to its target.
DeltaLearns(table, values, horizon, longest) ==
  LET past    == Past(values, horizon)
      deltas  == Deltas(past)
      lengths == IF longest THEN (IF Depth <= Len(deltas) THEN <<Depth>> ELSE <<>>)
                 ELSE UpTo(Min({Depth, Len(deltas)}))
      keys    == [i \in 1 .. Len(lengths) |-> Recent(deltas, lengths[i])]
  IN  IF Len(values) < horizon + 2 THEN table
      ELSE InsertedAll(table, keys, Last(values) - Last(past))

\* AddressContextPredictor.fit(): the same, keyed by the lines themselves.
AddressLearns(table, values, horizon) ==
  LET past == Past(values, horizon)
      keys == [n \in 1 .. Min({Depth, Len(past)}) |-> Recent(past, n)]
  IN  IF Len(values) < horizon + 2 THEN table
      ELSE InsertedAll(table, keys, Last(values) - Last(past))

\* _predict_delta(): the counters of the longest known suffix of the deltas.
DeltasFound(table, context, longest) ==
  LET deltas  == Deltas(context)
      most    == Min({Depth, Len(deltas)})
      lengths == {n \in (IF longest THEN {most} ELSE 1 .. most) \ {0} :
                    Recent(deltas, n) \in DOMAIN table.counts}
  IN  IF Len(context) < 2 \/ lengths = {} THEN EmptyBag
      ELSE table.counts[Recent(deltas, Max(lengths))]

DeltaForecast(table, context, longest) ==
  {Last(context) + d : d \in Top(DeltasFound(table, context, longest), 1)}

----------------------------------------------------------------------------
(* Predicting further along one's own predictions.                         *)

\* predict_path(): Ahead(history) is the bag of what may come next, LineAfter(history,
\* x) the line x stands for; the path ends where nothing is known, or its
\* confidence falls below 1 / odds (odds = 0: never).
GreedyPath(Ahead(_), LineAfter(_, _), context, distance, odds) ==
  LET path[d \in 0 .. distance] ==
        IF d = 0 THEN [history |-> context, num |-> 1, den |-> 1, on |-> TRUE]
        ELSE LET seen == Ahead(path[d - 1].history)
                 best == CHOOSE x \in Top(seen, 1) : TRUE
                 num  == path[d - 1].num * seen[best]
                 den  == path[d - 1].den * Total(seen)
             IN  IF ~path[d - 1].on \/ seen = EmptyBag
                 THEN [path[d - 1] EXCEPT !.on = FALSE]
                 ELSE [history |-> Append(path[d - 1].history, LineAfter(path[d - 1].history, best)),
                       num |-> num, den |-> den, on |-> odds = 0 \/ num * odds >= den]
  IN  path[distance]

AtEndOf(path) == IF path.on THEN {Last(path.history)} ELSE {}

\* RecursiveWAM: one-step look-ups in the weighted trie.
RecursivePath(trie, context, distance) ==
  LET Ahead(history) == At(trie, Recent(history, MatchedDepth(trie, history, Depth, 1, FALSE)))
      LineAfter(history, x) == x
  IN  GreedyPath(Ahead, LineAfter, Recent(context, Depth), distance, 0)

\* SPPStylePredictor: full-depth deltas, given up below a confidence of 0.05.
SPPPath(table, context, distance) ==
  LET Ahead(history) == DeltasFound(table, history, TRUE)
      LineAfter(history, d) == Last(history) + d
  IN  GreedyPath(Ahead, LineAfter, context, distance, 20)

----------------------------------------------------------------------------
(* Strides.                                                                *)

NoStride == [stride |-> 0, confidence |-> 0]
StrideLearns(s, values) ==
  LET stride == Last(values) - values[Len(values) - 1]
  IN  IF Len(values) < 2 THEN s
      ELSE IF stride = s.stride THEN [s EXCEPT !.confidence = @ + 1]
      ELSE [stride |-> stride, confidence |-> 1]
StrideForecast(s, context, times) ==
  IF s.confidence >= 2 THEN {Last(context) + s.stride * times} ELSE {}
NextLineForecast(context) == {Last(context) + Horizon}

\* HybridPredictor: the hashed table if its best answer has half the weight,
\* else the stride (one stride ahead, whatever the horizon).
HybridForecast(hash, s, context) ==
  LET seen == Quantised(hash.counts[Bucket(context)])
      sure == {x \in Top(seen, 1) : 2 * seen[x] >= Total(seen)}
  IN  IF sure # {} THEN sure ELSE StrideForecast(s, context, 1)
================================================================================
