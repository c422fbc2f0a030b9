-------------------------------- MODULE Learning --------------------------------
(***************************************************************************)
(* The Python experiments' use of their predictors: every predictor learns *)
(* the training part of a trace line by line, is then frozen, and its      *)
(* forecasts are compared with the evaluation part.  Beside them run the   *)
(* oracles that the reports measure them against.                          *)
(*                                                                         *)
(* A forecast at distance 1 is made before the line it is about arrives.   *)
(* A forecast at Horizon is made when a line of the evaluation has arrived *)
(* and is judged when the line Horizon further on does; forecasts whose    *)
(* target lies beyond the trace are not judged.                            *)
(***************************************************************************)
EXTENDS OfflineOracles

CONSTANTS
  Line,         \* cache lines
  Least,        \* minimum_observations of the pruned predictor
  MaxTrain,     \* bound on the training part
  MaxEval       \* bound on the evaluation part

ASSUME LearningAssumption ==
  /\ Line \subseteq Nat
  /\ {Least, MaxTrain, MaxEval} \subseteq Nat

\* _mix() masks its words: never negative.
ASSUME MixAssumption == \A context \in SeqOf(Line, Depth) : Mix(context) \in Nat

VARIABLES
  train,        \* the lines learnt from
  evaluation,   \* the lines evaluated on
  frozen,       \* training is over
  model,        \* what every predictor has learnt
  score,        \* of each predictor and oracle: forecasts judged, and right
  reuse,        \* simulate()'s counts of exact, fallback and unseen contexts
  dispute       \* disagreement(): how GMC-style and DirectWAM compare

vars == <<train, evaluation, frozen, model, score, reuse, dispute>>

Near == {"WAM", "Pruned", "Markov", "Markov-1", "ContextOracle", "FlatMetrics"}
Far  == {"DirectWAM", "DirectMarkov", "RecursiveWAM", "HashedContext", "GMC", "VLDP",
         "SPP", "Markov-N", "NextLine", "Stride", "Hybrid", "LongAccuracy", "HorizonOracle"}

Init ==
  /\ train = <<>>
  /\ evaluation = <<>>
  /\ frozen = FALSE
  /\ model = [trie |-> <<>>, pruned |-> <<>>, markov |-> <<>>, markov1 |-> <<>>,
              direct |-> <<>>, flat |-> <<>>, hash |-> EmptyHash, gmc |-> EmptyTable,
              vldp |-> EmptyTable, spp |-> EmptyTable, address |-> EmptyTable,
              stride |-> NoStride]
  /\ score = [p \in Near \cup Far |-> [asked |-> 0, right |-> 0]]
  /\ reuse = [exact |-> 0, fallback |-> 0, unseen |-> 0]
  /\ dispute = [same |-> 0, different |-> 0, only_gmc |-> 0, only_wam |-> 0,
                gmc_wins |-> 0, wam_wins |-> 0, both_wrong |-> 0]

\* One line of the training part.
Observe(line) ==
  LET values == Append(train, line)
  IN  /\ ~frozen /\ Len(train) < MaxTrain
      /\ train' = values
      /\ model' = [trie    |-> WAMLearns(model.trie, train, line),
                   pruned  |-> <<>>,
                   markov  |-> MarkovLearns(model.markov, train, line),
                   markov1 |-> LastTransitionLearns(model.markov1, train, line),
                   direct  |-> DirectLearns(model.direct, values),
                   flat    |-> FlatLearns(model.flat, values),
                   hash    |-> HashedLearns(model.hash, values),
                   gmc     |-> DeltaLearns(model.gmc, values, Horizon, FALSE),
                   vldp    |-> DeltaLearns(model.vldp, values, Horizon, TRUE),
                   spp     |-> DeltaLearns(model.spp, values, 1, TRUE),
                   address |-> AddressLearns(model.address, values, Horizon),
                   stride  |-> StrideLearns(model.stride, values)]
      /\ UNCHANGED <<evaluation, frozen, score, reuse, dispute>>

\* The end of fit(): a split leaves at least one line on each side.
Freeze ==
  /\ ~frozen /\ train # <<>>
  /\ frozen' = TRUE
  /\ model' = [model EXCEPT !.pruned = Pruned(model.trie, Least)]
  /\ UNCHANGED <<train, evaluation, score, reuse, dispute>>

----------------------------------------------------------------------------
(* Evaluation.                                                             *)

NearForecast(p, context) ==
  CASE p = "WAM"           -> WAMForecast(model.trie, context, Plain, 1)
    [] p = "Pruned"        -> WAMForecast(model.pruned, context, [Plain EXCEPT !.least = Least], 1)
    [] p = "Markov"        -> MarkovForecast(model.markov, context)
    [] p = "Markov-1"      -> Top(At(model.markov1, Recent(context, 1)), 1)
    [] p = "ContextOracle" -> Top(At(ContextOracleTable(train), Recent(context, Depth)), 1)
    [] p = "FlatMetrics"   -> Top(At(FlatMetricsTable(train), Recent(context, Depth)), 1)

\* context holds the lines up to the one that has just arrived, before all but it.
FarForecast(p, before, context) ==
  CASE p = "DirectWAM"     -> WAMForecast(model.direct, context, Plain, 1)
    [] p = "DirectMarkov"  -> FlatForecast(model.flat, context)
    [] p = "RecursiveWAM"  -> AtEndOf(RecursivePath(model.trie, context, Horizon))
    [] p = "HashedContext" -> HashedForecast(model.hash, context)
    [] p = "GMC"           -> DeltaForecast(model.gmc, context, FALSE)
    [] p = "VLDP"          -> DeltaForecast(model.vldp, context, TRUE)
    [] p = "SPP"           -> AtEndOf(SPPPath(model.spp, context, Horizon))
    [] p = "Markov-N"      -> DeltaForecast(model.address, context, FALSE)
    [] p = "NextLine"      -> NextLineForecast(context)
    [] p = "Stride"        -> StrideForecast(model.stride, context, Horizon)
    [] p = "Hybrid"        -> HybridForecast(model.hash, model.stride, context)
    [] p = "LongAccuracy"  -> Top(At(HorizonOracleTable(train), Recent(context, Depth)), 1)
    [] p = "HorizonOracle" -> Top(At(HorizonOracleTable(train), Recent(before, Depth)), 1)

Scored(old, forecast, line) ==
  [asked |-> old.asked + (IF forecast # {} THEN 1 ELSE 0),
   right |-> old.right + (IF line \in forecast THEN 1 ELSE 0)]

\* Mutation of Disputed: a predictor that is right wins.
DisputedLoose(old, gmc, wam, line) ==
  LET both == gmc # {} /\ wam # {}
      Tick(n, b) == n + (IF b THEN 1 ELSE 0)
  IN  [same       |-> Tick(old.same, both /\ gmc = wam),
       different  |-> Tick(old.different, both /\ gmc # wam),
       only_gmc   |-> Tick(old.only_gmc, ~both /\ gmc # {}),
       only_wam   |-> Tick(old.only_wam, ~both /\ wam # {}),
       wam_wins   |-> Tick(old.wam_wins, both /\ line \in wam),
       gmc_wins   |-> Tick(old.gmc_wins, both /\ line \in gmc),
       both_wrong |-> Tick(old.both_wrong, both /\ line \notin wam \cup gmc)]

\* disagreement(), whose counts of wrong forecasts include agreements.
Disputed(old, gmc, wam, line) ==
  LET both == gmc # {} /\ wam # {}
      Tick(n, b) == n + (IF b THEN 1 ELSE 0)
  IN  [same       |-> Tick(old.same, both /\ gmc = wam),
       different  |-> Tick(old.different, both /\ gmc # wam),
       only_gmc   |-> Tick(old.only_gmc, ~both /\ gmc # {}),
       only_wam   |-> Tick(old.only_wam, ~both /\ wam # {}),
       wam_wins   |-> Tick(old.wam_wins, both /\ line \in wam /\ line \notin gmc),
       gmc_wins   |-> Tick(old.gmc_wins, both /\ line \in gmc /\ line \notin wam),
       both_wrong |-> Tick(old.both_wrong, both /\ line \notin wam \cup gmc)]

\* One line of the evaluation: the forecasts about it are judged.  disagreement() keeps
\* context_depth lines, which are one delta fewer than the GMC-style table can use.
Demand(line) ==
  LET known   == train \o evaluation
      at      == Len(evaluation) + 1 - Horizon
      context == train \o SubSeq(evaluation, 1, at)
      before  == train \o SubSeq(evaluation, 1, at - 1)
      short   == Recent(before, Depth)
      matched == MatchedDepth(model.trie, known, Depth, 1, FALSE)
  IN  /\ frozen /\ Len(evaluation) < MaxEval
      /\ evaluation' = Append(evaluation, line)
      /\ score' = [p \in Near \cup Far |->
                     IF p \in Near THEN Scored(score[p], NearForecast(p, known), line)
                     ELSE IF at < 1 THEN score[p]
                     ELSE Scored(score[p], FarForecast(p, before, context), line)]
      /\ reuse' = [exact    |-> reuse.exact + (IF matched = Len(Recent(known, Depth)) THEN 1 ELSE 0),
                   fallback |-> reuse.fallback
                                  + (IF matched \in 1 .. Len(Recent(known, Depth)) - 1 THEN 1 ELSE 0),
                   unseen   |-> reuse.unseen + (IF matched = 0 THEN 1 ELSE 0)]
      /\ dispute' = IF at < 1 THEN dispute
                    ELSE Disputed(dispute, DeltaForecast(model.gmc, short, FALSE),
                                  WAMForecast(model.direct, short, Plain, 1), line)
      /\ UNCHANGED <<train, frozen, model>>

Next ==
  \/ \E line \in Line : Observe(line)
  \/ Freeze
  \/ \E line \in Line : Demand(line)

Spec == Init /\ [][Next]_vars

----------------------------------------------------------------------------
(* Properties.                                                             *)

\* Nothing is judged right that was not asked, nothing asked that was not
\* judged, and every evaluated line is reused, fallen back on or unseen.  Of the
\* comparison: each line is compared at most once, and only a disagreement has a
\* winner, which the rates of disagreement.csv take for granted.
ScoresAccounted ==
  LET far == Max({0, Len(evaluation) - Horizon})
  IN  /\ \A p \in Near : score[p].right <= score[p].asked /\ score[p].asked <= Len(evaluation)
      /\ \A p \in Far : score[p].right <= score[p].asked /\ score[p].asked <= far
      /\ reuse.exact + reuse.fallback + reuse.unseen = Len(evaluation)
      /\ dispute.same + dispute.different + dispute.only_gmc + dispute.only_wam <= far
      /\ dispute.gmc_wins + dispute.wam_wins <= dispute.different

\* How often x came h lines after the context c in the training part.
Occurrences(c, x, h) ==
  Cardinality({i \in Len(c) .. Len(train) - h :
                 SubSeq(train, i - Len(c) + 1, i) = c /\ train[i + h] = x})

\* What a table learnt line by line says of a context is what one pass over the
\* trace would count, at every context length: the weighted tries, the Markov
\* tables and the flat table of the horizon baseline.
CountsAreOccurrences ==
  LET Exact(table, contexts, h) ==
        \A c \in contexts, x \in Line : Times(At(table, c), x) = Occurrences(c, x, h)
      seen == UNION {SuffixesOf(Recent(SubSeq(train, 1, i), Depth)) : i \in 1 .. Len(train)}
  IN  /\ Exact(model.trie, seen \cup DOMAIN model.trie, 1)
      /\ Exact(model.direct, seen \cup DOMAIN model.direct, Horizon)
      /\ Exact(model.markov, seen \cup DOMAIN model.markov, 1)
      /\ Exact(model.markov1, {c \in seen : Len(c) = 1}, 1)
      /\ Exact(model.flat, {c \in seen : Len(c) = Depth}, Horizon)

\* prune() drops whole subtrees, yet the predictor that asks for at least as many
\* observations as the nodes kept had finds the same context as before: no node
\* worth an answer hangs below one that is dropped.
PruneInvisible ==
  frozen =>
    LET known == train \o evaluation
        Same(context) ==
          LET n == MatchedDepth(model.trie, context, Depth, Least, FALSE)
          IN  /\ MatchedDepth(model.pruned, context, Depth, Least, FALSE) = n
              /\ n > 0 => model.pruned[Recent(context, n)] = model.trie[Recent(context, n)]
    IN  \A i \in 1 .. Len(known) : Same(SubSeq(known, 1, i))

\* The reports set the predictors against context oracles counted in a pass of
\* their own.  Once the training part fills a context, the exact predictors and
\* their oracle agree on every forecast, the weighted trie is right at least as
\* often as the oracle, which answers exactly where simulate() counts an exact
\* context, and the trie's statistics are the oracle's.
OraclesAgree ==
  Len(train) >= Depth =>
    /\ score["Markov"] = score["ContextOracle"]
    /\ score["FlatMetrics"] = score["ContextOracle"]
    /\ score["DirectMarkov"] = score["LongAccuracy"]
    /\ score["WAM"].right >= score["ContextOracle"].right
    /\ score["WAM"].asked >= score["ContextOracle"].asked
    /\ reuse.exact = score["ContextOracle"].asked
    /\ Len(train) > Depth =>
         /\ UniqueContexts(train) = SeenAtLeast(model.trie, Depth, 1) + Depth - 1
         /\ LET table == ContextOracleTable(train)
            IN  SeenAtLeast(model.trie, Depth, 2)
                  = Cardinality({c \in DOMAIN table : Len(c) = Depth /\ Total(table[c]) >= 2})

\* The keys that a trace has at some lengths, how often a line at a distance of d
\* came h lines after one of them, and what a bounded table says of that.
KeysOf(s, lengths, h) ==
  UNION {{SubSeq(Deltas(s), i - n + 1, i) : n \in {m \in lengths : m <= i}} :
           i \in 1 .. Len(Deltas(s)) - h}
SeenOf(s, key, d, h) ==
  Cardinality({i \in Len(key) .. Len(Deltas(s)) - h :
                 SubSeq(Deltas(s), i - Len(key) + 1, i) = key /\ s[i + 1 + h] - s[i + 1] = d})
Reads(table, key, d) ==
  IF key \in DOMAIN table.counts
  THEN IF d \in DOMAIN table.counts[key] THEN table.counts[key][d] ELSE 0
  ELSE 0

SoundTable(table, lengths, h) ==
  LET keys == KeysOf(train, lengths, h)
      fits == Cardinality(keys) <= EntryLimit
  IN  /\ InStep(table)
      /\ \A key \in DOMAIN table.counts, d \in {x - y : x, y \in Line} :
           LET most == Min({CounterMax, SeenOf(train, key, d, h)})
           IN  Reads(table, key, d) <= most /\ (fits => Reads(table, key, d) = most)
      /\ fits => DOMAIN table.counts = keys

\* The bounded tables: the queue of keys and the dictionary never drift apart, a
\* full table replaces and does not grow, and no counter exceeds what was seen or
\* its width.  A table that never had to make room lost nothing.
DeltaTablesSound ==
  /\ SoundTable(model.gmc, 1 .. Depth, Horizon)
  /\ SoundTable(model.vldp, {Depth}, Horizon)
  /\ SoundTable(model.spp, {Depth}, 1)
  /\ InStep(model.address)

\* A bucket's counts are those of the contexts that share it, merged and not
\* lost, and the collisions reported are the contexts that found their bucket
\* taken by others.
HashedAccounts ==
  LET buckets  == 0 .. TableSize - 1
      contexts == UNION {model.hash.contexts[b] : b \in buckets}
      Merged(b, x) == UNION {{c} \X (1 .. Times(At(model.flat, c), x)) : c \in model.hash.contexts[b]}
  IN  /\ \A b \in buckets, x \in Line : Times(model.hash.counts[b], x) = Cardinality(Merged(b, x))
      /\ contexts = DOMAIN model.flat
      /\ model.hash.observations = Max({0, Len(train) - Horizon})
      /\ model.hash.collisions
           = Cardinality(contexts) - Cardinality({b \in buckets : model.hash.contexts[b] # {}})

\* The diagnostic's oracle is given the whole trace and a place to split it: its
\* table holds nothing of the evaluation part, it is the one that the predictor
\* learnt from the training part alone, and the contexts it calls reusable are
\* those for which that predictor has an answer.
ChronologicalCausal ==
  frozen /\ Len(train) >= Depth =>
    LET lines == train \o evaluation
        split == Len(train)
        table == ChronologicalTable(lines, split)
    IN  /\ table = Restrict(model.flat, {c \in DOMAIN model.flat : Len(c) = Depth})
        /\ Cardinality(Reusable(lines, split)) = score["DirectMarkov"].asked
        /\ \A c \in DOMAIN table : ContextCounts(lines)[c][TRUE] >= Total(table[c])

\* What the source says of two of them and the code does not do.

\* "Bounded flat raw-address context table for equal-budget Markov-N": Markov-N
\* has an answer when the table knows the lines it was just given.
MarkovKnowsItsKeys ==
  frozen /\ Len(train) >= 2 =>
    ((\E n \in 1 .. Depth : Recent(train, n) \in DOMAIN model.address.counts)
       => DeltaForecast(model.address, train, FALSE) # {})

\* "The current address is now part of the available history.  Direct, recursive,
\* and oracle predictions target index+h from this point": an oracle with the
\* counts of the direct Markov table is right where that table is.
OracleIsCeiling ==
  Len(train) >= Depth => score["HorizonOracle"].right >= score["DirectMarkov"].right
================================================================================
