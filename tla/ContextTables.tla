----------------------------- MODULE ContextTables ------------------------------
(***************************************************************************)
(* The tables that the Python predictors learn from a trace: a table maps  *)
(* a context (a sequence of lines) to the bag of the lines that followed   *)
(* it.  A flat table keeps the contexts it was given; the weighted trie of *)
(* wam/trie.py is the table of its nodes, a node being the path to it.     *)
(*                                                                         *)
(* The frequency strategy is modelled: a weight is a count over the total  *)
(* of its node.                                                            *)
(***************************************************************************)
EXTENDS Integers, Sequences, SequencesExt

BG == INSTANCE BagsExt

\* values[-n:]
Recent(s, n) == IF Len(s) <= n THEN s ELSE SubSeq(s, Len(s) - n + 1, Len(s))

SuffixesOf(context) == {Recent(context, n) : n \in 1 .. Len(context)}

At(table, context) == IF context \in DOMAIN table THEN table[context] ELSE EmptyBag

\* counts.get(x, 0), and the sum of all counts: as many as there are pairs of a
\* successor and one of its occurrences.
Times(seen, x) == IF x \in DOMAIN seen THEN seen[x] ELSE 0

Total(seen) == Cardinality(UNION {{x} \X (1 .. seen[x]) : x \in DOMAIN seen})

\* The table after one more observation of next behind each of the contexts.
Counted(table, contexts, next) ==
  [c \in DOMAIN table \cup contexts |->
     IF c \in contexts THEN BG!BagAdd(At(table, c), next) ELSE table[c]]

\* The k best successors: the most frequent, ties to the lowest line.
Better(seen, x, y) == seen[x] > seen[y] \/ (seen[x] = seen[y] /\ x < y)
Top(seen, k) ==
  {x \in DOMAIN seen : Cardinality({y \in DOMAIN seen : Better(seen, y, x)}) < k}

----------------------------------------------------------------------------
(* WeightedTrie.                                                           *)

\* Mutation of TrieUpdate: only the longest suffix is stored.
TrieUpdateLongest(trie, context, next, depth) ==
  Counted(trie, {Recent(context, depth)}, next)

\* Every suffix of the bounded context counts next; the nodes on the way exist.
TrieUpdate(trie, context, next, depth) ==
  LET suffixes == SuffixesOf(Recent(context, depth))
      path     == UNION {Prefixes(s) \ {<<>>} : s \in suffixes}
  IN  Counted([n \in DOMAIN trie \cup path |-> At(trie, n)], suffixes, next)

\* Mutation of MatchedDepth: the shortest suffix that will do.
MatchedDepthShortest(trie, context, depth, least, exact) ==
  LET known == {n \in 1 .. Len(Recent(context, depth)) :
                  Total(At(trie, Recent(context, n))) >= least}
  IN  IF known = {} \/ exact THEN 0 ELSE Min(known)

\* match() and _find_node(): the longest suffix whose node has been observed
\* often enough, 0 if there is none; the whole context if exact.
MatchedDepth(trie, context, depth, least, exact) ==
  LET requested == Len(Recent(context, depth))
      known == {n \in (IF exact THEN {requested} ELSE 1 .. requested) \ {0} :
                  /\ At(trie, Recent(context, n)) # EmptyBag
                  /\ Total(At(trie, Recent(context, n))) >= least}
  IN  IF known = {} THEN 0 ELSE Max(known)

\* Mutation of Pruned: a node needs more than the requested observations.
PrunedMore(trie, least) ==
  IF least <= 1 THEN trie
  ELSE Restrict(trie, {n \in DOMAIN trie :
                         \A d \in 1 .. Len(n) : Total(At(trie, SubSeq(n, 1, d))) > least})

\* prune(): deleting a node deletes what is below it.
Pruned(trie, least) ==
  IF least <= 1 THEN trie
  ELSE Restrict(trie, {n \in DOMAIN trie :
                         \A d \in 1 .. Len(n) : Total(At(trie, SubSeq(n, 1, d))) >= least})

\* context_statistics(): the contexts of one depth, and how often they were seen.
ContextsOfDepth(trie, depth) ==
  {n \in DOMAIN trie : Len(n) = depth /\ trie[n] # EmptyBag}
SeenAtLeast(trie, depth, times) ==
  Cardinality({n \in ContextsOfDepth(trie, depth) : Total(trie[n]) >= times})
================================================================================
