# Weighted associative memory: a TLA+ verification development

This directory models the repository's prefetchers, simulators, predictors and
experiment programs in TLA+, checks the models with TLC on small instances, and proves
with TLAPS every property that is checked of the three prefetchers, for every table
size, horizon, hash and line set; every property that is checked of the two simulators,
for any hierarchy, costs, limits and predictor; and the safety of the evaluation matrix,
for any set of jobs. Paths below are relative to the repository root.

## 1. The system

The repository studies one idea: remember what *followed* a context of recent cache
lines, some fixed number of accesses (the horizon) later, and prefetch it when the
context comes back. It has a C++ half (modules for the ChampSim simulator) and a
Python half (a cycle-accounting simulator, predictors, and the scripts that run
experiments and report on them).

| Part | Source | State | Operations |
|---|---|---|---|
| DirectWAM-H16 | `champsim/prefetcher/wam_h16/` | direct-mapped table of (key, delta, age, confidence, valid), queue `pending_` of contexts waiting for their outcome, `history_`, counters | initialize, cache_operate, cache_fill, final_stats |
| its diagnostics | same file, `diagnostic_*` | event log, prediction log, queue of shadow predictions, counters per slot | reset, record, resolve, summary |
| SetAssociativeWAM | `champsim/prefetcher/set_associative_wam/` | the same front end, sets of ways, one round-robin pointer per set, a shadow direct-mapped table | same callbacks |
| HybridSPPWAM | `champsim/prefetcher/hybrid_spp_wam/` | a window (accesses, useful), the DirectWAM sidecar, SPP | same callbacks |
| Offline replay | `scripts/analyze_champsim_final_diagnostic.py` | a second copy of the direct-mapped table | `replay_table_state` |
| Memory hierarchy | `wam/hierarchy.py`, `wam/cache.py` | three LRU caches | access, insert_prefetch, contains, level_of |
| Trace simulator | `wam/simulator.py`, `wam/metrics.py` | outstanding prefetches, sets of prefetched, demanded and polluted lines, clock, metrics, a control hierarchy | one loop over a trace |
| Horizon simulator | `wam/horizon.py` | the same, plus look-up and update queues | one loop over a trace |
| Python predictors | `wam/predictor.py`, `wam/trie.py`, `wam/horizon.py`, `wam/real_predictors.py`, `wam/hardware.py` | counts of outcomes per context: trie, flat table, hashed buckets, bounded dictionary with its queue of keys | fit/observe, predict, prune |
| Oracles | `wam/diagnostics.py`, `wam/real_trace_evaluation.py`, `wam/horizon_analysis.py`, `wam/hybrid_analysis.py`, the analyzer | tables counted in one pass over the training part | count, compare |
| Evaluation matrix | `scripts/run_champsim_real_eval.py`, `run_champsim_final_diagnostic.py`, `run_set_associative_wam.py` | `run.json`, `stats.json`, events and logs of each job on disk | run, crash, resume, summarise |
| Experiment programs | `wam/benchmark.py`, `wam/experiment.py`, `wam/*_analysis.py`, `wam/hardware_feasibility.py`, `scripts/analyze_*`, `summarize_*` | the rows measured so far, the conclusion | divide a trace, simulate a row and its baseline, replay a selector, conclude |
| Traces and workloads | `wam/traces.py`, `wam/workloads.py` | none | read, generate |

How they interact. ChampSim calls one callback of a prefetcher at a time; the
prefetcher calls `prefetch_line` back and is told of fills and of demand hits on
prefetched lines. The hybrid owns a DirectWAM object and calls its callbacks for the
accesses its selector lets through. Diagnostics are written from inside the callbacks
and read back only by the Python replay. The Python simulator calls the hierarchy and
the predictor synchronously; time is a counter it advances itself. An experiment program
trains a predictor on the first part of a trace, freezes it, runs a simulator on the rest
once with it and once without, and writes a row; its report concludes from the rows. The
oracles are tables of their own that the reports set beside the predictors.

What is hard here. There are no threads in the prefetchers, so the difficulty is in
the *distance* between cause and effect: training belongs to an access that came
HORIZON calls earlier; a table entry is written by contexts that alias; the selector
removes accesses from the middle of the stream; a prefetch is issued, arrives late or
in time, evicts something, and is accounted for much later, possibly by the code after
the loop. Three separately written copies of the C++ table must agree, and so must the
predictors and the oracles that count the same trace in a pass of their own, each with its
own slice bounds. The only processes that run side by side and can be killed are those of
the evaluation matrix. The experiment programs have no state to lose, but they decide what
is compared with what: a selector that sees its own window, a baseline of another machine
or a threshold tested in the wrong order gives a wrong report that no test fails on.

`PROJECT.json` lists every component with its status and every hazard at its source
line, with the properties that watch it.

## 2. Modules

| Module | Models | Correspondence |
|---|---|---|
| `WAMContexts` | the entry, `train`'s confidence update, history; and the vocabulary of streams (`ContextAt`, `Evidence`, `Queued`) | `Learn` is the `if` ladder of `train()`; cache lines are block numbers, and `ContextHash` is any function from full histories to keys |
| `CausalPrefetcher` | abstract: what a delayed-training prefetcher promises | a prediction at an access needs CONFIDENCE_THRESHOLD earlier outcomes, all of which have already arrived |
| `WAMFrontEnd` | `prefetcher_cache_operate` up to the table, with shadow accounting and logs | one action per callback: `FrontAccess`, `PrefetchAccess` (the early return for type PREFETCH), `CacheFill`, `FinalStats`; the entry the look-up finds is the parameter `e` |
| `DirectWAM` | `wam_h16` | `Slot` and `Learn` compose to `train()`; `Access` is the whole callback |
| `TableReplay` | the analyzer's replay | a recursive function over the recorded lines, one `ReplayEvent` each, translated from the Python and not from the C++; `DirectWAM` and `SetAssocWAM` extend it for the properties that compare their tables with the replayed one |
| `SetAssocWAM`, `FifoTags` | `set_associative_wam`; abstract: each set is a FIFO of keys | `SelectedWay` is the choice in `slot()`, `TrainedPointer` is `next_way_`, `TrainedDirect` the shadow table |
| `HybridSPPWAM` | `hybrid_spp_wam`, composed with `DirectWAM` | `HybridAccess` counts, decides, and either leaves the sidecar alone or takes its `Access` step |
| `MemoryHierarchy` | LRU caches as sequences | `AfterAccess`, `AfterPrefetch` and what they evict |
| `PrefetchRequests` | the outstanding requests of both simulators | completion, what it evicts, and the predicates on places and counters that both promise |
| `Simulator` | `simulate()` | one loop iteration is `Demand` then `Prepare`; `Finish` is the code after the loop |
| `HorizonSimulator` | `simulate_horizon()` | one iteration is `Demand` (access and update) then `Lookup` (look-up queue and issue); `Finish` flushes the last update batch |
| `EvalMatrix` | the evaluation matrix | `script` is the program: real_eval or the diagnostic, whose summary also wants a record for every row of the manifest; `stage[j]` is the file `run_one()` writes next; `Start`, `Summarise` and `Abort` are `main()`; `Crash` is a kill |
| `ContextTables`, `BoundedTable` | the predictors' tables | a table maps a context to the bag of lines that followed; the trie is the table of its nodes, a node being the path to it. `BoundedTable` is `DeltaContextPredictor`'s dictionary and its queue of keys |
| `Predictors` | every predictor of `wam/` | `<Name>Learns` is the body of `fit()`/`observe()` for one line, `<Name>Forecast` is `predict()` |
| `OfflineOracles` | the oracles | one pass over the training part, as each program writes it |
| `Learning` | an evaluation: train, freeze, compare | `Observe` is a training line, learnt by all predictors; `Freeze`; `Demand` is an evaluated line and judges the forecasts that fall due |
| `Splits`, `Sweeps`, `HybridStudy`, `Verdicts` | the experiment programs | how a trace is divided; the configurations of each row and of its baseline; the windows, selectors and report of `hybrid_analysis`; each program's conclusion |
| `Study` | the four together | one program runs: it measures windows, divides traces, lists rows, or concludes, and concludes again when its tables improve |
| `*Proofs` | proofs about the module named; `WAMFrontEndProofs` holds the lemmas of the shared front end and of the replay, `StorageProofs` those of the hierarchy and the requests, `HybridSPPWAMProofs` the theorems of `DirectWAM` too, `EvaluationProofs` those of `EvalMatrix` and `Study` | section 5 |
| `MC*` | small instances | constants, symmetry, and the properties that compare two modules |

Ghost state. `events` and `log` are the diagnostics' own records (kept as sequences and
sets instead of files). `seen` in the hybrid records each demand access and what the
selector decided. The simulator's `control` is the code's baseline replay advanced in
step; the code runs it beforehand, on the same trace.

Abstractions. Hashes are constant functions, so that any pattern of aliasing can be
given. `prefetch_line` may accept or refuse. The predictor of the simulator is
arbitrary: any list of at most TOP_K distinct lines, so the results hold for every
predictor of the repository. Histograms, cycle stamps, support counts, latency
distributions and printed text are left out: nothing reads them back. Counters that
the properties do not mention and no guard reads are left out too.

In the Python half weights are counts (the frequency strategy; the EMA strategy is not
modelled), the hash of `HashedContextPredictor` is any function `Mix`, and equal counts go
to the lowest line in every table, also where the code's `most_common` lets the one seen
first win. A forecast is the set of lines predicted, empty where the code returns nothing.
Speedups are compared as products of cycle ratios, percentages stand for fractions, and
entropies are inputs, since nothing the properties say depends on how they are computed.

Operators whose comment starts with "Mutation of" are not part of any specification.
Each is a plausible bug in the definition that follows it; substituting it breaks the
property `PROJECT.json` names beside it, which shows the property depends on the code.

## 3. What the runs check

| Run | Result | Shows |
|---|---|---|
| `direct` | holds, 44 958 states | The queue is aligned with the stream (`PendingAligned`); confidence is at most the number of supporting outcomes under aliasing and slot stealing (`ConfidenceSupported`); a slot belongs to its last trainer whatever its confidence (`LastTrainedOwnsSlot`); each generated prediction is compared with exactly one access (`ShadowExact`); the Python replay rebuilds the live table, its counters, queue and history after every access (`ReplayMatches`); the prefetcher implements `CausalPrefetcher` |
| `set_assoc` | holds, 8 298 states | At most one way holds a key (`LookupUnambiguous`); replaced confidence is lost (`ConfidenceSupported`); the shadow is the table DirectWAM would have (`DirectShadowFaithful`); ways and pointer implement `FifoTags` |
| `hybrid` | holds, 50 168 states | The window equals a recount from the accesses (`SelectorExact`); the sidecar's stream is the enabled accesses in order (`SidecarStream`); it is shown at least MINIMUM of any WINDOW accesses (`SidecarNeverStarves`) |
| `simulator` | holds, 396 561 states | Lines are where the bookkeeping says (`LinesPlaced`); each prefetch has one fate, polluting misses are distinct earlier evictions, and without completed prefetches the caches are the control's (`CountersAccounted`); a demand that waits is served by what it waited for (`WaitingPays`) |
| `horizon` | holds, 296 557 states | The same placement and accounting for the second simulator; every DRAM access is one unhidden miss (`MissesClassified`); every cycle of the clock is recorded in a metric except update stalls (`ClockAttributed`) |
| `eval_matrix` | holds, 507 590 states | For both scripts: a "completed" summary was true when written (`SummaryTrue`); resuming leaves completed runs alone (`ResumeKeepsCompleted`); a record vouches for the logs beside it (`RecordVouches`); every invocation ends (`InvocationEnds`) |
| `learning` | holds, 44 773 states | Tables learnt line by line are the counts of one pass over the trace (`CountsAreOccurrences`); pruning hides no answer (`PruneInvisible`); exact predictors and their oracles agree (`OraclesAgree`); the bounded tables keep queue and dictionary in step and lose nothing before they are full (`DeltaTablesSound`); buckets merge and lose nothing (`HashedAccounts`); the diagnostic's oracle holds nothing of the evaluation part (`ChronologicalCausal`); scores and disagreements balance (`ScoresAccounted`) |
| `study` | holds, 153 891 states | No evaluation sees its own future: divisions, windows and selectors (`NoLookahead`); a baseline is the same machine and pays for no prediction (`BaselineFair`); of the seven programs that conclude something, better measurements turn going on into stopping at two thresholds and nowhere else (`VerdictsCoherent`, section 6) |
| `direct_evictions`, `markov_keys`, `oracle_alignment`, `pipelined_drops` | violated | What a comment, document or report of the repository says and the code does not do: section 6 |

All runs disable TLC's deadlock check: a program here really ends (`final_stats`, the
end of the trace), and a bound on the length of the run stops the rest.

### Bounds, and why they are enough

* `direct`: two lines, contexts of two lines, horizon 2, three keys in two buckets,
  saturation at 3, threshold 2, at most 13 accesses. The four contexts hash to three
  keys, so two contexts share a key and two keys share a bucket. Thirteen accesses are
  enough for an entry to saturate, decay to zero, be replaced and be learnt again, each
  of which needs HORIZON accesses more than the outcomes it is about. A displacement of
  -1 from line 1 gives the target 0 that the code refuses. The proofs cover every other
  size.
* `set_assoc`: two sets of two ways and four keys, three in one set, so the pointer
  turns more than once; horizon 1 shortens the way to a full set; 10 accesses.
* `hybrid`: windows of 4 with a minimum of 2 and a rate of 1/3, 8 accesses: two whole
  windows, in which the selector abstains, recovers and abstains again. SPP's fills are
  unlimited in kind and at most 2 in number.
* `simulator`, `horizon`: capacities 1, 2 and 2, so every level evicts; a DRAM latency
  that lets a prefetch be late or in time; two outstanding requests (one in `horizon`,
  whose destination is the one-line L1, so that requests are dropped); 5 accesses. Lines
  are only compared, so permuting them is a sound symmetry. `horizon` starts in every
  combination of synchronous or deferred updates, serial or parallel look-ups, and a
  queue deep enough or not; intervals are long enough for updates and look-ups to wait.
* `eval_matrix`: two jobs, one or two workers per invocation, two invocations. Every
  pair of stages at which two jobs can be when the script is killed occurs, followed by
  a resumed or a fresh invocation, of either script.
* `learning`: three lines, contexts of at most two, horizon 2; bounded tables of three keys
  with counters to 2, so that training parts of six lines make room and saturate; two
  buckets for at least four contexts, so buckets are shared; evaluations of three lines,
  so one forecast at the horizon falls due. Every training part of up to six lines over
  the three is enumerated.
* `study`: windows of one, two and three accesses stand for those of a thousand to fifty
  thousand; traces too short to split, one window long, long enough to be sampled, and
  two together; outcomes in which either predictor wins, loses or ties, of each sign
  for each window size; evidence on both sides of every threshold of every report.
  At most two primary windows keep the products of the geometric means within TLC's
  integers. More than two wins of
  DirectWAM-H16, and with them class E of `summarize_champsim_real_eval`, need three traces:
  they are not reached here, and the theorem covers them.

A run is a finite prefix of an unbounded behaviour; `MaxEvents`, `MaxSeen`, `MaxFills`,
`MaxAccesses`, `MaxLength`, `MaxInvocations`, `MaxTrain` and `MaxEval` are the only
artificial bounds, and each appears in one guard.

### Preconditions worth knowing

`WaitingPays` is checked, and proved, for a destination at least as large as the
outstanding limit, as in every experiment of the repository (32 lines or more, 16 requests
or fewer): that is the hypothesis of `WaitingServes`, and it is needed. With more
outstanding requests than lines, requests that complete together can evict each other
before the demand that waits for one of them. The other theorems about the simulators do
not have it.

`OraclesAgree` needs a training part at least as long as a context: the programs' traces
have thousands of lines, and on shorter ones the trie answers from contexts that the
oracle does not count.

`RecordVouches` speaks of records written since the matrix was last started without
`--resume`: a fresh start that is killed leaves old records beside new files. The manifest
does not change between invocations.

## 4. Fairness and liveness

The prefetchers and simulators are driven from outside, one callback or access at a
time, and nothing obliges the driver to go on; their models assume no fairness and state
no liveness. What must not stop is stated as safety instead: `SidecarNeverStarves` bounds
how long the selector can keep the sidecar from training.

`EvalMatrix` assumes weak fairness of the workers and of `main()` together: the pool's
threads are scheduled, ChampSim ends on a finite trace, and a thread that can write does.
Nothing is assumed of failing writes, of kills or of the operator. Under it every
invocation ends (`InvocationEnds`). What fairness has to be added to is proved:
`InvocationsWindDown` (no invocation takes more than a bounded number of steps) and
`InvocationsGoOn` (until it has ended, one of them can be taken).

## 5. What is proved

The theorems hold for every value of the constants that satisfies the named assumptions of
the modules: lines are natural numbers, the sizes are positive, `ContextHash` maps full
histories to keys, `BucketOf` and `SetOf` map keys to buckets and sets
(`BucketAssumption`, `TableAssumption`), a window is at least its minimum
(`SelectorAssumption`), a context's hash is a natural number
(`MixAssumption`, `_mix()` masks its words), every cache has room for a line and every level a latency
(`HierarchyAssumption`), the destination is a level (`RequestsAssumption`), costs are
natural numbers and intervals positive (`SimulatorAssumption`, `HorizonAssumption`), the
jobs are a finite set. For the experiment programs (`StudyAssumption`) the window sizes increase
and each is sampled at least twice, as in the tuple and the constant of `hybrid_analysis.py`,
trace lengths and granularities are natural numbers, and the evidence of a conclusion
has the fields its program reads, over integers, with finitely many traces. Nothing is
assumed about collisions, about the predictor that the
simulators are given, or about how requests, ports and batches are sized.

| Module | Theorem | Says |
|---|---|---|
| `HybridSPPWAMProofs`, of `DirectWAM` | `TypeCorrect` | `[]TypeOK`: confidence stays within 0..CONFIDENCE_MAX |
| | `QueueAligned` | `[]PendingAligned`: the queue holds exactly the contexts of the most recent accesses, and the leakage guard never counts |
| | `ConfidenceIsEvidence` | `[]ConfidenceSupported` |
| | `LastTrainedOwns` | `[]LastTrainedOwnsSlot` |
| | `ShadowCountsExact` | `[]ShadowExact`: each shadow prediction is compared with its own access, once |
| | `ReplayRebuilds` | `[]ReplayMatches`: the replay of the log is the running table, queue and history |
| | `DirectIsCausal` | `Spec => ImplementsCausal`: the prefetcher implements `CausalPrefetcher` |
| `HybridSPPWAMProofs`, of the hybrid | `HybridTypeCorrect` | `[]HybridTypeOK` |
| | `SidecarKeepsItsWord` | `[](PendingAligned /\ ConfidenceSupported)` of the sidecar, whatever the selector skips |
| | `SidecarShadowExact` | `[]ShadowExact` of the sidecar |
| | `SelectorRecounted` | `[]SelectorExact`: the window is a recount of the stream since its boundary, and each decision follows from it |
| | `SidecarSeesEnabled` | `[]SidecarStream`: the sidecar's stream is the enabled accesses in order |
| | `HybridIsCausal` | `HybridSpec => ImplementsCausal` |
| | `SidecarIsFed` | `[]SidecarNeverStarves` |
| `SetAssocWAMProofs` | `TypeCorrect`, `QueueAligned`, `ShadowCountsExact` | `[]TypeOK`, `[]PendingAligned`, `[]ShadowExact` |
| | `KeysAreUnique` | `[]LookupUnambiguous`: a key is in one way of its own set at most |
| | `ConfidenceIsEvidence` | `[]ConfidenceSupported` |
| | `WaysAreFifo` | `Spec => ImplementsFifo`: ways and pointer implement `FifoTags` |
| | `ShadowIsDirect` | `[]DirectShadowFaithful`: the shadow is the table a replay rebuilds |
| | `SetAssociativeIsCausal` | `Spec => ImplementsCausal` |
| `SimulatorProofs` | `TypeCorrect` | `[]TypeOK` |
| | `EveryLinePlaced` | `[]LinesPlaced`: lines are where the bookkeeping says |
| | `EveryCounterAccounted` | `[]CountersAccounted`: requests, prefetches and polluting misses have one fate each, and the control agrees where nothing was prefetched |
| | `WaitingServes` | `Spec => WaitingPays`, if the destination has room for the requests |
| `HorizonSimulatorProofs` | `TypeCorrect`, `EveryLinePlaced`, `EveryCounterAccounted` | the same of the second simulator |
| | `EveryMissClassified` | `[]MissesClassified` |
| | `EveryCycleAttributed` | `[]ClockAttributed` |
| `EvaluationProofs`, of the matrix | `TypeCorrect`, `RecordsVouch` | `[]TypeOK`, `[]RecordVouches` |
| | `ResumeKeeps` | `Spec => ResumeKeepsCompleted` |
| | `SummariesTrue` | `Spec => SummaryTrue` |
| | `InvocationsWindDown` | each step of an invocation that does not end it lowers `StepsLeft`, a natural number |
| | `InvocationsGoOn` | while an invocation runs, a worker or `main()` has a step to take |
| `EvaluationProofs`, of the programs | `BaselinesAreFair` | `[]BaselineFair`: a row and its baseline differ in the predictor only, in every sweep |
| | `NothingSeesItsFuture` | `[]NoLookahead`: windows follow their training and do not meet, selectors choose from earlier windows, divisions evaluate what they did not train on |
| | `TwoReversals` | `StudySpec => VerdictsCoherent`: when its measurements improve a conclusion goes from continuing to stopping exactly where one of two thresholds is crossed |
| `LearningProofs` | `EveryScoreAccounted` | `[]ScoresAccounted`: forecasts asked, right, reused and disputed balance |
| | `EveryCountIsOccurrences` | `[]CountsAreOccurrences`: what a table learnt line by line says is what one pass over the trace counts |
| | `EveryBucketAccounted` | `[]HashedAccounts`: a bucket holds what its contexts hold together |
| | `EveryDeltaTableSound` | `[]DeltaTablesSound`: a bounded table never says more than the trace, and all of it while the keys fit |
| | `PruningIsInvisible` | `[]PruneInvisible`: the pruned trie gives the answers of the whole one |
| | `OraclesAlwaysAgree` | `[]OraclesAgree`: one-pass oracles and exact predictors make the same forecasts |
| | `ChronologicalAlwaysCausal` | `[]ChronologicalCausal`: the diagnostic's oracle is the table of the training part |
| | `InsertedInStep` | one `fit()` keeps the dictionary and the queue of keys in step |

**The front end.** `PendingAligned` alone is not inductive, since the key that is pushed is
computed from `history`: `FrontInv` adds `HistoryAligned` (the history is the last lines
of the stream) and the types. From it, the context that is trained is the one of the
access HORIZON before the current one (`Queued` at its head), so training adds exactly
one position to `Outcomes`, and `Evidence` of a pair grows by that position or stays. The
lemmas of `WAMFrontEndProofs` state this once, for any table: an entry `Backed` by the
stream stays so when it is trained, and an access that looks up any backed entry takes a
step of `CausalPrefetcher` or stutters (`AccessImplements`). The three prefetchers only
show that the entries they keep are backed.

**Shadow predictions.** The inductive form of `ShadowExact` is that the shadow queue is the
set of generated predictions that have not come due, in the order they fall due
(`Awaited`). The due accesses are all different, since a prediction is made once per
access, so at most the head of the queue falls due at the next access (`AwaitedNext`), the
loop of `diagnostic_resolve_shadow` pops it or nothing, and both counters grow by what is
due then. The loop pops what is due by now and counts what is due exactly now; the proof
shows that nothing is popped uncounted.

**The replay.** `Replay` of a log that grew by an access is one `ReplayEvent` on the replay of
the log before (`ReplayGrows`, from the existence of the recursive function), so the proof
compares one step of the Python with one of the C++. They are not the same text: slot(),
train() and the diagnostics share out what the Python does in one function. They agree
because a valid entry's age is MAX_AGE whenever either looks (so neither ever evicts), and
because an entry that was never trained was never reused. The same fact makes the missing
reset in SetAssociativeWAM's shadow table invisible, and `ShadowIsDirect` follows from the
same lemmas.

**The tables.** `ConfidenceSupported` alone is not inductive: `slot()` may hand out a
resident entry that is not valid, whose fields would be unconstrained, so DirectWAM's
`TableInv` adds that such an entry holds no confidence (`Blank`). With `LastTrainedOwnsSlot` the age of a resident
entry is known never to matter. The set-associative table asks for validity at every look-up,
and its invariant is `LookupUnambiguous` with `ConfidenceSupported`: an entry sits in the
set of its key and two ways with the same key are the same way, since a training either
finds its key or installs it where no other way holds it. The least of several ways
exists because the naturals are well founded. For `WaysAreFifo` a set fills its ways from
the first on, with the pointer at the first until it is full (`Filled`), and the keys
read from the pointer round the set are those of the queue; a replacement then drops the
queue's head and joins its end (`WrapIs`).

**The selector.** The sidecar's steps are DirectWAM's own, so its invariants carry over to
`HybridSpec`; accesses that the selector keeps to itself leave it alone. For
`SidecarNeverStarves` the inductive invariant is `WindowKept`: the first MINIMUM accesses
of the open window and of the one before were the sidecar's. Any WINDOW consecutive
accesses contain the rest of one such prefix and the beginning of the next.
`SelectorExact` recounts from the last boundary, whose position is the length of the
stream rounded down to a multiple of WINDOW: `NextRemainder` says how the rest moves, and
SPP's usefulness notifications are counted between the same two accesses on both sides.
`SidecarStream` is a filter of the whole stream, so the proof is that the filter of a
longer stream is the filter, and then perhaps its last access.

**The simulators.** `LinesPlaced` and `CountersAccounted` speak of what is seen between two
iterations; one iteration completes, evicts, serves, pollutes and proposes many times. The
proofs put the simulator's state in one record and show for each small operation (one
completion, the demand's insertion, one eviction, one proposal) that it keeps `Where`,
which says where each line is, and `Counts`, which balances each counter with the sets and
the queue while the loop runs. The code does these operations over a sequence, in the
model a recursive function over positions; `UpTo` of `StorageProofs` gives the values of such
a function and the induction over its positions, from well-founded induction on the
naturals, which has no operator as a parameter. The invariant over the steps (`IInv`) is
then types, `Where`, `Counts`, and for the horizon simulator `Classes` (misses by cause) and
`Clock` (cycles by cause). `Finish` closes the accounts: what was prefetched and never
demanded is unused, and `Counts` becomes the two balances of the report.

`WaitingServes` rests on a distance: a line that has completed is at the destination, and at
most as far from its recent end as requests have completed after it. Those are fewer than
the outstanding requests, so fewer than the capacity that is its hypothesis, and the line
has not been evicted when the demand that waited for it is served.

**The matrix.** `JobInv` ties each job's stage to the files it has written: while a job is
at work its old record belongs to an earlier invocation, and a job that is idle while the
script runs has a completed record. `CampaignInv` orders the last fresh start and the
current invocation. `SummaryTrue` follows although real_eval's test does not count the records.
`StepsLeft` is the sum over the jobs of the steps `run_one()` still has to make for each
(`StepsAfter`), and the step of `main()`; whatever a step does, failing included, it moves one
job forward and no other back (`JobAdvances`, `SumFalls`). `CanGoOn` writes out what
the guards ask: some job is at work, or the first of the queue has a free worker, or the
pool is drained; a queue that is not empty has a first job because the naturals are well
founded. `InvocationEnds` itself, which needs fairness, stays with TLC.

**The scores.** `ScoreInv` adds the types, and that nothing has been evaluated before
`freeze()`. A forecast at the horizon is judged when Horizon further lines have arrived
(`Judged`); the two forecasts that `disagreement()` compares are one question, so its
classes exclude each other (`DisputedIs`).

**The tables and the trace.** `TablesTold` says of each table what `CountsAreOccurrences`
does, for every context of its lengths and not only for those seen: otherwise a context
that appears for the first time would start from an unknown count. Two recurrences meet:
`BagAdd()` adds one to one counter (`CountedIs`), and one more line adds one occurrence
behind the contexts that ended h lines before it (`CountsNext`). A predictor is then right
if the contexts it counts are those contexts; for the trie they are the suffixes of the
recent lines (`SuffixesAre`), and the nodes made on the way hold nothing (`TrieUpdateIs`).

**The hashed table.** What a bucket counts is the cardinality of a set of pairs, a context
and one of its occurrences in the flat table; an observation adds one pair (`PairsGrow`) or
none. `HashInv` adds that a context is filed under its own bucket only, so that no other
bucket's pairs grow, and that the flat table counts the contexts of the buckets and no
others. The collisions are the contexts less the buckets that are taken.

**The bounded tables.** `InsertedInStep` is one insertion. `DeltaInv` says of each table
(`SoundFor`) what `DeltaTablesSound` does, for all keys and not only those in the
dictionary: a key that was evicted counts as zero, which is at most what the trace holds,
and if all keys of the trace fit then none was evicted, because the dictionary has never
held more than the keys of the trace. `InsertedAll` is a recursive function over the keys of one
position; `Climb` is the induction over it, from well-founded induction on the naturals. The
keys of one `fit()` differ in length, so each counter moves at most once (`InsertedAllBecomes`),
by the same saturating step as the trace's own count (`SeenNext`, `CappedIs`).

**Pruning.** `PruneInvisible` is about totals, so `BagsTold` adds to `TablesTold` that the
total of a node is the number of positions at which its context ends with a line to follow
(`Ways`). Wherever a context ends, each of its prefixes ended a little earlier, so a
prefix has been observed at least as often (`PrefixWays`): a node that is worth an answer has
no node above it that is dropped (`PrunedKeeps`), and the longest match is the same node in
both tries.

**Oracles.** A bag with the right counts, none of them zero, is the bag of the occurrences
(`BagIs`, `BagOf`). A table counted in one pass holds that bag at every context of full depth
(`FollowingIs`), and so do the trie, the Markov table and the flat table, so their forecasts
are the same set. A nonempty bag has a best line (`TopAnswers`), so a forecast is made exactly
where the context has occurred. `OracleInv` carries the agreement of the scores along; the
hypothesis `Len(train) >= Depth` makes every recent context full. The oracle's remaining
contexts are the Depth - 1 beginnings of the trace (`UniqueIs`). For `ChronologicalCausal`
the trace with its evaluation part begins with the training part (`Begins`), and the
positions the pass counts lie inside it; `ChronologicalInv` counts the evaluated positions
whose context has an answer (`AskedNext`: one line more, at most one position more).

**The experiment programs.** What runs before a program starts is nothing (`Idle`), and each kind
of program has an invariant of its own. `SweepInv` has one case per sweep: the rows are
enumerated, and both configurations of each are compared (`RowIsFair`, `EvaluateFair`).
`HybridInv` says that the plan is a sequence of windows behind the training of their workload
(`Trained`), any two of one size apart (`Ordered`), and that the rows measured carry the features
the training gave (`OfFeatures`). Starts of one size are multiples of it, the first,
middle and last at least (`StartsAre`, which is where two samples per size are needed: with
one, all three would still be taken and could coincide); what is kept or
concatenated stays in order (`KeptIs`, `FlattenIs`). For the selectors, a row is replaced by what another
outcome of its window would have given: the rows before it are the same, so the
choices of every selector but the window oracle are (`ChoicesBlind`). `DivideInv` is the
arithmetic of the slice bounds.

`VerdictsCoherent` needs only that the conclusion kept is the one its evidence gives
(`VerdictInv`); the rest is one lemma per program (`HorizonContinues`,
`HardwareContinues`, ...), each through the thresholds in the order the code tests them.
`Better` lets rise what the mechanism did (its speedups, wins, accuracy, coverage, the IPC
of DirectWAM-H16 and of the hybrid) and freezes what it is set against. Five chains are
monotone in it. Two are not: `Overturns` names the one threshold of each, and
`DiagnosticsContinue` and `RealEvalContinues` show that a better result stops what went on
if and only if it crosses it. Counts and geometric means range over any finite set of
traces: `FoldInduction` is induction over such a set, the wins of DirectWAM-H16 only grow,
`SumRises` and `ProductRises` follow from it, and `GmeanRises` says that a geometric mean
does not cross a threshold downwards when no factor falls. The results compared are of the
same completed runs; a campaign that adds a trace is not in scope.

Only model-checked: `InvocationEnds`, since liveness is out of this prover's reach, and the four
statements of section 6 that TLC finds violated. Every safety and action property of the
passing runs is a theorem, and `WaitingPays` one under the hypothesis the table names.

## 6. Where the code and its documents differ

Each is a run in which TLC finds the documented statement violated; `PROJECT.json` quotes
both sides.

* `direct_evictions`: an entry is replaced in the last branch of `train()`, which counts
  nothing. `slot()` counts evictions only when `age == 0`, and no path leaves an age of 0
  behind, so the reported evictions are always 0.
* `markov_keys`: `Markov-N` stores runs of addresses and is asked about runs of deltas.
* `oracle_alignment`: two oracles end their context one access before the predictors they
  are a ceiling for, and judge it one access too late.
* `pipelined_drops`: the pipelined trie of the architecture sweep always has more look-ups
  in flight than its queue holds, and issues nothing.

Met while modelling, and left as notes because the documents leave room or the property
would restate a line:

* `hybrid_spp_wam.cc:40`: the sidecar's horizon counts the accesses the selector let
  through; `champsim/README.md:31` speaks of L2 accesses. The header's "only when recent
  primary usefulness is weak" leaves out the first MINIMUM - 1 accesses of every window
  and the one that closes it; `SelectorExact` states which accesses the sidecar sees.
* `simulator.py:67,201-203`: a prefetched line evicted unused is counted as unused but not
  charged; `simulator.py:180` counts ordinary replacements as evictions caused by
  prefetching (`README.md:103`); `horizon.py:419` counts a pollution miss on a demand that
  hits L1, where `simulator.py:181` asks for DRAM.
* `set_associative_wam.cc:133`: the diagnostic's slot reuses are counted twice per hit and
  cleared whenever the way is trained.
* `run_champsim_final_diagnostic.py:122`: the summary's count of completed runs includes
  failed ones. `summarize_champsim_real_eval.py:241,254`: an incomplete matrix is class F
  and CONDITIONAL at once; with no WAM win at all the class is D or the "strong" F and
  CONDITIONAL, with one win it is C and `MOVE_TO_RTL = NO` (lines 246 and 254).
* `diagnostics.py:263,291`: depth-4 accuracy above 90% turns "promising" (E) into
  "prefetch execution problem" (C), and the answer to "Continue?" from Yes to "only as a
  targeted diagnostic". These are the two reversals `VerdictsCoherent` names.
* `hybrid_analysis.py:220,250`: `disagreement()` cuts its context to the trained depth, in
  lines, so the delta table is asked with one delta fewer than where it is scored; the model
  keeps both.
* `hybrid_analysis.py`: the report compares a geometric mean over workloads with one over
  windows; `StaticPerWorkloadOracle` is called a ceiling and chooses from the total
  cycles of the windows before; the `per_access` granularity charges the fewest look-ups
  and is called conservative; in class B the printed verdict can be YES where the report says NO; a window starts with
  the end of the training part as its context; `prior[-3:]` never drops anything.
* `hardware_feasibility.py`: class A is the fallback even if a realistic model wins, and
  class F cannot be reached, since the pipelined model drops everything; the storage row
  "Stride" is DirectWAM's.
* `analyze_set_associative_wam.py`: the answer to question 16 is the constant "No".

## 7. Plan

Done: the C++ prefetchers with their diagnostics and replay, the hierarchy, both
simulators, the evaluation matrix under its three scripts, the predictors and oracles,
the experiment programs' divisions, sweeps, selectors and verdicts; the proofs of section
5, which leave no safety property of a passing run without a theorem. What would come next is
the EMA strategy of `wam/trie.py`, with rationals for weights.

## 8. Not modelled

* The internals of ChampSim and SPP are not in the repository: they appear as callbacks,
  as fills and usefulness notifications, and as a program that may fail.
* The simulators take an arbitrary predictor, so their results do not depend on which of
  `Predictors` is plugged in. `enable_prefetch=False` is a predictor that proposes nothing,
  as far as the caches and the prefetch accounting go.
* Of the predictors: the EMA strategy, the result cache, storage and energy estimates, and
  observing without training. The hybrid of two takes its stride fallback one stride ahead.
* Of the experiment programs: reading and generating traces, workload statistics, entropy
  values, parsing of ChampSim's output, CSV, plots and prose, downloads and builds: batch
  programs with no state between steps, about which there is nothing to interleave.
* Widths: `age`, `confidence` and the counters are `uint8_t`, `uint16_t` and `uint64_t`.
  `TypeOK` bounds the first two; the 64-bit counters would need more accesses than a
  simulation has to overflow.
* Killing the evaluation matrix is assumed to kill the ChampSim processes it started,
  and two instances are not run on one output directory.

## 9. Running it

    tlc -config MCDirectWAM.cfg MCDirectWAM.tla      # any run of PROJECT.json
    tlapm HybridSPPWAMProofs.tla                      # and the other *Proofs modules
