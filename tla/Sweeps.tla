--------------------------------- MODULE Sweeps ---------------------------------
(***************************************************************************)
(* The configurations that the experiment programs simulate.  Every row of *)
(* a result table comes from two runs on the same evaluation lines, one    *)
(* with a predictor and one, the baseline, without prefetching; a row here *)
(* is the pair of configurations.  Percentages stand for fractions.        *)
(***************************************************************************)
EXTENDS Integers, Sequences

Own == -1    \* None: the cost is the predictor's own lookup_cost or update_cost

Default ==
  [dram |-> 150, l1 |-> 64, gap |-> 0, outstanding |-> 8, top_k |-> 3, destination |-> 1,
   lookup |-> Own, interval |-> 1, overlap |-> 0, parallel |-> FALSE, update |-> Own,
   deferred |-> FALSE, batch |-> 1, queue |-> 16, reads |-> 1, writes |-> 1]

Row(sweep, system, config, baseline) ==
  [sweep |-> sweep, system |-> system, config |-> config, baseline |-> baseline]

\* What simulate_horizon() charges per access for a predictor with these costs of its own.
LookupLatency(config, own) == IF config.lookup = Own THEN own ELSE config.lookup
ChargedLookup(config, own) ==
  LET latency == LookupLatency(config, own)
  IN  IF ~config.parallel THEN latency
      ELSE IF latency > config.overlap THEN latency - config.overlap ELSE 0
ChargedUpdate(config, own) == IF config.update = Own THEN own ELSE config.update

\* A parallel predictor with more look-ups in flight than its queue drops the prediction.
InFlight(config, own) ==
  LET waves == (LookupLatency(config, own) + config.interval - 1) \div config.interval
  IN  IF waves < 1 THEN 1 ELSE waves
Drops(config, own) == config.parallel /\ InFlight(config, own) > config.queue

----------------------------------------------------------------------------
(* wam.hardware_feasibility                                                *)

Hardware == [Default EXCEPT !.top_k = 1, !.update = 0]

\* The baseline and the ideal predictor pay nothing for prediction.
ZeroCost(config) ==
  [config EXCEPT !.lookup = 0, !.update = 0, !.interval = 1, !.parallel = FALSE,
                 !.overlap = 0, !.deferred = FALSE]
\* Mutation of Evaluate: the baseline runs with the row's configuration.
EvaluateAsConfigured(sweep, system, config) == Row(sweep, system, config, config)

Evaluate(sweep, system, config) == Row(sweep, system, config, ZeroCost(config))

LatencyRows ==
  {Evaluate("latency", <<system>>, [Hardware EXCEPT !.lookup = latency]) :
     system \in {"DirectWAM-H8", "DirectWAM-H16", "RecursiveWAM", "Markov-N"},
     latency \in {0, 1, 2, 3, 4, 6, 8, 12, 16, 24, 32}}

ThroughputRows ==
  {Evaluate("throughput", <<"PipelinedThroughput">>,
            [Hardware EXCEPT !.lookup = 4, !.interval = interval, !.parallel = TRUE, !.overlap = 4]) :
     interval \in {1, 2, 4, 8}}

OverlapRows ==
  {Evaluate("overlap", <<"ParallelWAM">>,
            [Hardware EXCEPT !.lookup = 16, !.parallel = TRUE, !.overlap = overlap]) :
     overlap \in {0, 1, 2, 4, 8, 16}}

ContextDepth == 16
\* <<name, lookup latency, issue interval, overlap, update latency, read ports, candidate cost>>
HardwareModels ==
  {<<"SerialTrie", ContextDepth + 1, ContextDepth + 1, 0, ContextDepth, 1, 1>>,
   <<"PipelinedTrie", ContextDepth + 1, 1, ContextDepth, ContextDepth, 1, 1>>,
   <<"ParallelTrie", 3, 1, 2, 2, 2, 1>>,
   <<"HashedContext", 3, 1, 2, 1, 2, 1>>,
   <<"CAM-like", 2, 1, 1, 1, 2, 2>>}

ArchitectureRows ==
  {Evaluate("architecture", <<model[1]>>,
            [Hardware EXCEPT !.lookup = model[2] + model[7], !.interval = model[3],
                             !.parallel = model[1] # "SerialTrie", !.overlap = model[4],
                             !.update = model[5], !.reads = model[6]]) : model \in HardwareModels}
  \cup {Evaluate("architecture", <<system>>, [Hardware EXCEPT !.lookup = 0]) :
          system \in {"IdealWAM", "Oracle"}}

\* The sweeps whose subject is the predictor: its storage, counters, table or signature.
StorageRows ==
  {Evaluate("storage", <<system, 2 ^ kilobytes>>, [Hardware EXCEPT !.lookup = 3]) :
     system \in {"BudgetedWAM", "Markov-N", "Stride"}, kilobytes \in 0 .. 8}
CounterRows ==
  {Evaluate("counter", <<"HashedContext", bits>>, [Hardware EXCEPT !.lookup = 3]) :
     bits \in {2, 4, 8, 12}}
HashRows ==
  {Evaluate("hash", <<"HashedContext", 2 ^ entries>>, [Hardware EXCEPT !.lookup = 3]) :
     entries \in 8 .. 14}

UpdateRows ==
  UNION {{Evaluate("update", <<"DirectWAM-H16">>,
                   [Hardware EXCEPT !.lookup = 3, !.update = latency, !.deferred = deferred]) :
            latency \in {0, 1, 2, 4, 8}} : deferred \in BOOLEAN}
BatchingRows ==
  {Evaluate("batching", <<"BatchedWAM">>,
            [Hardware EXCEPT !.lookup = 3, !.update = 4, !.deferred = TRUE, !.batch = batch]) :
     batch \in {1, 4, 8, 16, 32, 64}}

\* A cached prediction costs one cycle, another three, and the mean is rounded.
MicroarchitectureRows ==
  {Evaluate("cache", <<"PredictionCache">>, [Hardware EXCEPT !.lookup = effective]) :
     effective \in 1 .. 3}
  \cup {Evaluate("signature", <<"ContextSignature", bits>>, [Hardware EXCEPT !.lookup = 3]) :
          bits \in {64, 32, 16, 12, 8}}
  \cup {Evaluate("ports", <<"DirectWAM-H16">>,
                 [Hardware EXCEPT !.lookup = 3, !.update = 4, !.reads = ports[1], !.writes = ports[2]]) :
          ports \in {<<1, 1>>, <<2, 1>>, <<2, 2>>}}
  \cup {Evaluate("fallback", <<"DirectWAM-H16">>,
                 [Hardware EXCEPT !.lookup = mode[1], !.parallel = mode[2], !.overlap = mode[3]]) :
          mode \in {<<4 + 8 + 4 + 2, FALSE, 0>>, <<4, TRUE, 4>>}}
  \cup {Evaluate("candidate", <<"DirectWAM-H16">>, [Hardware EXCEPT !.lookup = 3 + cost]) :
          cost \in {0, 1, 4}}

----------------------------------------------------------------------------
(* wam.real_trace_evaluation and wam.hybrid_analysis                       *)

\* A look-up that is overlapped completely.
RunConfig(latency) ==
  [Default EXCEPT !.top_k = 1, !.lookup = latency, !.update = 0, !.parallel = TRUE,
                  !.overlap = latency]

RealTraceRows ==
  {Row("real_trace", <<system>>, RunConfig(2), RunConfig(2)) :
     system \in {"NextLine", "Stride", "Markov-1", "Markov-N-H2", "Markov-N-H4", "Markov-N-H8",
                 "Markov-N-H16", "VLDP", "SPP", "GMC", "DirectWAM-H8", "DirectWAM-H16",
                 "DirectWAM-H32", "HashedContext-H8", "HashedContext-H16", "HashedContext-H32",
                 "RecursiveWAM", "DirectWAM-H16-miss-only", "Hybrid"}}
  \cup {Row("real_trace", <<system>>, RunConfig(0), RunConfig(2)) :
          system \in {"IdealWAM", "Oracle"}}
RealTraceBudgetRows ==
  {Row("real_trace_budget", <<system, 2 ^ kilobytes>>, RunConfig(2), RunConfig(2)) :
     system \in {"HashedContext-H16", "Markov-N-H16", "VLDP", "SPP", "GMC"}, kilobytes \in 1 .. 6}
PairRows ==
  {Row("hybrid", <<system>>, RunConfig(2), RunConfig(2)) : system \in {"GMC", "DirectWAM-H16"}}
DirectContributionRows ==
  {Row("direct_horizon", <<system>>, RunConfig(2), RunConfig(2)) :
     system \in {"WAM-H16", "WAM-H1", "RecursiveWAM", "GMC-style"}}

----------------------------------------------------------------------------
(* wam.horizon_analysis                                                    *)

HorizonConfig(dram, gap, outstanding) ==
  [Default EXCEPT !.dram = dram, !.gap = gap, !.outstanding = outstanding]
EvaluateWorkload(sweep, config, horizons) ==
  UNION {{Row(sweep, <<system, horizon>>, config, config) :
            system \in {"Oracle", "DirectWAM", "RecursiveWAM", "DirectMarkov"}} : horizon \in horizons}

ComputeGapRows ==
  UNION {EvaluateWorkload("compute_gap", HorizonConfig(150, gap, 8), {1, 4, 8, 16}) :
           gap \in {0, 2, 4, 8, 16, 32, 64}}
DramRows ==
  UNION {EvaluateWorkload("dram", HorizonConfig(latency, 0, 8), {1, 4, 8, 16}) :
           latency \in {80, 150, 300, 500}}
BandwidthRows ==
  UNION {EvaluateWorkload("bandwidth", HorizonConfig(150, 0, limit), {1, 4, 8, 16}) :
           limit \in {1, 2, 4, 8, 16, 32}}

----------------------------------------------------------------------------
(* wam.benchmark and wam.diagnostics: simulate(), whose only costs are the *)
(* predictor's own.                                                        *)

BenchmarkRows ==
  {Row("benchmark", <<system>>, Default, Default) :
     system \in {"NextLine", "Stride", "Markov-1", "WAM depth=1", "WAM depth=2", "WAM depth=3",
                 "WAM depth=4", "WAM depth=8"}}
BreakEvenRows ==
  {Row("break_even", <<"WAM", 2, threshold>>, [Default EXCEPT !.dram = dram],
       [Default EXCEPT !.dram = dram]) :
     dram \in {150, 300}, threshold \in {0, 25, 50, 65, 80, 90}}

\* Every family of the sweep shares the first baseline but one: the L1 capacity
\* changes what a run without prefetching does.
SweepRows ==
  {Row("depth_threshold", <<"WAM", depth, threshold>>, Default, Default) :
     depth \in {1, 2, 3, 4, 8}, threshold \in {50, 65, 80, 90}}
  \cup {Row("ema_alpha", <<"EMA", alpha>>, Default, Default) : alpha \in {1, 5, 10, 25}}
  \cup {Row("top_k", <<"WAM">>, [Default EXCEPT !.top_k = k], Default) : k \in {1, 3, 5}}
  \cup {Row("destination", <<"WAM">>, [Default EXCEPT !.destination = level], Default) :
          level \in 1 .. 2}
  \cup {Row("cache_capacity", <<"WAM">>, [Default EXCEPT !.l1 = capacity],
            [Default EXCEPT !.l1 = capacity]) : capacity \in {32, 64, 128}}
  \cup {Row("prefetch_bandwidth", <<"WAM">>, [Default EXCEPT !.outstanding = limit], Default) :
          limit \in {2, 8, 16}}

OnlineRows == {Row("online", <<"WAM", 2>>, Default, Default)}

\* depth, thresholds and whether prefetching is on
AblationRows ==
  {Row("ablation", system, Default, Default) :
     system \in {<<"frequency", 1, 5, TRUE>>, <<"frequency", 2, 5, TRUE>>, <<"frequency", 2, 0, TRUE>>,
                 <<"ema", 2, 25, TRUE>>, <<"frequency", 2, 5, FALSE>>}}
\* wam.experiment: the first predictor, none, is the baseline of the others.
ExperimentRows ==
  {Row("experiment", <<system>>, Default, Default) :
     system \in {"None", "NextLine", "Markov-1", "WeightedTrie"}}
RepetitionRows ==
  {Row("repetition", <<"WAM", depth, repeats>>, Default, Default) :
     depth \in {1, 2, 3, 4}, repeats \in {1, 2, 4, 8, 16, 32, 64, 128}}
PolicyRows ==
  {Row("pruning", <<"WAM", minimum>>, Default, Default) : minimum \in {1, 2, 4, 8, 16}}
  \cup {Row("support", <<"WAM", support_k>>, Default, Default) : support_k \in {0, 1, 4, 16, 64}}
  \cup {Row("entropy", <<"WAM", threshold>>, Default, Default) :
          threshold \in {0, 50, 100, 150, 200}}

AllRows ==
  LatencyRows \cup ThroughputRows \cup OverlapRows \cup ArchitectureRows \cup StorageRows
  \cup CounterRows \cup HashRows \cup UpdateRows \cup BatchingRows \cup MicroarchitectureRows
  \cup RealTraceRows \cup RealTraceBudgetRows \cup PairRows \cup DirectContributionRows
  \cup ComputeGapRows \cup DramRows \cup BandwidthRows
  \cup BenchmarkRows \cup BreakEvenRows \cup SweepRows \cup AblationRows \cup PolicyRows
  \cup OnlineRows \cup ExperimentRows \cup RepetitionRows
================================================================================
