---------------------------------- MODULE Study ----------------------------------
(***************************************************************************)
(* The experiment programs, one of which runs: wam.hybrid_analysis, which  *)
(* measures sampled windows one by one and reports over them; a program    *)
(* that divides a trace; one that simulates a row of a sweep; or one that  *)
(* concludes from finished tables, and does so again when they improve.    *)
(***************************************************************************)
EXTENDS HybridStudy, Splits, Sweeps, Verdicts

CONSTANTS
  Traces,     \* sequences of trace lengths given to the hybrid study
  Features,   \* what a training history gives: both start confidences, entropy drop
  Outcomes,   \* Outcomes[size]: what simulating a window of that size may give
  Budgets,    \* sets of equal-budget rows
  Lengths,    \* trace lengths that are divided
  Evidence    \* Evidence[program]: the evidence a verdict program may find

ASSUME StudyAssumption ==
  /\ PRIMARY_WINDOW \in Nat \ {0} /\ FALLBACK_WINDOW \in Nat \ {0}
  /\ WINDOW_SIZES \in Seq(Nat \ {0})
  /\ \A k, l \in DOMAIN WINDOW_SIZES : k < l => WINDOW_SIZES[k] < WINDOW_SIZES[l]
  /\ PHASE_SAMPLES_PER_SIZE \in Nat \ {0, 1}
  /\ TRAIN_CAP \in Nat \ {0} /\ MIN_TRACE \in Nat \ {0}
  /\ Traces \subseteq Seq(Nat) /\ Lengths \subseteq Nat
  /\ PerAccess \in SELECTOR_GRANULARITIES /\ SELECTOR_GRANULARITIES \subseteq Nat
  /\ DOMAIN Evidence \subseteq AnalysisPrograms
  /\ \A p \in DOMAIN Evidence : \A e \in Evidence[p] : IsEvidence(p, e)

VARIABLES
  program,   \* the program that runs
  plan,      \* hybrid: the windows still to measure
  features,  \* hybrid: the features of each workload
  rows,      \* the rows measured
  conclusion \* what was concluded from what

studyVars == <<program, plan, features, rows, conclusion>>

VerdictPrograms == DOMAIN Evidence
NoVerdict == [class |-> "none"]

StudyInit ==
  /\ program = "none" /\ plan = <<>> /\ features = <<>> /\ rows = <<>>
  /\ conclusion = NoVerdict

----------------------------------------------------------------------------
(* wam.hybrid_analysis.run()                                               *)

StartHybrid(traces) ==
  /\ program = "none" /\ program' = "hybrid"
  /\ plan' = WindowPlan(traces)
  /\ features' \in [DOMAIN traces -> Features]
  /\ UNCHANGED <<rows, conclusion>>

\* simulate_pair() and make_window_row() for the next window.
MeasureWindow ==
  /\ program = "hybrid" /\ plan # <<>> /\ conclusion = NoVerdict
  /\ \E outcome \in Outcomes[Head(plan).size] :
       rows' = Append(rows, MakeWindowRow(Head(plan), features[Head(plan).workload], outcome))
  /\ plan' = Tail(plan)
  /\ UNCHANGED <<program, features, conclusion>>

\* build_report() and print_verdict(). Only the seed-0 trace of a workload has budget rows.
ReportHybrid(budgets) ==
  /\ program = "hybrid" /\ plan = <<>> /\ conclusion = NoVerdict
  /\ Primary(rows) = <<>> => budgets = {}
  /\ conclusion' = [class |-> Classification(rows, budgets),
                 continue |-> ContinueResearch(rows, budgets),
                 printed |-> PrintedContinue(rows)]
  /\ UNCHANGED <<program, plan, features, rows>>

----------------------------------------------------------------------------
(* The other programs                                                      *)

DivideTrace(n) ==
  /\ program = "none" /\ program' = "divide"
  /\ \E division \in Divisions(n) : rows' = <<division>>
  /\ UNCHANGED <<plan, features, conclusion>>

SimulateRow ==
  /\ program = "none" /\ program' = "sweep"
  /\ \E row \in AllRows : rows' = <<row>>
  /\ UNCHANGED <<plan, features, conclusion>>

Concluded(p, e) == [class |-> Class(p, e), continue |-> Continues(p, e), evidence |-> e]

\* A real evaluation without a complete trace ends with an error and no verdict.
Concludes(p, e) == p = "real_eval" => CompleteTraces(e) # {}

Conclude(p) ==
  /\ program = "none" /\ program' = p
  /\ \E e \in Evidence[p] : Concludes(p, e) /\ conclusion' = Concluded(p, e)
  /\ UNCHANGED <<plan, features, rows>>

\* For each program, the evidence that may rise and that may fall when its tables improve.
\* What the mechanism is set against stays: prior art, native prefetchers, the oracles of
\* the diagnostics, which say what the workload offers, and what a trace offers deltas.
Rising(p) ==
  CASE p = "horizon"     -> {"oracle", "wam", "hidden", "fraction", "useful"}
    [] p = "hardware"    -> {"budget"}
    [] p = "real_trace"  -> {"wam", "wins", "hybrid"}
    [] p = "diagnostics" -> {"actual4", "reuse4", "entropyDrop"}
    [] p = "set_assoc"   -> {"setHits", "coverage", "accuracy", "shadow", "delta"}
    [] p = "final"       -> {"reuse", "hitRate"}
    [] p = "real_eval"   -> {}
Falling(p) ==
  CASE p = "horizon"     -> {"overhead", "dropped"}
    [] p = "hardware"    -> {"energy"}
    [] p = "set_assoc"   -> {"directHits", "oracle"}
    [] OTHER             -> {}
\* Evidence kept per system or per trace that may rise: e[field][index].
RisingEach(p) ==
  CASE p = "hardware"    -> {"speedup", "fraction"}
    [] p = "final"       -> {"h16", "shadow"}
    [] OTHER             -> {}
\* Evidence of something that happens at all, and may begin to.
Attained(p) ==
  CASE p = "real_trace"  -> {"gains"}
    [] p = "final"       -> {"generates", "accepts", "useful"}
    [] OTHER             -> {}

\* f is better than e: no measurement of the mechanism is worse.  A campaign is compared
\* with one in which the same runs completed.
OwnPredictors == {"WAM-H16", "Hybrid-SPP+WAM"}
Better(p, e, f) ==
  IF p = "real_eval" THEN
    /\ f.irregular = e.irregular
    /\ DOMAIN f.ipc = DOMAIN e.ipc
    /\ \A t \in DOMAIN e.ipc :
         /\ \A q \in OwnPredictors : /\ f.ipc[t][q] >= e.ipc[t][q]
                                    /\ (f.ipc[t][q] = 0) = (e.ipc[t][q] = 0)
         /\ \A q \in PREDICTORS \ OwnPredictors : f.ipc[t][q] = e.ipc[t][q]
  ELSE
    \A field \in DOMAIN e :
      IF field \in Rising(p) THEN f[field] >= e[field]
      ELSE IF field \in Falling(p) THEN f[field] <= e[field]
      ELSE IF field \in RisingEach(p) THEN
        DOMAIN f[field] = DOMAIN e[field] /\ \A i \in DOMAIN e[field] : f[field][i] >= e[field][i]
      ELSE IF field \in Attained(p) THEN e[field] => f[field]
      ELSE f[field] = e[field]

\* The program runs again, on tables of a better predictor.
Improve ==
  /\ program \in VerdictPrograms
  /\ \E e \in Evidence[program] :
       /\ e # conclusion.evidence /\ Better(program, conclusion.evidence, e)
       /\ conclusion' = Concluded(program, e)
  /\ UNCHANGED <<program, plan, features, rows>>

StudyNext ==
  \/ \E traces \in Traces : StartHybrid(traces)
  \/ MeasureWindow
  \/ \E budgets \in Budgets : ReportHybrid(budgets)
  \/ \E n \in Lengths : DivideTrace(n)
  \/ SimulateRow
  \/ \E p \in VerdictPrograms : Conclude(p)
  \/ Improve

StudySpec == StudyInit /\ [][StudyNext]_studyVars

----------------------------------------------------------------------------
(* Properties                                                              *)

EndsBefore(span, later) == span[2] <= later[1]
Disjoint(a, b) == EndsBefore(a, b) \/ EndsBefore(b, a)

\* Two rows differ only in what simulating the window gave.
SameKnown(row, other) ==
  row.workload = other.workload /\ row.size = other.size /\ row.gmcConfidence = other.gmcConfidence
  /\ row.wamConfidence = other.wamConfidence /\ row.entropy = other.entropy

\* No evaluation sees its own future.  A model is trained on lines before those it is
\* evaluated on, unless it learns while it is evaluated; the windows of one size of a
\* workload do not overlap and follow its training; and a selector that is not the
\* window oracle chooses, for the newest window of a workload, whatever simulating
\* that window gives, the same ("never allows the selector to see future outcomes").
NoLookahead ==
  /\ program = "divide" =>
       \A i \in DOMAIN rows :
         \/ EndsBefore(rows[i].training, rows[i].evaluation)
         \/ rows[i].training[2] = 0
  /\ program = "hybrid" =>
       /\ \A i \in DOMAIN plan : EndsBefore(plan[i].training, plan[i].span)
       /\ \A i, j \in DOMAIN plan :
            i # j /\ plan[i].workload = plan[j].workload /\ plan[i].size = plan[j].size
              => Disjoint(plan[i].span, plan[j].span)
       /\ \A w \in Workloads(Primary(rows)), selector \in Selectors \ {"WindowOracle"} :
            LET work == RowsOf(Primary(rows), w)
                n == Len(work)
            IN  \A outcome \in Outcomes[work[n].size] :
                  LET other == MakeWindowRow(work[n], features[w], outcome)
                  IN  /\ SameKnown(other, work[n])
                      /\ SelectorChoices([work EXCEPT ![n] = other], selector)
                           = SelectorChoices(work, selector)

\* A speedup compares like with like: the baseline of a row sees the same memory, the
\* same first-level cache and the same compute gaps as the predictor, and pays for no
\* prediction: a run without predictor has no costs of its own, so no look-up and no
\* update is charged to it.
BaselineFair ==
  program = "sweep" =>
    \A i \in DOMAIN rows :
      LET config == rows[i].config
          baseline == rows[i].baseline
      IN  /\ baseline.dram = config.dram /\ baseline.l1 = config.l1 /\ baseline.gap = config.gap
          /\ ChargedLookup(baseline, 0) = 0 /\ ChargedUpdate(baseline, 0) = 0

\* The two thresholds at which a better result ends what it was to carry on.  In the
\* diagnostics, depth-4 prediction above 90% turns class E into C, "prefetch execution
\* problem", and the answer to "Continue?" from Yes to "only as a targeted diagnostic".
\* In the evaluation of real traces, the first wins of DirectWAM-H16 alone turn a
\* conclusion without any (D or F) into C, "niche sidecar", and MOVE_TO_RTL into NO.
Overturns(p, e, f) ==
  \/ p = "diagnostics" /\ Accurate(f) /\ ~Accurate(e)
  \/ /\ p = "real_eval" /\ CompleteTraces(e) = DOMAIN e.ipc
     /\ WamWins(e) = 0 /\ FewWins(f)

\* When the tables of a program that goes on improve in what the mechanism did, it still
\* goes on, except where the improvement crosses one of the two thresholds above, where
\* it stops: no other of the seven chains of tests lets a better result fall through to
\* a class that stops.  And the hybrid study never reports going on while it prints stopping.
VerdictsCoherent ==
  [][/\ program' \in VerdictPrograms /\ conclusion # NoVerdict /\ conclusion.continue =>
          (conclusion'.continue <=> ~Overturns(program', conclusion.evidence, conclusion'.evidence))
     /\ program' = "hybrid" /\ conclusion' # NoVerdict => (conclusion'.continue => conclusion'.printed)]_studyVars

\* The documented pipeline: "one lookup can issue each cycle".  A model that issues
\* every cycle never finds its predictor queue full.
PipelinesIssue ==
  program = "sweep" =>
    \A i \in DOMAIN rows :
      rows[i].sweep = "architecture" /\ rows[i].config.interval = 1
        => ~Drops(rows[i].config, 0)
================================================================================
