------------------------------- MODULE HybridStudy -------------------------------
(***************************************************************************)
(* wam.hybrid_analysis: would a selector between the GMC-style prefetcher  *)
(* and DirectWAM-H16 pay?  Both are trained on the first 70% of a trace    *)
(* and measured, frozen, on sampled windows of the rest; selectors are     *)
(* then replayed over the rows measured.  A row holds the cycles of the    *)
(* window without prefetching (base) and under each predictor, and the     *)
(* rate, in percent, of its prefetches that were useful.                   *)
(***************************************************************************)
EXTENDS Integers, Sequences, SequencesExt, FiniteSetsExt

CONSTANTS
  WINDOW_SIZES,            \* a sequence of window sizes, increasing
  PRIMARY_WINDOW,          \* the size the selectors and the report use,
  FALLBACK_WINDOW,         \* and the one they use when it was not measured (1000)
  PHASE_SAMPLES_PER_SIZE,
  MIN_TRACE,               \* a shorter trace is skipped (1000)
  TRAIN_CAP,               \* the newest training accesses that are kept
  SELECTOR_GRANULARITIES   \* accesses per arbitration; PerAccess is the finest

PerAccess == 0

\* What a sequence holds at some of its positions, in its order.
Kept(s, positions) ==
  LET upTo[i \in 0 .. Len(s)] ==
        IF i = 0 THEN <<>>
        ELSE IF i \in positions THEN Append(upTo[i - 1], s[i]) ELSE upTo[i - 1]
  IN  upTo[Len(s)]

----------------------------------------------------------------------------
(* The split and the windows                                               *)

Larger(a, b) == IF a > b THEN a ELSE b
CeilingDiv(a, b) == (a + b - 1) \div b

Cut(length) == Larger(1, (7 * length) \div 10)
\* A span is the half-open interval <<first, end>> of positions.
TrainingSpan(length) == <<Larger(0, Cut(length) - TRAIN_CAP), Cut(length)>>

SampledStarts(length, size) ==
  LET starts == [i \in 1 .. CeilingDiv(length, size) |-> (i - 1) * size]
      n == Len(starts)
  IN  IF n <= PHASE_SAMPLES_PER_SIZE THEN starts
      ELSE <<starts[1], starts[(n \div 2) + 1], starts[n]>>

\* The windows of one workload, in the order they are measured; a partial one is dropped.
WindowsOf(workload, length) ==
  LET evaluation == length - Cut(length)
      ofSize(size) ==
        LET starts == SampledStarts(evaluation, size)
            windows == [i \in DOMAIN starts |->
                          [workload |-> workload, size |-> size, training |-> TrainingSpan(length),
                           span |-> <<Cut(length) + starts[i], Cut(length) + starts[i] + size>>]]
        IN  Kept(windows, {i \in DOMAIN windows : windows[i].span[2] <= length})
  IN  IF length < MIN_TRACE THEN <<>>
      ELSE FlattenSeq([k \in DOMAIN WINDOW_SIZES |-> ofSize(WINDOW_SIZES[k])])

\* The windows of a run over traces, a sequence of trace lengths.
WindowPlan(traces) == FlattenSeq([t \in DOMAIN traces |-> WindowsOf(t, traces[t])])

----------------------------------------------------------------------------
(* Rows.  The confidence at the start of a window and the drop of entropy  *)
(* from depth 1 to depth 16 are read from the training history alone, so   *)
(* every window of a workload has the same.                                *)

MakeWindowRow(window, features, outcome) ==
  [workload |-> window.workload, size |-> window.size,
   gmcConfidence |-> features.gmc, wamConfidence |-> features.wam, entropy |-> features.entropy,
   base |-> outcome.base, gmc |-> outcome.gmc, wam |-> outcome.wam,
   gmcUseful |-> outcome.gmcUseful, wamUseful |-> outcome.wamUseful]

OfSize(rows, size) == Kept(rows, {i \in DOMAIN rows : rows[i].size = size})
Primary(rows) ==
  IF OfSize(rows, PRIMARY_WINDOW) # <<>> THEN OfSize(rows, PRIMARY_WINDOW)
  ELSE OfSize(rows, FALLBACK_WINDOW)
Workloads(rows) == {rows[i].workload : i \in DOMAIN rows}
RowsOf(rows, workload) == Kept(rows, {i \in DOMAIN rows : rows[i].workload = workload})

Total(rows, Cycles(_)) == FoldSeq(LAMBDA row, sum : sum + Cycles(row), 0, rows)
Product(rows, Cycles(_)) == FoldSeq(LAMBDA row, product : product * Cycles(row), 1, rows)
Base(row) == row.base
Gmc(row) == row.gmc
Wam(row) == row.wam
Best(row) == IF row.wam < row.gmc THEN row.wam ELSE row.gmc

----------------------------------------------------------------------------
(* Selectors: what is chosen for a row, given the rows already replayed.   *)

Implementable == {"ConfidenceSelector", "RecentWinnerSelector", "EntropyAwareSelector"}
Selectors == Implementable \cup {"StaticPerWorkloadOracle", "WindowOracle"}

Recent(prior) == IF Len(prior) <= 3 THEN prior ELSE SubSeq(prior, Len(prior) - 2, Len(prior))

ChoosesWAM(row, selector, prior) ==
  \/ selector = "WindowOracle" /\ row.wam < row.gmc
  \/ selector = "StaticPerWorkloadOracle" /\ Total(prior, Wam) < Total(prior, Gmc)
  \/ selector = "ConfidenceSelector" /\ row.gmcConfidence < 50 /\ row.wamConfidence >= 50
  \/ /\ selector = "RecentWinnerSelector" /\ prior # <<>>
     /\ Total(Recent(prior), LAMBDA r : r.wamUseful) > Total(Recent(prior), LAMBDA r : r.gmcUseful)
  \/ selector = "EntropyAwareSelector" /\ row.entropy > 10 /\ row.wamConfidence >= row.gmcConfidence
SelectorChoice(row, selector, prior) ==
  IF ChoosesWAM(row, selector, prior) THEN "WAM" ELSE "GMC-style"

\* Mutation of Prior: the row is appended before the choice is made.
PriorAndOwn(work, i) == SubSeq(work, 1, i)

\* The rows a choice may depend on: those of the workload replayed before row i.
Prior(work, i) == SubSeq(work, 1, i - 1)

SelectorChoices(work, selector) ==
  [i \in DOMAIN work |-> SelectorChoice(work[i], selector, Prior(work, i))]

SelectedCycles(work, selector) ==
  LET chosen == SelectorChoices(work, selector)
  IN  SumFunction([i \in DOMAIN work |-> IF chosen[i] = "WAM" THEN work[i].wam ELSE work[i].gmc])

\* One cycle for each arbitration; the finest granularity counts one a window.
LookupCycles(work, granularity) ==
  IF granularity = PerAccess THEN Len(work)
  ELSE Total(work, LAMBDA row : Larger(1, CeilingDiv(row.size, granularity)))

TotalCycles(work, selector, granularity) ==
  SelectedCycles(work, selector) + LookupCycles(work, granularity)

----------------------------------------------------------------------------
(* Geometric means: (num/den)^(1/n).                                       *)

Geomean(num, den, n) == [num |-> num, den |-> den, n |-> n]

\* a >= (p/q) b for geometric means of at most two values each.
AtLeast(a, b, p, q) ==
  IF a.n = b.n THEN a.num * b.den * q ^ a.n >= b.num * a.den * p ^ a.n
  ELSE a.num ^ b.n * b.den ^ a.n * q ^ (a.n * b.n) >= b.num ^ a.n * a.den ^ b.n * p ^ (a.n * b.n)
Exceeds(a, b) == ~AtLeast(b, a, 1, 1)

\* Over windows; and, for a selector, over workloads.
GmcGeomean(rows) == Geomean(Product(rows, Base), Product(rows, Gmc), Len(rows))
SelectorGeomean(rows, selector, granularity) ==
  LET workloads == SetToSeq(Workloads(rows))
  IN  Geomean(Product(workloads, LAMBDA w : Total(RowsOf(rows, w), Base)),
              Product(workloads, LAMBDA w : TotalCycles(RowsOf(rows, w), selector, granularity)),
              Len(workloads))

\* The rows of one size whose geometric means the report reads.
OracleRows(rows) ==
  IF Primary(rows) # <<>> THEN Primary(rows)
  ELSE IF rows = <<>> THEN <<>> ELSE OfSize(rows, Max({rows[i].size : i \in DOMAIN rows}))

\* OracleHybrid takes the better predictor in every window: its gain over the
\* GMC-style prefetcher, in which the baseline cancels, is at least the critical 2%.
OracleGains(rows) ==
  /\ rows # <<>>
  /\ AtLeast(Geomean(Product(rows, Gmc), Product(rows, Best), Len(rows)), Geomean(1, 1, Len(rows)), 51, 50)

----------------------------------------------------------------------------
(* The equal-budget rows and the two verdicts                              *)

\* The better predictor of each equal-budget row that kept within its shares.
BudgetSpeedups(budgets) ==
  {Geomean(row.base, Best(row), 1) : row \in {r \in budgets : r.within}}

Cheap(rows) ==
  {SelectorGeomean(Primary(rows), selector, granularity) :
     selector \in Implementable, granularity \in SELECTOR_GRANULARITIES \ {PerAccess}}

CheapGains(rows) ==
  Primary(rows) # <<>> /\ \E cheap \in Cheap(rows) : AtLeast(cheap, GmcGeomean(Primary(rows)), 51, 50)

Classification(rows, budgets) ==
  IF ~OracleGains(OracleRows(rows)) THEN "A"
  ELSE IF ~CheapGains(rows) THEN "B"
  ELSE IF \E budget \in BudgetSpeedups(budgets) : Exceeds(budget, GmcGeomean(OracleRows(rows))) THEN "C"
  ELSE "B"

\* Whether report.md goes on, and whether the last line printed does.
ContinueResearch(rows, budgets) == Classification(rows, budgets) = "C"
PrintedContinue(rows) == Primary(rows) # <<>> /\ OracleGains(Primary(rows))
================================================================================
