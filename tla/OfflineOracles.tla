----------------------------- MODULE OfflineOracles -----------------------------
(***************************************************************************)
(* The context oracles that the reports set beside the predictors: tables  *)
(* counted in one pass over the training part of a trace, whose best guess *)
(* is then compared with the evaluation part (wam/diagnostics.py,          *)
(* wam/real_trace_evaluation.py, wam/horizon_analysis.py,                  *)
(* wam/hybrid_analysis.py, scripts/analyze_champsim_final_diagnostic.py).  *)
(***************************************************************************)
EXTENDS Predictors

\* How often each target was seen behind each context, over some positions.
Tabulated(positions, Context(_), Target(_)) ==
  [c \in {Context(i) : i \in positions} |->
     LET here == {i \in positions : Context(i) = c}
     IN  [x \in {Target(i) : i \in here} |-> Cardinality({i \in here : Target(i) = x})]]

\* The line after the context at distance h; the context of at most Depth lines
\* that ends at position i.
Following(lines, positions, h) ==
  LET Context(i) == Recent(SubSeq(lines, 1, i), Depth)
      Target(i)  == lines[i + h]
  IN  Tabulated(positions, Context, Target)

\* _context_oracle() and context_information(): contexts of any length.
ContextOracleTable(train) == Following(train, 1 .. Len(train) - 1, 1)

\* _flat_context_metrics(): contexts of full depth only.
FlatMetricsTable(train) == Following(train, Depth .. Len(train) - 1, 1)

\* oracle_rows(), oracle_accuracy() and the long accuracy pass.
HorizonOracleTable(train) == Following(train, 1 .. Len(train) - Horizon, Horizon)

\* context_information(): how many contexts of at most Depth lines there are.
UniqueContexts(train) == Cardinality(DOMAIN ContextOracleTable(train))

\* Mutation of ChronologicalTable: the last targets are those of the evaluation.
ChronologicalTableToSplit(lines, split) ==
  Following(lines, Depth .. Min({split, Len(lines) - Horizon}), Horizon)

\* chronological_oracle(): the whole trace and where to split it; no target at or
\* after the split is counted.
ChronologicalTable(lines, split) ==
  Following(lines, {i \in Depth .. Min({split, Len(lines) - Horizon}) :
                      i + Horizon <= split}, Horizon)

\* The positions it evaluates, and those whose context it has counted.
ChronologicalExamples(lines, split) == Max({Depth, split + 1}) .. Len(lines) - Horizon
Reusable(lines, split) ==
  {i \in ChronologicalExamples(lines, split) :
     Recent(SubSeq(lines, 1, i), Depth) \in DOMAIN ChronologicalTable(lines, split)}

\* context_counts() and context_summary(): every full context of the trace.
ContextCounts(lines) ==
  LET Context(i) == Recent(SubSeq(lines, 1, i), Depth)
      Target(i)  == TRUE
  IN  Tabulated(Depth .. Len(lines), Context, Target)
================================================================================
