-------------------------------- MODULE Verdicts --------------------------------
(***************************************************************************)
(* What each analysis program concludes from its evidence: the class it    *)
(* reports and whether the line of research it is about goes on.  Speedups,*)
(* accuracies and fractions are percentages; a number of cycles, prefetches*)
(* or workloads is itself.  The first condition that holds decides.        *)
(***************************************************************************)
EXTENDS Integers, Sequences, FiniteSets, Functions

LargerOf(a, b) == IF a > b THEN a ELSE b

----------------------------------------------------------------------------
(* wam.horizon_analysis: the best oracle row, the best WAM speedup, and    *)
(* what the best WAM row paid, hid and gained.                             *)

HorizonClass(e) ==
  IF e.oracle <= 110 THEN "A"
  ELSE IF e.wam <= 105 THEN "C"
  ELSE IF 2 * e.overhead > LargerOf(1, e.hidden) /\ e.fraction < 25 THEN "E"
  ELSE IF e.dropped > e.useful THEN "D"
  ELSE "F"

----------------------------------------------------------------------------
(* wam.hardware_feasibility: rows of the architecture sweep and the best   *)
(* storage row of at most 256 KB.                                          *)

HardwareModelNames == {"SerialTrie", "PipelinedTrie", "ParallelTrie", "HashedContext", "CAM-like"}
Plausible(e, system) == e.speedup[system] >= 105 /\ e.fraction[system] >= 50

HardwareClass(e) ==
  IF \A system \in HardwareModelNames : e.speedup[system] <= 100 THEN "A"
  ELSE IF e.budget <= 100 THEN "C"
  ELSE IF e.energy > 200 THEN "D"
  ELSE IF Plausible(e, "HashedContext") THEN
         IF e.speedup["HashedContext"] >= 110 /\ e.energy <= 150 THEN "G" ELSE "E"
  ELSE IF Plausible(e, "PipelinedTrie") THEN "F"
  ELSE IF \A system \in HardwareModelNames \ {"SerialTrie"} : e.speedup[system] <= 100 THEN "B"
  ELSE "A"

----------------------------------------------------------------------------
(* wam.real_trace_evaluation: geometric means over irregular workloads of  *)
(* DirectWAM-H16, of the best prior-art row and of the hybrid, and the     *)
(* workloads on which DirectWAM-H16 is faster than every prior-art row.    *)

RealTraceClass(e) ==
  IF e.wam > e.prior /\ e.wins >= LargerOf(2, e.workloads \div 3) THEN "E"
  ELSE IF e.hybrid > e.wam THEN "D"
  ELSE IF e.gains THEN "C"
  ELSE "B"

----------------------------------------------------------------------------
(* wam.diagnostics: depth 1 and depth 4 of one workload.                   *)

HigherOrderSignal(e) == e.oracle4 - e.oracle1 > 20
Accurate(e) == e.actual4 > 90

DiagnosticsClass(e) ==
  IF HigherOrderSignal(e) /\ e.actual4 + 10 < e.oracle4 THEN "A"
  ELSE IF HigherOrderSignal(e) /\ e.reuse4 < 50 THEN "B"
  ELSE IF e.entropyDrop < 5 THEN "D"
  ELSE IF Accurate(e) THEN "C"
  ELSE "E"

----------------------------------------------------------------------------
(* scripts/analyze_set_associative_wam.py: aggregate tag-hit rates, and    *)
(* means over traces of the recovery of the oracle's coverage and accuracy.*)

Recovers(e) == e.setHits > e.directHits + 2
StateRecovered(e) == Recovers(e) /\ e.coverage >= 50

\* Mutation of SetAssocClass: coverage above half is taken for the weak case.
SetAssocClassFlipped(e) ==
  IF ~StateRecovered(e) /\ ~Recovers(e) THEN "A"
  ELSE IF e.coverage > 50 \/ e.accuracy < 50 THEN "B"
  ELSE IF 2 * e.shadow < e.oracle THEN "C"
  ELSE IF StateRecovered(e) /\ e.delta >= 15 THEN "E"
  ELSE "D"

SetAssocClass(e) ==
  IF ~StateRecovered(e) /\ ~Recovers(e) THEN "A"
  ELSE IF e.coverage < 50 \/ e.accuracy < 50 THEN "B"
  ELSE IF 2 * e.shadow < e.oracle THEN "C"
  ELSE IF StateRecovered(e) /\ e.delta >= 15 THEN "E"
  ELSE "D"

----------------------------------------------------------------------------
(* scripts/analyze_champsim_final_diagnostic.py: H16 accuracy of the       *)
(* oracle (h16) and of the shadow per trace, and what the runs did.        *)

HighSignalTraces(e) == {trace \in DOMAIN e.h16 : e.h16[trace] >= 50}

FinalClass(e) ==
  LET n == Cardinality(DOMAIN e.h16)
  IN  IF e.reuse < 1 /\ SumFunction(e.h16) < 10 * n /\ \A trace \in DOMAIN e.h16 : e.h16[trace] < 25
      THEN "A"
      ELSE IF e.deltaAdvantage > 20 THEN "B"
      ELSE IF Cardinality(HighSignalTraces(e)) >= 2 /\ e.hitRate < 1 /\ ~e.generates THEN "C"
      ELSE IF SumFunction(e.h16) > 25 * n /\ 2 * SumFunction(e.shadow) < SumFunction(e.h16) /\ ~e.generates THEN "D"
      ELSE IF SumFunction(e.shadow) > 50 * n /\ e.accepts /\ ~e.useful THEN "E"
      ELSE "F"

----------------------------------------------------------------------------
(* scripts/summarize_champsim_real_eval.py.  e.ipc gives the IPC of every  *)
(* trace of the manifest under every predictor, 0 for a run that did not   *)
(* complete; e.irregular are the traces of an irregular class.             *)

PREDICTORS == {"NoPrefetch", "NativeSPP", "NativeIPStride", "WAM-H16", "Hybrid-SPP+WAM"}

CompleteTraces(e) == {trace \in DOMAIN e.ipc : \A p \in PREDICTORS : e.ipc[trace][p] > 0}

ProductOf(f) == FoldFunction(LAMBDA x, y : x * y, 1, f)

\* gmean over traces of num[trace]/den[trace] is at least p/q; over no trace it is 0.
GmeanAtLeast(traces, num, den, p, q) ==
  /\ traces # {}
  /\ ProductOf([t \in traces |-> num[t] * q]) >= ProductOf([t \in traces |-> den[t] * p])

\* The IPC of every trace under one predictor.
IpcUnder(e, p) == [t \in DOMAIN e.ipc |-> e.ipc[t][p]]

\* The native prefetcher with the better mean; the first one on a tie.
StrongBaseline(e) ==
  IF GmeanAtLeast(CompleteTraces(e), IpcUnder(e, "NativeSPP"), IpcUnder(e, "NativeIPStride"), 1, 1)
  THEN "NativeSPP" ELSE "NativeIPStride"

\* The complete traces that DirectWAM-H16 alone speeds up by 2%, and whether they are few.
WamWins(e) ==
  Cardinality({t \in CompleteTraces(e) : 100 * e.ipc[t]["WAM-H16"] >= 102 * e.ipc[t]["NoPrefetch"]})
FewWins(e) ==
  WamWins(e) > 0 /\ WamWins(e) <= LargerOf(2, Cardinality(CompleteTraces(e)) \div 3)

RealEvalClass(e) ==
  LET complete == CompleteTraces(e)
      irregular == complete \cap e.irregular
      none == IpcUnder(e, "NoPrefetch")
      strong == IpcUnder(e, StrongBaseline(e))
      wam == IpcUnder(e, "WAM-H16")
      hybrid == IpcUnder(e, "Hybrid-SPP+WAM")
      ceiling == [t \in DOMAIN e.ipc |-> LargerOf(wam[t], e.ipc[t]["NativeSPP"])]
      hybridPays == GmeanAtLeast(complete, hybrid, strong, 101, 100)
      oraclePays == GmeanAtLeast(complete, ceiling, strong, 102, 100)
      noRegression == \A t \in complete : 100 * wam[t] >= 98 * none[t]
  IN  IF complete # DOMAIN e.ipc THEN "incomplete"
      ELSE IF ~hybridPays /\ ~oraclePays THEN "A"
      ELSE IF ~hybridPays THEN "B"
      ELSE IF FewWins(e) THEN "C"
      ELSE IF GmeanAtLeast(irregular, hybrid, strong, 103, 100) /\ noRegression THEN "D"
      ELSE IF WamWins(e) > 0 /\ ~GmeanAtLeast(irregular, none, wam, 1, 1) /\ irregular # {} THEN "E"
      ELSE "F"

----------------------------------------------------------------------------

Class(program, e) ==
  CASE program = "horizon"     -> HorizonClass(e)
    [] program = "hardware"    -> HardwareClass(e)
    [] program = "real_trace"  -> RealTraceClass(e)
    [] program = "diagnostics" -> DiagnosticsClass(e)
    [] program = "set_assoc"   -> SetAssocClass(e)
    [] program = "final"       -> FinalClass(e)
    [] program = "real_eval"   -> RealEvalClass(e)

\* The classes under which the mechanism is kept: by the decision line the program
\* prints (diagnostics, set_assoc, final, real_eval), or else by what the class is called.
Continuing(program) ==
  CASE program = "horizon"     -> {"F"}
    [] program = "hardware"    -> {"E", "F", "G"}
    [] program = "real_trace"  -> {"E"}
    [] program = "diagnostics" -> {"E"}
    [] program = "set_assoc"   -> {"E"}
    [] program = "final"       -> {"B", "C", "D", "E", "F"}
    [] program = "real_eval"   -> {"D", "E", "F", "incomplete"}

AnalysisPrograms ==
  {"horizon", "hardware", "real_trace", "diagnostics", "set_assoc", "final", "real_eval"}

\* What the tables that a program reads can hold.
IsEvidence(program, e) ==
  CASE program = "horizon"     -> e \in [oracle : Int, wam : Int, overhead : Int, hidden : Int,
                                         fraction : Int, dropped : Int, useful : Int]
    [] program = "hardware"    -> e \in [speedup : [HardwareModelNames -> Int], budget : Int,
                                         fraction : [HardwareModelNames -> Int], energy : Int]
    [] program = "real_trace"  -> e \in [wam : Int, prior : Int, wins : Nat, workloads : Nat,
                                         hybrid : Int, gains : BOOLEAN]
    [] program = "diagnostics" -> e \in [oracle1 : Int, oracle4 : Int, actual4 : Int,
                                         reuse4 : Int, entropyDrop : Int]
    [] program = "set_assoc"   -> e \in [setHits : Int, directHits : Int, coverage : Int,
                                         accuracy : Int, shadow : Int, oracle : Int, delta : Int]
    [] program = "final"       -> /\ IsFiniteSet(DOMAIN e.h16)
                                  /\ e \in [h16 : [DOMAIN e.h16 -> Int], reuse : Int,
                                            deltaAdvantage : Int, hitRate : Int, generates : BOOLEAN,
                                            shadow : [DOMAIN e.h16 -> Int], accepts : BOOLEAN,
                                            useful : BOOLEAN]
    [] program = "real_eval"   -> /\ IsFiniteSet(DOMAIN e.ipc)
                                  /\ e \in [ipc : [DOMAIN e.ipc -> [PREDICTORS -> Nat]],
                                            irregular : SUBSET DOMAIN e.ipc]

Continues(program, e) == Class(program, e) \in Continuing(program)
================================================================================
