--------------------------------- MODULE MCStudy ---------------------------------
(***************************************************************************)
(* Instances of Study: windows of one, two and three accesses for those of *)
(* up to fifty thousand, and evidence on both sides of every threshold.    *)
(***************************************************************************)
EXTENDS Study

MCWindowSizes == <<1, 2, 3>>
MCTraces == {<<2>>, <<3>>, <<4>>, <<10>>, <<36>>, <<10, 10>>}
MCGranularities == {PerAccess, 2, 3}

MCFeatures == {[gmc |-> 60, wam |-> 60, entropy |-> 0],
               [gmc |-> 40, wam |-> 60, entropy |-> 20],
               [gmc |-> 40, wam |-> 30, entropy |-> 20]}

\* The cycles of a window without prefetching, under GMC and under WAM, and useful rates.
Outcome(base, gmc, wam, gmcUseful, wamUseful) ==
  [base |-> base, gmc |-> gmc, wam |-> wam, gmcUseful |-> gmcUseful, wamUseful |-> wamUseful]
MCOutcomes ==
  <<{Outcome(8, 8, 8, 0, 0), Outcome(8, 8, 4, 0, 50)},
    {Outcome(8, 8, 8, 0, 0), Outcome(32, 8, 4, 20, 60)},
    {Outcome(8, 8, 8, 30, 30), Outcome(8, 8, 4, 20, 60), Outcome(32, 8, 8, 20, 60),
     Outcome(32, 4, 8, 60, 20), Outcome(8, 4, 8, 20, 60)}>>

BudgetRow(base, gmc, wam, within) == [base |-> base, gmc |-> gmc, wam |-> wam, within |-> within]
MCBudgets == {{}, {BudgetRow(32, 8, 4, TRUE)}, {BudgetRow(32, 8, 4, FALSE)},
              {BudgetRow(8, 8, 8, TRUE), BudgetRow(32, 8, 4, FALSE)}}

MCLengths == 2 .. 24

Systems(hashed, pipelined, others) ==
  [system \in HardwareModelNames |->
     IF system = "HashedContext" THEN hashed ELSE IF system = "PipelinedTrie" THEN pipelined ELSE others]

\* Two traces: what the other predictors reach, with 50 for no prefetching.
Ipc(spp, wam, hybrid) ==
  [p \in PREDICTORS |-> CASE p = "NativeSPP" -> spp [] p = "WAM-H16" -> wam
                          [] p = "Hybrid-SPP+WAM" -> hybrid [] OTHER -> 50]
TraceIpcs == {Ipc(spp, wam, hybrid) : spp \in {50, 51}, wam \in {48, 50, 52}, hybrid \in {0, 50, 52}}

MCEvidence == [
  horizon |-> [oracle : {100, 120}, wam : {104, 106, 120}, overhead : {0, 10}, hidden : {10, 30},
               fraction : {10, 30}, dropped : {0, 5}, useful : {0, 5}],
  hardware |-> [speedup : {Systems(h, p, o) : h \in {100, 106, 112}, p \in {100, 106}, o \in {100, 106}}
                             \cup {[Systems(100, 100, 100) EXCEPT !["SerialTrie"] = 106]},
                fraction : {Systems(h, p, 0) : h \in {40, 60}, p \in {40, 60}},
                budget : {100, 110}, energy : {140, 180, 220}],
  real_trace |-> {e \in [wam : {100, 110}, prior : {100, 105}, wins : 0 .. 3, workloads : {2, 9},
                         hybrid : {100, 120}, gains : BOOLEAN] : e.wins <= e.workloads},
  diagnostics |-> [oracle1 : {40, 60}, oracle4 : {60, 65, 95}, actual4 : {40, 60, 95},
                   reuse4 : {40, 60}, entropyDrop : {0, 10}],
  set_assoc |-> [setHits : {10, 20, 30}, directHits : {10, 25}, coverage : {40, 50, 60},
                 accuracy : {40, 60}, shadow : {20, 40}, oracle : {50, 60}, delta : {10, 20}],
  final |-> [h16 : [{"t1", "t2"} -> {5, 20, 60}], reuse : {0, 5}, deltaAdvantage : {0, 30},
             hitRate : {0, 5}, generates : BOOLEAN,
             shadow : {[t1 |-> s, t2 |-> s] : s \in {5, 60}}, accepts : {TRUE}, useful : BOOLEAN],
  real_eval |-> [ipc : [{"t1", "t2"} -> TraceIpcs], irregular : {{}, {"t1"}, {"t1", "t2"}}]]
================================================================================
