--------------------------------- MODULE Splits ---------------------------------
(***************************************************************************)
(* How the experiment programs divide a trace of n lines, by time, between *)
(* training and evaluation.  A division is a pair of half-open spans of    *)
(* positions.                                                              *)
(***************************************************************************)
EXTENDS Integers, Sequences, SequencesExt, FiniteSetsExt

Division(training, evaluation) == [training |-> training, evaluation |-> evaluation]

\* split() of every program: at least one line on each side, of a trace of two or more.
SplitPoint(n, percent) == Max({1, Min({n - 1, (n * percent) \div 100})})
Split(n, percent) == Division(<<0, SplitPoint(n, percent)>>, <<SplitPoint(n, percent), n>>)

\* The training fractions of the programs: run_workload() 60, the chronological
\* fractions of evaluate_trace() 50, 70 and 80, and 70 everywhere else.
TrainFractions == {50, 60, 70, 80}

\* Ten windows of evaluate_trace(): each prefix of the trace trains on its first 70%.
PhaseEnd(n, window) == Max({2, (n * (window + 1)) \div 10})
PhaseCut(n, window) == Max({1, (PhaseEnd(n, window) * 7) \div 10})
Phases(n) ==
  {Division(<<0, PhaseCut(n, w)>>, <<PhaseCut(n, w), PhaseEnd(n, w)>>) :
     w \in {v \in 0 .. 9 : PhaseEnd(n, v) - PhaseCut(n, v) >= 2}}

\* online_learning_curve(): the model starts untrained and learns as it is evaluated.
OnlinePoints(n) ==
  {Division(<<0, 0>>, <<0, Max({2, (n * point) \div 10})>>) : point \in 1 .. 10}

Divisions(n) == {Split(n, percent) : percent \in TrainFractions} \cup Phases(n) \cup OnlinePoints(n)
================================================================================
