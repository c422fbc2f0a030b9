------------------------------- MODULE Simulator -------------------------------
(***************************************************************************)
(* simulate(): a trace of demand accesses replayed through the hierarchy,  *)
(* with prefetches that take time, arrive late, and push lines out.        *)
(*                                                                         *)
(* One iteration of the loop is two steps: the demand access, then the     *)
(* predictions it gives rise to.  What the predictor proposes is any list  *)
(* of up to TOP_K lines.  The control run without prefetches, which the    *)
(* code computes beforehand, advances in step with the trace.  Prediction  *)
(* accuracy and lookup diagnostics, which nothing here reads, are left out.*)
(***************************************************************************)
EXTENDS PrefetchRequests, FiniteSets, Integers

CONSTANTS
  TOP_K,
  ISSUE_COST, LOOKUP_COST, UPDATE_COST,
  MaxAccesses        \* bound on the length of the trace

ASSUME SimulatorAssumption ==
  {TOP_K, ISSUE_COST, LOOKUP_COST, UPDATE_COST, MaxAccesses} \subseteq Nat

VARIABLES
  phase,       \* where the loop is: "demand", "predict" or "done"
  caches,      \* hierarchy
  control,     \* baseline_hierarchy
  pending,     \* outstanding requests in the order of issue
  prefetched,  \* prefetched_resident
  demanded,    \* demand_resident
  polluted,    \* polluted_lines
  cycle,
  metrics

vars == <<phase, caches, control, pending, prefetched, demanded, polluted, cycle, metrics>>

MetricNames == {"accesses", "requests", "duplicates", "dropped", "issued", "completed",
                "useful", "late", "unused", "evictions", "pollution", "saved",
                "dram", "baseline_dram", "incorrect_cost"}

\* The context may be seeded, in which case predictions come before the trace.
Init ==
  /\ phase \in {"demand", "predict"}
  /\ caches = Empty
  /\ control = Empty
  /\ pending = <<>>
  /\ prefetched = {}
  /\ demanded = {}
  /\ polluted = {}
  /\ cycle = 0
  /\ metrics = [m \in MetricNames |-> 0]

Now == [caches |-> caches, pending |-> pending, prefetched |-> prefetched,
        demanded |-> demanded, polluted |-> polluted, metrics |-> metrics]

----------------------------------------------------------------------------
\* _mark_evictions()
MarkEvictions(st, evicted) ==
  LET wasted == evicted \cap st.prefetched
      lost == (evicted \ st.prefetched) \cap st.demanded
  IN  [st EXCEPT
        !.prefetched = @ \ wasted,
        !.demanded = @ \ lost,
        !.polluted = @ \cup wasted,
        !.metrics.unused = @ + Cardinality(wasted),
        !.metrics.evictions = @ + Cardinality(lost)]

\* One request of complete_ready().
Complete(st, r) ==
  MarkEvictions(
    [st EXCEPT !.pending = Popped(@, r.line),
               !.metrics.completed = @ + 1,
               !.caches = AfterPrefetch(@, r.line, DESTINATION),
               !.prefetched = @ \cup {r.line}],
    PrefetchEvicts(st.caches, r.line, DESTINATION))

\* The list of ready requests is taken before the first of them completes.
CompleteReady(st, now) ==
  LET after[i \in 0 .. Len(st.pending)] ==
        IF i = 0 THEN st
        ELSE IF st.pending[i].ready <= now THEN Complete(after[i - 1], st.pending[i])
        ELSE after[i - 1]
  IN  after[Len(st.pending)]

\* The cycles a demand of line waits for its own outstanding prefetch.
Wait(st, line, now) ==
  LET own == {r \in SE!ToSet(st.pending) : r.line = line}
  IN  IF own = {} THEN 0
      ELSE LET r == CHOOSE r \in own : TRUE
           IN  IF r.ready > now THEN r.ready - now ELSE 0

\* Mutation of Saving: no max(0, ...).
SavingUnclamped(level, wait) == LATENCY[DRAM] - (LATENCY[level] + wait)

\* The latency a useful prefetch saved.
Saving(level, wait) ==
  IF LATENCY[level] + wait < LATENCY[DRAM] THEN LATENCY[DRAM] - (LATENCY[level] + wait)
  ELSE 0

\* polluted_lines after a demand: a DRAM access settles the line's pollution.
Repaid(lines, line, level) == IF level = DRAM THEN lines \ {line} ELSE lines

\* The demand access itself, once the prefetches have been completed.
Demanded(st, line, wait) ==
  LET level == LevelOf(st.caches, line)
      s == MarkEvictions([st EXCEPT !.caches = AfterAccess(@, line)],
                         AccessEvicts(st.caches, line))
      serves == line \in s.prefetched
      counted == [s.metrics EXCEPT
                   !.accesses = @ + 1,
                   !.late = @ + One(wait > 0),
                   !.dram = @ + One(level = DRAM),
                   !.pollution = @ + One(line \in s.polluted /\ level = DRAM),
                   !.useful = @ + One(serves),
                   !.saved = IF serves THEN @ + Saving(level, wait) ELSE @,
                   !.baseline_dram = @ + One(LevelOf(control, line) = DRAM)]
  IN  [s EXCEPT !.polluted = Repaid(@, line, level),
                !.demanded = @ \cup {line},
                !.prefetched = @ \ {line},
                !.metrics = counted]

Become(st) ==
  /\ caches' = st.caches
  /\ pending' = st.pending
  /\ prefetched' = st.prefetched
  /\ demanded' = st.demanded
  /\ polluted' = st.polluted
  /\ metrics' = st.metrics

\* Mutation of Demand: the prefetch that was waited for is not completed.
DemandImpatient(line) ==
  LET ready == CompleteReady(Now, cycle)
      wait == Wait(ready, line, cycle)
  IN  /\ phase = "demand"
      /\ metrics.accesses < MaxAccesses
      /\ Become(Demanded(ready, line, wait))
      /\ control' = AfterAccess(control, line)
      /\ cycle' = cycle + wait + LATENCY[LevelOf(ready.caches, line)] + UPDATE_COST
      /\ phase' = "predict"

\* The loop body up to the predictor's update.
Demand(line) ==
  LET ready == CompleteReady(Now, cycle)
      wait == Wait(ready, line, cycle)
      served == IF wait > 0 THEN CompleteReady(ready, cycle + wait) ELSE ready
  IN  /\ phase = "demand"
      /\ metrics.accesses < MaxAccesses
      /\ Become(Demanded(served, line, wait))
      /\ control' = AfterAccess(control, line)
      /\ cycle' = cycle + wait + LATENCY[LevelOf(served.caches, line)] + UPDATE_COST
      /\ phase' = "predict"

\* Mutation of Propose: the caches are not asked.
ProposeBlindly(st, line) ==
  LET asked == [st EXCEPT !.metrics.requests = @ + 1]
  IN  IF Requested(st.pending, line)
        THEN [asked EXCEPT !.metrics.duplicates = @ + 1]
      ELSE IF Len(st.pending) >= MAX_OUTSTANDING
        THEN [asked EXCEPT !.metrics.dropped = @ + 1]
      ELSE [asked EXCEPT
             !.pending = Append(@, [line |-> line, ready |-> st.cycle + LATENCY[DRAM]]),
             !.metrics.issued = @ + 1,
             !.cycle = @ + ISSUE_COST]

\* One prediction of prepare_predictions(): duplicate, dropped or issued.
Propose(st, line) ==
  LET asked == [st EXCEPT !.metrics.requests = @ + 1]
  IN  IF Requested(st.pending, line) \/ line \in st.prefetched \/ Contains(st.caches, line)
        THEN [asked EXCEPT !.metrics.duplicates = @ + 1]
      ELSE IF Len(st.pending) >= MAX_OUTSTANDING
        THEN [asked EXCEPT !.metrics.dropped = @ + 1]
      ELSE [asked EXCEPT
             !.pending = Append(@, [line |-> line, ready |-> st.cycle + LATENCY[DRAM]]),
             !.metrics.issued = @ + 1,
             !.cycle = @ + ISSUE_COST]

Proposed(st, predictions) ==
  LET after[i \in 0 .. Len(predictions)] ==
        IF i = 0 THEN st ELSE Propose(after[i - 1], predictions[i])
  IN  after[Len(predictions)]

\* prepare_predictions(), called when another access follows.
Prepare(predictions) ==
  LET start == [pending |-> pending, prefetched |-> prefetched, caches |-> caches,
                metrics |-> metrics, cycle |-> cycle + LOOKUP_COST]
      st == Proposed(start, predictions)
  IN  /\ phase = "predict"
      /\ metrics.accesses < MaxAccesses
      /\ pending' = st.pending
      /\ metrics' = st.metrics
      /\ cycle' = st.cycle
      /\ phase' = "demand"
      /\ UNCHANGED <<caches, control, prefetched, demanded, polluted>>

\* Mutation of Finish: prefetched lines that were never demanded are forgotten.
FinishForgets ==
  /\ phase \in {"demand", "predict"}
  /\ phase = "demand" => metrics.accesses = 0
  /\ metrics' = [metrics EXCEPT !.unused = @ + Len(pending),
                                !.incorrect_cost = @ + Len(pending) * ISSUE_COST]
  /\ phase' = "done"
  /\ UNCHANGED <<caches, control, pending, prefetched, demanded, polluted, cycle>>

\* After the last access: what never served a demand is waste.
Finish ==
  LET left == Len(pending) + Cardinality(prefetched)
  IN  /\ phase \in {"demand", "predict"}
      /\ phase = "demand" => metrics.accesses = 0
      /\ metrics' = [metrics EXCEPT !.unused = @ + left,
                                    !.incorrect_cost = @ + left * ISSUE_COST]
      /\ phase' = "done"
      /\ UNCHANGED <<caches, control, pending, prefetched, demanded, polluted, cycle>>

Predictions == {p \in UNION {[1 .. k -> Address] : k \in 0 .. TOP_K} :
                  \A i, j \in DOMAIN p : p[i] = p[j] => i = j}

Next ==
  \/ \E line \in Address : Demand(line)
  \/ \E predictions \in Predictions : Prepare(predictions)
  \/ Finish

Spec == Init /\ [][Next]_vars

----------------------------------------------------------------------------
\* Type invariant.
TypeOK ==
  /\ phase \in {"demand", "predict", "done"}
  /\ caches \in [Level -> Seq(Address)]
  /\ control \in [Level -> Seq(Address)]
  /\ pending \in Seq(Request)
  /\ prefetched \subseteq Address
  /\ demanded \subseteq Address
  /\ polluted \subseteq Address
  /\ cycle \in Nat
  /\ metrics \in [MetricNames -> Nat]

\* Where a line may be: no request is outstanding for a cached line, a
\* prefetched line that has not served yet is at its destination and nowhere
\* else, and the demanded lines are in L1 and are none of these.
Placed(st) ==
  /\ \A l \in Level : LET cached == SE!ToSet(st.caches[l])
                     IN  /\ cached \cap Lines(st.pending) = {}
                         /\ l # DESTINATION => cached \cap st.prefetched = {}
                         /\ Len(st.caches[l]) = Cardinality(cached)
                         /\ Len(st.caches[l]) <= CAPACITY[l]
  /\ st.prefetched \subseteq SE!ToSet(st.caches[DESTINATION])
  /\ st.demanded \subseteq SE!ToSet(st.caches[1]) \ st.prefetched
  /\ Len(st.pending) = Cardinality(Lines(st.pending))
  /\ Len(st.pending) <= MAX_OUTSTANDING

\* Late arrivals, simultaneous completions and evictions by either side keep
\* every line in its place.
LinesPlaced == Placed(Now)

\* Every prefetch is accounted for once: still outstanding, or completed and then
\* useful, wasted or still waiting for its demand.
PrefetchesAccounted ==
  LET m == metrics
      alive == IF phase = "done" THEN 0 ELSE Len(pending) + Cardinality(prefetched)
  IN  /\ m.requests = m.duplicates + m.dropped + m.issued
      /\ m.issued = m.completed + Len(pending)
      /\ m.issued = m.useful + m.unused + alive

\* A polluting miss was pollution: each one is a distinct earlier eviction of a
\* prefetched line.
PollutionAccounted ==
  metrics.pollution + Cardinality(polluted) <= metrics.unused

\* The run differs from its control only through prefetches: before the first one
\* completes, the caches and the DRAM accesses are those of the control.
ControlAgrees ==
  metrics.completed = 0 => caches = control /\ metrics.dram = metrics.baseline_dram

\* The counters of the report balance: each prefetch has one fate, each polluting
\* miss its eviction, and a run without completed prefetches is its control.
CountersAccounted ==
  /\ PrefetchesAccounted
  /\ PollutionAccounted
  /\ ControlAgrees

\* A demand that waits for its outstanding prefetch is then served by it, and no
\* useful prefetch is served from DRAM; a destination at least as large as the
\* number of outstanding requests is what this needs.
WaitingPays ==
  [][/\ metrics'.late > metrics.late => metrics'.useful = metrics.useful + 1
     /\ metrics'.useful > metrics.useful => metrics'.dram = metrics.dram]_vars
================================================================================
