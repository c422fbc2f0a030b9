---------------------------- MODULE HorizonSimulator ----------------------------
(***************************************************************************)
(* simulate_horizon(): the second simulator over the same hierarchy, for   *)
(* predictions that aim several accesses ahead and for predictors whose    *)
(* look-ups and updates take time and turns.                               *)
(*                                                                         *)
(* One iteration of the loop is two steps: the demand access with the      *)
(* predictor's update, then the look-up and what it issues.  The trace's   *)
(* length is known beforehand, as it is to the code; predictions aimed     *)
(* past its end are skipped.  The predictor proposes anything.  Accuracy,  *)
(* lead times, slack and energy, which nothing here reads, are left out.   *)
(***************************************************************************)
EXTENDS PrefetchRequests, FiniteSets, Integers

CONSTANTS
  TOP_K,               \* predictions per look-up
  MaxHorizon,          \* bound on how far ahead a prediction aims
  ISSUE_COST,          \* prefetch_issue_cost
  COMPUTE,             \* compute_cycles_between_accesses
  LOOKUP, LOOKUP_INTERVAL, OVERLAP,
  QUEUE_DEPTHS,        \* values of predictor_queue_depth
  UPDATE, UPDATE_INTERVAL, BATCH,
  READ_PORTS,
  MaxLength            \* bound on the length of the trace

ASSUME HorizonAssumption ==
  /\ {TOP_K, ISSUE_COST, COMPUTE, LOOKUP, OVERLAP, UPDATE, MaxLength} \subseteq Nat
  /\ {MaxHorizon, LOOKUP_INTERVAL, UPDATE_INTERVAL, BATCH, READ_PORTS} \cup QUEUE_DEPTHS
       \subseteq Nat \ {0}

VARIABLES
  mode,         \* deferred_updates, predictor_parallel and predictor_queue_depth
  length,       \* len(lines)
  phase,        \* where the loop is: "demand", "lookup" or "done"
  index,        \* accesses made
  caches,       \* hierarchy
  pending,      \* outstanding requests in the order of issue
  prefetched,   \* completed requests that have not served a demand
  demanded,     \* demand_lines
  polluted,
  cycle,
  turns,        \* next_lookup_issue, next_update_issue, buffered_updates
  metrics

vars == <<mode, length, phase, index, caches, pending, prefetched, demanded, polluted,
          cycle, turns, metrics>>

MetricNames == {"requests", "duplicates", "dropped", "issued", "completed", "useful", "late",
                "unused", "pollution", "fully", "partially", "unhidden", "dram", "raw",
                "lateness", "overhead", "issue_cost", "queue_wait", "update_stalls",
                "port_stalls", "abandoned"}

Init ==
  /\ mode \in [deferred : BOOLEAN, parallel : BOOLEAN, queue_depth : QUEUE_DEPTHS]
  /\ length \in 1 .. MaxLength
  /\ phase = "demand"
  /\ index = 0
  /\ caches = Empty
  /\ pending = <<>>
  /\ prefetched = {}
  /\ demanded = {}
  /\ polluted = {}
  /\ cycle = 0
  /\ turns = [lookup |-> 0, update |-> 0, buffered |-> 0]
  /\ metrics = [m \in MetricNames |-> 0]

\* Mutation of Excess: no max(0, ...).
ExcessSigned(a, b) == a - b

\* max(0, a - b)
Excess(a, b) == IF a > b THEN a - b ELSE 0

----------------------------------------------------------------------------
(* The demand access.                                                      *)

Now == [caches |-> caches, pending |-> pending, prefetched |-> prefetched,
        demanded |-> demanded, polluted |-> polluted, metrics |-> metrics]

\* mark_evictions()
MarkEvictions(st, evicted) ==
  LET wasted == evicted \cap st.prefetched
  IN  [st EXCEPT !.prefetched = @ \ wasted,
                 !.demanded = @ \ (evicted \ wasted),
                 !.polluted = @ \cup wasted,
                 !.metrics.unused = @ + Cardinality(wasted)]

\* One request of complete_ready().
Complete(st, r) ==
  MarkEvictions(
    [st EXCEPT !.pending = Popped(@, r.line),
               !.metrics.completed = @ + 1,
               !.caches = AfterPrefetch(@, r.line, DESTINATION),
               !.prefetched = @ \cup {r.line}],
    PrefetchEvicts(st.caches, r.line, DESTINATION))

\* The list of ready requests is taken before the first of them completes.
CompleteReady(st, now) ==
  LET after[i \in 0 .. Len(st.pending)] ==
        IF i = 0 THEN st
        ELSE IF st.pending[i].ready <= now THEN Complete(after[i - 1], st.pending[i])
        ELSE after[i - 1]
  IN  after[Len(st.pending)]

\* -slack: the cycles a demand of line waits for its own outstanding request.
Wait(st, line, now) ==
  LET own == {r \in SE!ToSet(st.pending) : r.line = line}
  IN  IF own = {} THEN 0 ELSE Excess((CHOOSE r \in own : TRUE).ready, now)

\* Mutation of Classified: whatever hides something counts as fully hidden too.
ClassifiedTwice(s, line, level, wait) ==
  LET hidden == Excess(LATENCY[DRAM], wait + LATENCY[level])
      missed == level = DRAM \/ line \in s.polluted
  IN  IF line \in s.prefetched
        THEN [s EXCEPT !.prefetched = @ \ {line},
                       !.metrics.useful = @ + 1,
                       !.metrics.fully = @ + One(hidden > 0),
                       !.metrics.partially = @ + One(wait > 0 /\ hidden > 0),
                       !.metrics.unhidden = @ + One(wait > 0 /\ hidden = 0)]
        ELSE [s EXCEPT !.polluted = @ \ {line},
                       !.metrics.pollution = @ + One(line \in s.polluted),
                       !.metrics.unhidden = @ + One(missed)]

\* Useful, polluting, or plain miss: the order of the tests is the code's.
Classified(s, line, level, wait) ==
  LET hidden == Excess(LATENCY[DRAM], wait + LATENCY[level])
      missed == level = DRAM \/ line \in s.polluted
  IN  IF line \in s.prefetched
        THEN [s EXCEPT !.prefetched = @ \ {line},
                       !.metrics.useful = @ + 1,
                       !.metrics.fully = @ + One(wait = 0),
                       !.metrics.partially = @ + One(wait > 0 /\ hidden > 0),
                       !.metrics.unhidden = @ + One(wait > 0 /\ hidden = 0)]
        ELSE [s EXCEPT !.polluted = @ \ {line},
                       !.metrics.pollution = @ + One(line \in s.polluted),
                       !.metrics.unhidden = @ + One(missed)]

Demanded(st, line, wait) ==
  LET level == LevelOf(st.caches, line)
      accessed == MarkEvictions([st EXCEPT !.caches = AfterAccess(@, line)],
                                AccessEvicts(st.caches, line))
  IN  [Classified(accessed, line, level, wait) EXCEPT
        !.demanded = @ \cup {line},
        !.metrics.late = @ + One(wait > 0),
        !.metrics.lateness = @ + wait,
        !.metrics.raw = @ + LATENCY[level],
        !.metrics.dram = @ + One(level = DRAM)]

\* The predictor's update after an access that ends at now: at once, in turn,
\* or buffered and paid for once per batch.
Stall(now) == IF mode.deferred THEN 0 ELSE Excess(turns.update, now)

Flushes == mode.deferred /\ turns.buffered + 1 >= BATCH

UpdateCost == IF ~mode.deferred \/ Flushes THEN UPDATE ELSE 0

UpdateTurns(now) ==
  IF mode.deferred
    THEN [turns EXCEPT !.buffered = IF Flushes THEN 0 ELSE @ + 1]
    ELSE [turns EXCEPT !.update = now + Stall(now) + UPDATE_INTERVAL]

Demand(line) ==
  LET ready == CompleteReady(Now, cycle)
      wait == Wait(ready, line, cycle)
      served == CompleteReady(ready, cycle + wait)
      st == Demanded(served, line, wait)
      now == cycle + wait + LATENCY[LevelOf(served.caches, line)]
  IN  /\ phase = "demand"
      /\ index < length
      /\ caches' = st.caches
      /\ pending' = st.pending
      /\ prefetched' = st.prefetched
      /\ demanded' = st.demanded
      /\ polluted' = st.polluted
      /\ cycle' = now + Stall(now) + UpdateCost
      /\ turns' = UpdateTurns(now)
      /\ metrics' = [st.metrics EXCEPT !.update_stalls = @ + One(Stall(now) > 0),
                                       !.overhead = @ + UpdateCost]
      /\ index' = index + 1
      /\ phase' = "lookup"
      /\ UNCHANGED <<mode, length>>

----------------------------------------------------------------------------
(* The look-up, and the requests it issues.                                *)

\* A parallel look-up that does not fit the queue is abandoned.
Occupancy ==
  LET stages == (LOOKUP + LOOKUP_INTERVAL - 1) \div LOOKUP_INTERVAL
  IN  IF stages > 1 THEN stages ELSE 1

Abandoned == mode.parallel /\ Occupancy > mode.queue_depth

EffectiveLookup == IF mode.parallel THEN Excess(LOOKUP, OVERLAP) ELSE LOOKUP

\* Mutation of Propose: neither the caches nor what they were given are asked.
ProposeBlindly(st, line) ==
  LET asked == [st EXCEPT !.metrics.requests = @ + 1]
  IN  IF Requested(st.pending, line)
        THEN [asked EXCEPT !.metrics.duplicates = @ + 1]
      ELSE IF Len(st.pending) >= MAX_OUTSTANDING
        THEN [asked EXCEPT !.metrics.dropped = @ + 1]
      ELSE [asked EXCEPT
             !.pending = Append(@, [line |-> line, ready |-> st.cycle + LATENCY[DRAM]]),
             !.metrics.issued = @ + 1,
             !.metrics.issue_cost = @ + ISSUE_COST,
             !.cycle = @ + ISSUE_COST]

\* One valid prediction: duplicate, dropped or issued.
Propose(st, line) ==
  LET asked == [st EXCEPT !.metrics.requests = @ + 1]
  IN  IF Requested(st.pending, line) \/ line \in prefetched \/ Contains(caches, line)
        THEN [asked EXCEPT !.metrics.duplicates = @ + 1]
      ELSE IF Len(st.pending) >= MAX_OUTSTANDING
        THEN [asked EXCEPT !.metrics.dropped = @ + 1]
      ELSE [asked EXCEPT
             !.pending = Append(@, [line |-> line, ready |-> st.cycle + LATENCY[DRAM]]),
             !.metrics.issued = @ + 1,
             !.metrics.issue_cost = @ + ISSUE_COST,
             !.cycle = @ + ISSUE_COST]

Proposed(st, predictions) ==
  LET after[i \in 0 .. Len(predictions)] ==
        IF i = 0 THEN st ELSE Propose(after[i - 1], predictions[i].line)
  IN  after[Len(predictions)]

\* What is kept of the predictions made after access index - 1.
Valid(predictions) ==
  LET kept[i \in 0 .. Len(predictions)] ==
        IF i = 0 THEN <<>>
        ELSE IF index - 1 + predictions[i].horizon < length
          THEN Append(kept[i - 1], predictions[i])
        ELSE kept[i - 1]
  IN  IF Abandoned THEN <<>> ELSE kept[Len(predictions)]

\* Mutation of Lookup: the wait for the look-up's turn is not recorded.
LookupUnrecorded(predictions) ==
  LET wait == Excess(turns.lookup, cycle)
      valid == Valid(predictions)
      start == [pending |-> pending, cycle |-> cycle + wait + EffectiveLookup,
                metrics |-> [metrics EXCEPT !.overhead = @ + EffectiveLookup,
                                            !.abandoned = @ + One(Abandoned)]]
      st == Proposed(start, valid)
      portStall == Excess(Len(valid), READ_PORTS)
  IN  /\ phase = "lookup"
      /\ turns' = [turns EXCEPT !.lookup = cycle + wait + LOOKUP_INTERVAL]
      /\ pending' = st.pending
      /\ metrics' = [st.metrics EXCEPT !.port_stalls = @ + portStall]
      /\ cycle' = st.cycle + portStall + COMPUTE
      /\ phase' = "demand"
      /\ UNCHANGED <<mode, length, index, caches, prefetched, demanded, polluted>>

Lookup(predictions) ==
  LET wait == Excess(turns.lookup, cycle)
      valid == Valid(predictions)
      start == [pending |-> pending, cycle |-> cycle + wait + EffectiveLookup,
                metrics |-> [metrics EXCEPT !.overhead = @ + EffectiveLookup,
                                            !.queue_wait = @ + wait,
                                            !.abandoned = @ + One(Abandoned)]]
      st == Proposed(start, valid)
      portStall == Excess(Len(valid), READ_PORTS)
  IN  /\ phase = "lookup"
      /\ turns' = [turns EXCEPT !.lookup = cycle + wait + LOOKUP_INTERVAL]
      /\ pending' = st.pending
      /\ metrics' = [st.metrics EXCEPT !.port_stalls = @ + portStall]
      /\ cycle' = st.cycle + portStall + COMPUTE
      /\ phase' = "demand"
      /\ UNCHANGED <<mode, length, index, caches, prefetched, demanded, polluted>>

\* Mutation of Finish: requests still outstanding are forgotten.
FinishForgets ==
  LET flush == IF mode.deferred /\ turns.buffered > 0 THEN UPDATE ELSE 0
  IN  /\ phase = "demand"
      /\ index = length
      /\ cycle' = cycle + flush
      /\ metrics' = [metrics EXCEPT !.overhead = @ + flush,
                                    !.unused = @ + Cardinality(prefetched)]
      /\ phase' = "done"
      /\ UNCHANGED <<mode, length, index, caches, pending, prefetched, demanded, polluted, turns>>

\* After the loop: the last batch of updates, and what never served a demand.
Finish ==
  LET flush == IF mode.deferred /\ turns.buffered > 0 THEN UPDATE ELSE 0
  IN  /\ phase = "demand"
      /\ index = length
      /\ cycle' = cycle + flush
      /\ metrics' = [metrics EXCEPT
                       !.overhead = @ + flush,
                       !.unused = @ + Len(pending) + Cardinality(prefetched)]
      /\ phase' = "done"
      /\ UNCHANGED <<mode, length, index, caches, pending, prefetched, demanded, polluted, turns>>

Prediction == [line : Address, horizon : 1 .. MaxHorizon]

Predictions == UNION {[1 .. k -> Prediction] : k \in 0 .. TOP_K}

Next ==
  \/ \E line \in Address : Demand(line)
  \/ \E predictions \in Predictions : Lookup(predictions)
  \/ Finish

Spec == Init /\ [][Next]_vars

----------------------------------------------------------------------------
\* Type invariant.
TypeOK ==
  /\ mode \in [deferred : BOOLEAN, parallel : BOOLEAN, queue_depth : QUEUE_DEPTHS]
  /\ length \in 1 .. MaxLength
  /\ phase \in {"demand", "lookup", "done"}
  /\ index \in 0 .. length
  /\ caches \in [Level -> Seq(Address)]
  /\ pending \in Seq(Request)
  /\ prefetched \subseteq Address
  /\ demanded \subseteq Address
  /\ polluted \subseteq Address
  /\ cycle \in Nat
  /\ turns \in [lookup : Nat, update : Nat, buffered : 0 .. BATCH - 1]
  /\ metrics \in [MetricNames -> Nat]

\* Where a line may be: no request is outstanding for a cached line, a
\* prefetched line that has not served yet is at its destination and nowhere
\* else, and a line known as demanded is cached and is none of these.
Placed(st) ==
  /\ \A l \in Level : LET cached == SE!ToSet(st.caches[l])
                     IN  /\ cached \cap Lines(st.pending) = {}
                         /\ l # DESTINATION => cached \cap st.prefetched = {}
  /\ st.prefetched \subseteq SE!ToSet(st.caches[DESTINATION])
  /\ st.demanded \subseteq SE!ToSet(st.caches[1]) \ st.prefetched
  /\ Len(st.pending) = Cardinality(Lines(st.pending))
  /\ Len(st.pending) <= MAX_OUTSTANDING

\* The same line may be predicted for several horizons of one look-up, and
\* requests for it complete together: every line stays in its place.
LinesPlaced == Placed(Now)

\* Every prefetch is accounted for once: still outstanding, or completed and then
\* useful, wasted or still waiting for its demand.
PrefetchesAccounted ==
  LET m == metrics
      alive == IF phase = "done" THEN 0 ELSE Len(pending) + Cardinality(prefetched)
  IN  /\ m.requests = m.duplicates + m.dropped + m.issued
      /\ m.issued = m.completed + Len(pending)
      /\ m.issued = m.useful + m.unused + alive

\* Every DRAM access is one unhidden miss, and nothing else is but a pollution
\* miss or a prefetch so late that it hid nothing; useful prefetches are fully
\* hidden, partially hidden, or such.
MissesClassified ==
  LET m == metrics
      hidNothing == m.useful - m.fully - m.partially
  IN  /\ hidNothing \in 0 .. m.late
      /\ m.unhidden >= m.dram + hidNothing
      /\ m.unhidden <= m.dram + hidNothing + m.pollution
      /\ m.useful + m.unhidden - hidNothing <= index

\* A pollution miss is pollution: each is a distinct earlier eviction of a
\* prefetched line.
PollutionAccounted ==
  metrics.pollution + Cardinality(polluted) <= metrics.unused

\* The counters of the report balance: each prefetch has one fate and each
\* pollution miss its eviction.
CountersAccounted ==
  /\ PrefetchesAccounted
  /\ PollutionAccounted

\* The clock is attributed: every cycle is memory latency, lateness, predictor
\* work, issue cost, a recorded wait or a compute gap; the only cycles that no
\* metric records are those an update waits for its turn.
ClockAttributed ==
  LET m == metrics
      looked == IF phase = "lookup" THEN index - 1 ELSE index
      recorded == m.raw + m.lateness + m.overhead + m.issue_cost + m.queue_wait
                    + m.port_stalls + looked * COMPUTE
  IN  IF m.update_stalls = 0 THEN cycle = recorded ELSE cycle > recorded
================================================================================
