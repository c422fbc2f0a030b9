---------------------------- MODULE HorizonSimulatorProofs ----------------------------
(***************************************************************************)
(* The horizon simulator keeps every line in its place, gives each         *)
(* prefetch one fate and each unhidden miss one cause, and attributes      *)
(* every cycle of its clock, for any hierarchy, predictor, costs and       *)
(* limits, and traces of any length.                                       *)
(***************************************************************************)
EXTENDS HorizonSimulator, StorageProofs

\* The states of the loop, whose counters are the simulator's own.
States == State(MetricNames)

\* The state of the simulator, by field.
LEMMA StatesAre ==
  \A st : st \in States <=>
    st \in [caches : Hierarchies, pending : {q \in Seq(Request) : OneEach(q)},
           prefetched : SUBSET Address, demanded : SUBSET Address,
           polluted : SUBSET Address, metrics : [MetricNames -> Nat]]
BY DEF States, State

\* The simulator keeps the counters of the ledger.
LEMMA LedgerKept == Ledger \subseteq MetricNames
BY DEF Ledger, MetricNames

\* mark_evictions()
LEMMA MarkEvictionsIs ==
  ASSUME NEW st \in States, NEW E, IsFiniteSet(E)
  PROVE  Marked(MetricNames, MarkEvictions(st, E), st, E)
<1> DEFINE wasted == E \cap st.prefetched
           m == MarkEvictions(st, E)
           mm == [st.metrics EXCEPT !["unused"] = @ + Cardinality(wasted)]
<1>1. IsFiniteSet(wasted) /\ Cardinality(wasted) \in Nat
  BY FS_Subset, FS_CardinalityType
<1>2. E \ wasted = E \ st.prefetched
  OBVIOUS
<1>3. m = [st EXCEPT !.prefetched = @ \ wasted,
                     !.demanded = @ \ (E \ wasted),
                     !.polluted = @ \cup wasted,
                     !.metrics = mm]
  BY DEF MarkEvictions
<1>4. /\ mm \in [MetricNames -> Nat]
      /\ mm["unused"] = st.metrics["unused"] + Cardinality(wasted)
      /\ \A n \in MetricNames \ {"unused"} : mm[n] = st.metrics[n]
  <2> HIDE DEF wasted
  <2>1. st.metrics \in [MetricNames -> Nat]
    BY DEF States, State
  <2> QED BY <1>1, <2>1 DEF MetricNames
<1> HIDE DEF mm
<1>5. /\ m \in States
      /\ m.caches = st.caches
      /\ m.pending = st.pending
      /\ m.prefetched = st.prefetched \ wasted
      /\ m.demanded = st.demanded \ (E \ wasted)
      /\ m.polluted = st.polluted \cup wasted
      /\ m.metrics = mm
  <2> HIDE DEF m
  <2> QED BY <1>3, <1>4 DEF States, State
<1> HIDE DEF m
<1> QED BY <1>1, <1>2, <1>4, <1>5 DEF m, Marked, States

\* One request of complete_ready()
LEMMA CompleteIs ==
  ASSUME NEW st \in States, NEW r \in Request
  PROVE  Completed(MetricNames, Complete(st, r), st, r)
<1> DEFINE E == PrefetchEvicts(st.caches, r.line, DESTINATION)
           mm == [st.metrics EXCEPT !["completed"] = @ + 1]
           b == [st EXCEPT !.pending = Popped(@, r.line),
                           !.metrics = mm,
                           !.caches = AfterPrefetch(@, r.line, DESTINATION),
                           !.prefetched = @ \cup {r.line}]
<1>1. r.line \in Address /\ DESTINATION \in Level /\ st.caches \in Hierarchies
  BY RequestsAssumption DEF Request, States, State
<1>2. AfterPrefetch(st.caches, r.line, DESTINATION) \in Hierarchies /\ IsFiniteSet(E)
  BY <1>1, PrefetchIs
<1>3. Popped(st.pending, r.line) \in {q \in Seq(Request) : OneEach(q)}
  BY PoppedIs DEF States, State
<1>4. /\ mm \in [MetricNames -> Nat]
      /\ mm["completed"] = st.metrics["completed"] + 1
      /\ \A n \in MetricNames \ {"completed"} : mm[n] = st.metrics[n]
  <2>1. st.metrics \in [MetricNames -> Nat]
    BY DEF States, State
  <2> QED BY <2>1 DEF MetricNames
<1>5. Complete(st, r) = MarkEvictions(b, E)
  BY DEF Complete
<1> HIDE DEF E, mm
<1>6. /\ b \in States
      /\ b.caches = AfterPrefetch(st.caches, r.line, DESTINATION)
      /\ b.pending = Popped(st.pending, r.line)
      /\ b.prefetched = st.prefetched \cup {r.line}
      /\ b.demanded = st.demanded
      /\ b.polluted = st.polluted
      /\ b.metrics = mm
  BY <1>1, <1>2, <1>3, <1>4 DEF States, State
<1> HIDE DEF b
<1> DEFINE c == MarkEvictions(b, E)
<1>6a. b \in States /\ IsFiniteSet(E)
  BY <1>2, <1>6
<1>7. Marked(MetricNames, c, b, E)
  BY <1>6a, MarkEvictionsIs
<1> HIDE DEF c
<1>8. /\ c.metrics["completed"] = st.metrics["completed"] + 1
      /\ c.metrics["unused"] = st.metrics["unused"] + Cardinality(E \cap b.prefetched)
      /\ \A n \in MetricNames \ Touchable : c.metrics[n] = st.metrics[n]
  BY <1>4, <1>6, <1>7 DEF MetricNames, Touchable, Marked
<1> QED BY <1>5, <1>6, <1>7, <1>8 DEF c, E, Marked, Completed, States

----------------------------------------------------------------------------
(* complete_ready()                                                        *)

\* complete_ready() completes all requests that are due, and no other.
LEMMA CompleteReadyIs ==
  ASSUME NEW st \in States, Where(st), NEW now \in Nat
  PROVE  Readied(MetricNames, CompleteReady(st, now), st, now)
<1> DEFINE q == st.pending
           n == Len(q)
           Next1(s, i) == IF q[i].ready <= now THEN Complete(s, q[i]) ELSE s
           after == CHOOSE f : f = [i \in 0 .. n |-> IF i = 0 THEN st ELSE
                                      IF q[i].ready <= now THEN Complete(f[i - 1], q[i])
                                      ELSE f[i - 1]]
           step == [p \in States \X (1 .. n) |-> Next1(p[1], p[2])]
<1>1. /\ n \in Nat /\ DOMAIN q = 1 .. n /\ OneEach(q)
      /\ \A i \in 1 .. n : q[i] \in Request
  BY DEF States, State
<1>2. CompleteReady(st, now) = after[n]
  BY DEF CompleteReady
<1> HIDE DEF q, n
<1>3. \A s \in States, i \in 1 .. n : Next1(s, i) \in States
  BY <1>1, CompleteIs DEF Completed, States
<1>4. after = [i \in 0 .. n |-> IF i = 0 THEN st ELSE Next1(after[i - 1], i)]
  <2>1. step \in [States \X (1 .. n) -> States]
    <3> HIDE DEF Next1
    <3> QED BY <1>3
  <2>2. \A s \in States, i \in 1 .. n : step[<<s, i>>] = Next1(s, i)
    OBVIOUS
  <2> HIDE DEF step, Next1
  <2>3. PICK f \in [0 .. n -> States] : Recurs(f, n, st, step)
    BY <1>1, <2>1, RecursionExists
  <2>4. f = [i \in 0 .. n |-> IF i = 0 THEN st ELSE Next1(f[i - 1], i)]
    <3>1. ASSUME NEW i \in 1 .. n PROVE f[i] = Next1(f[i - 1], i)
      <4>1. i - 1 \in 0 .. n
        BY <1>1
      <4> QED BY <2>2, <2>3, <4>1 DEF Recurs
    <3>2. f[0] = st
      BY <2>3 DEF Recurs
    <3> QED BY <1>1, <3>1, <3>2
  <2> QED BY <2>4 DEF Next1
<1> HIDE DEF after, step
<1>5. after[0] = st
  BY <1>1, <1>4
<1>6. ASSUME NEW i \in 1 .. n, after[i - 1] \in States
      PROVE  IF q[i].ready <= now THEN Completed(MetricNames, after[i], after[i - 1], q[i])
             ELSE after[i] = after[i - 1]
  <2>1. after[i] = Next1(after[i - 1], i) /\ q[i] \in Request
    BY <1>1, <1>4
  <2>2. Completed(MetricNames, Complete(after[i - 1], q[i]), after[i - 1], q[i])
    BY <1>6, <2>1, CompleteIs
  <2> QED BY <2>1, <2>2
<1>7. Readied(MetricNames, after[n], st, now)
  BY <1>5, <1>6, ReadyIs, LedgerKept DEF q, n, States
<1> QED BY <1>2, <1>7

----------------------------------------------------------------------------
(* The demand access.                                                      *)

\* The latencies are numbers, and so is what one exceeds another by.
LEMMA LatenciesAre ==
  /\ \A l \in Level \cup {DRAM} : LATENCY[l] \in Nat
  /\ LATENCY[DRAM] \in Nat
  /\ \A a, b \in Nat : Excess(a, b) \in Nat
BY HierarchyAssumption DEF Excess

\* What the tests of a demand access make of a state: a line that a prefetch
\* brought serves, any other line pays for the pollution it is part of.
Tested(c, s, line, level, wait) ==
  LET serves == line \in s.prefetched
      hidden == Excess(LATENCY[DRAM], wait + LATENCY[level])
      k == c.metrics
      m == s.metrics
  IN  /\ c \in States
      /\ c.caches = s.caches /\ c.pending = s.pending /\ c.demanded = s.demanded
      /\ c.prefetched = s.prefetched \ {line}
      /\ c.polluted = IF ~ serves THEN s.polluted \ {line} ELSE s.polluted
      /\ k["useful"] = m["useful"] + One(serves)
      /\ k["pollution"] = m["pollution"] + One(~ serves /\ line \in s.polluted)
      /\ k["fully"] = m["fully"] + One(serves /\ wait = 0)
      /\ k["partially"] = m["partially"] + One(serves /\ wait > 0 /\ hidden > 0)
      /\ k["unhidden"] = m["unhidden"] + One(
              (serves /\ wait > 0 /\ hidden = 0)
                \/ (~ serves /\ (level = DRAM \/ line \in s.polluted)))
      /\ \A n \in MetricNames \ {"useful", "pollution", "fully", "partially", "unhidden"} :
           k[n] = m[n]

\* The tests do that.
LEMMA ClassifiedIs ==
  ASSUME NEW s \in States, NEW line \in Address, NEW level \in Level \cup {DRAM}, NEW wait \in Nat
  PROVE  Tested(Classified(s, line, level, wait), s, line, level, wait)
<1> DEFINE hidden == Excess(LATENCY[DRAM], wait + LATENCY[level])
           missed == level = DRAM \/ line \in s.polluted
           c == Classified(s, line, level, wait)
           served == [s.metrics EXCEPT
                       !["useful"] = @ + 1,
                       !["fully"] = @ + One(wait = 0),
                       !["partially"] = @ + One(wait > 0 /\ hidden > 0),
                       !["unhidden"] = @ + One(wait > 0 /\ hidden = 0)]
           other == [s.metrics EXCEPT
                       !["pollution"] = @ + One(line \in s.polluted),
                       !["unhidden"] = @ + One(missed)]
<1>1. s.metrics \in [MetricNames -> Nat]
  BY DEF States, State
<1>2. One(TRUE) = 1 /\ One(FALSE) = 0 /\ \A b : One(b) \in Nat
  BY DEF One
<1> HIDE DEF hidden, missed
<1>3. CASE line \in s.prefetched
  <2>1. c = [s EXCEPT !.prefetched = @ \ {line}, !.metrics = served]
    BY <1>3 DEF Classified, hidden
  <2>2. /\ served \in [MetricNames -> Nat]
        /\ served["useful"] = s.metrics["useful"] + 1
        /\ served["fully"] = s.metrics["fully"] + One(wait = 0)
        /\ served["partially"] = s.metrics["partially"] + One(wait > 0 /\ hidden > 0)
        /\ served["unhidden"] = s.metrics["unhidden"] + One(wait > 0 /\ hidden = 0)
        /\ \A n \in MetricNames \ {"useful", "fully", "partially", "unhidden"} :
             served[n] = s.metrics[n]
    BY <1>1, <1>2 DEF MetricNames
  <2> HIDE DEF served, other, c
  <2>3. /\ c \in States
        /\ c.caches = s.caches /\ c.pending = s.pending /\ c.demanded = s.demanded
        /\ c.prefetched = s.prefetched \ {line}
        /\ c.polluted = s.polluted
        /\ c.metrics = served
    BY <2>1, <2>2 DEF States, State
  <2>4. served["pollution"] = s.metrics["pollution"] /\ s.metrics["pollution"] \in Nat
    BY <1>1, <2>2 DEF MetricNames
  <2> QED BY <1>3, <2>2, <2>3, <2>4 DEF Tested, c, hidden, One
<1>4. CASE line \notin s.prefetched
  <2>1. c = [s EXCEPT !.polluted = @ \ {line}, !.metrics = other]
    BY <1>4 DEF Classified, missed
  <2>2. /\ other \in [MetricNames -> Nat]
        /\ other["pollution"] = s.metrics["pollution"] + One(line \in s.polluted)
        /\ other["unhidden"] = s.metrics["unhidden"] + One(missed)
        /\ \A n \in MetricNames \ {"pollution", "unhidden"} : other[n] = s.metrics[n]
    BY <1>1, <1>2 DEF MetricNames
  <2> HIDE DEF served, other, c
  <2>3. /\ c \in States
        /\ c.caches = s.caches /\ c.pending = s.pending /\ c.demanded = s.demanded
        /\ c.prefetched = s.prefetched
        /\ c.polluted = s.polluted \ {line}
        /\ c.metrics = other
    BY <2>1, <2>2 DEF States, State
  <2>4. /\ \A n \in {"useful", "fully", "partially"} :
             other[n] = s.metrics[n] /\ s.metrics[n] \in Nat
    BY <1>1, <2>2 DEF MetricNames
  <2> QED BY <1>4, <2>2, <2>3, <2>4 DEF Tested, c, missed, One
<1> QED BY <1>3, <1>4

\* The causes that a demand of a line records, and the cycles it spends.
Recorded(d, st, line, wait) ==
  LET level == LevelOf(st.caches, line)
      E == AccessEvicts(st.caches, line)
      serves == line \in st.prefetched \ E
      owed == line \in st.polluted \cup (E \cap st.prefetched)
      hidden == Excess(LATENCY[DRAM], wait + LATENCY[level])
      k == d.metrics
      m == st.metrics
  IN  /\ k["fully"] = m["fully"] + One(serves /\ wait = 0)
      /\ k["partially"] = m["partially"] + One(serves /\ wait > 0 /\ hidden > 0)
      /\ k["unhidden"] = m["unhidden"] + One(
              (serves /\ wait > 0 /\ hidden = 0)
                \/ (~ serves /\ (level = DRAM \/ owed)))
      /\ k["late"] = m["late"] + One(wait > 0)
      /\ k["lateness"] = m["lateness"] + wait
      /\ k["raw"] = m["raw"] + LATENCY[level]
      /\ k["dram"] = m["dram"] + One(level = DRAM)
      /\ \A n \in {"overhead", "issue_cost", "queue_wait", "update_stalls", "port_stalls"} :
           k[n] = m[n]

\* A demand access that is not settled by a prefetch settles a pollution.
LEMMA DemandedIs ==
  ASSUME NEW st \in States, NEW line \in Address, NEW wait \in Nat
  PROVE  LET d == Demanded(st, line, wait)
         IN  /\ Accessed(MetricNames, d, st, line,
                          line \notin st.prefetched \ AccessEvicts(st.caches, line))
             /\ Recorded(d, st, line, wait)
<1> DEFINE level == LevelOf(st.caches, line)
           E == AccessEvicts(st.caches, line)
           g == AfterAccess(st.caches, line)
           b == [st EXCEPT !.caches = AfterAccess(@, line)]
           s == MarkEvictions(b, E)
           c == Classified(s, line, level, wait)
           mm == [c.metrics EXCEPT
                   !["late"] = @ + One(wait > 0),
                   !["lateness"] = @ + wait,
                   !["raw"] = @ + LATENCY[level],
                   !["dram"] = @ + One(level = DRAM)]
           d == Demanded(st, line, wait)
<1>1. g \in Hierarchies /\ IsFiniteSet(E)
  BY AccessIs DEF States, State
<1>2. /\ b \in States
      /\ b.caches = g
      /\ b.pending = st.pending /\ b.prefetched = st.prefetched /\ b.demanded = st.demanded
      /\ b.polluted = st.polluted /\ b.metrics = st.metrics
  <2> HIDE DEF g
  <2>1. b = [st EXCEPT !.caches = g]
    BY DEF g
  <2> HIDE DEF b
  <2> QED BY <1>1, <2>1 DEF States, State
<1>3. d = [c EXCEPT !.demanded = @ \cup {line}, !.metrics = mm]
  BY DEF Demanded
<1> HIDE DEF b, E, g, d
<1>4. Marked(MetricNames, s, b, E)
  BY <1>1, <1>2, MarkEvictionsIs
<1> HIDE DEF s
<1>5. level \in Level \cup {DRAM}
  BY LevelOfIs
<1> HIDE DEF level
<1>6. s \in States
  BY <1>4 DEF Marked, States
<1>7. Tested(c, s, line, level, wait)
  BY <1>5, <1>6, ClassifiedIs
<1> HIDE DEF c
<1>8. c \in States /\ c.metrics \in [MetricNames -> Nat]
  BY <1>7 DEF Tested, States, State
<1>9. LATENCY[level] \in Nat /\ \A x : One(x) \in Nat
  BY <1>5, LatenciesAre DEF One
<1>10. /\ mm \in [MetricNames -> Nat]
       /\ mm["late"] = c.metrics["late"] + One(wait > 0)
       /\ mm["lateness"] = c.metrics["lateness"] + wait
       /\ mm["raw"] = c.metrics["raw"] + LATENCY[level]
       /\ mm["dram"] = c.metrics["dram"] + One(level = DRAM)
       /\ \A n \in MetricNames \ {"late", "lateness", "raw", "dram"} : mm[n] = c.metrics[n]
  BY <1>8, <1>9 DEF MetricNames
<1> HIDE DEF mm
<1>11. /\ d \in States
       /\ d.caches = c.caches /\ d.pending = c.pending
       /\ d.prefetched = c.prefetched
       /\ d.demanded = c.demanded \cup {line}
       /\ d.polluted = c.polluted
       /\ d.metrics = mm
  BY <1>3, <1>8, <1>10 DEF States, State
<1>12. /\ s.caches = g /\ s.pending = st.pending
       /\ s.prefetched = st.prefetched \ E
       /\ s.demanded = st.demanded \ (E \ st.prefetched)
       /\ s.polluted = st.polluted \cup (E \cap st.prefetched)
       /\ IsFiniteSet(E \cap st.prefetched)
       /\ s.metrics["unused"] = st.metrics["unused"] + Cardinality(E \cap st.prefetched)
       /\ \A n \in MetricNames \ {"unused", "evictions"} : s.metrics[n] = st.metrics[n]
  BY <1>2, <1>4 DEF Marked
<1>13. \A n \in MetricNames \ {"unused"} : s.metrics[n] = st.metrics[n]
  BY <1>12 DEF MetricNames
<1> DEFINE serves == line \in s.prefetched
           hidden == Excess(LATENCY[DRAM], wait + LATENCY[level])
<1>14. Recorded(d, st, line, wait)
  <2>1. /\ c.metrics["fully"] = s.metrics["fully"] + One(serves /\ wait = 0)
        /\ c.metrics["partially"] = s.metrics["partially"] + One(serves /\ wait > 0 /\ hidden > 0)
        /\ c.metrics["unhidden"] = s.metrics["unhidden"]
              + One(
              (serves /\ wait > 0 /\ hidden = 0)
                \/ (~ serves /\ (level = DRAM \/ line \in s.polluted)))
        /\ \A n \in {"late", "lateness", "raw", "dram", "overhead", "issue_cost", "queue_wait",
                    "update_stalls", "port_stalls"} : c.metrics[n] = s.metrics[n]
    BY <1>7 DEF Tested, MetricNames
  <2>2. \A n \in {"fully", "partially", "unhidden", "late", "lateness", "raw", "dram", "overhead",
                   "issue_cost", "queue_wait", "update_stalls", "port_stalls"} :
          s.metrics[n] = st.metrics[n]
    BY <1>13 DEF MetricNames
  <2>3. \A n \in {"fully", "partially", "unhidden", "overhead", "issue_cost", "queue_wait",
                   "update_stalls", "port_stalls"} : d.metrics[n] = c.metrics[n]
    BY <1>10, <1>11 DEF MetricNames
  <2> HIDE DEF hidden
  <2> QED BY <1>10, <1>11, <1>12, <2>1, <2>2, <2>3 DEF Recorded, hidden, E, level
<1>15. Accessed(MetricNames, d, st, line, line \notin st.prefetched \ E)
  <2>1. /\ c.caches = s.caches /\ c.pending = s.pending /\ c.demanded = s.demanded
        /\ c.prefetched = s.prefetched \ {line}
        /\ c.polluted = IF ~ serves THEN s.polluted \ {line} ELSE s.polluted
        /\ c.metrics["useful"] = s.metrics["useful"] + One(serves)
        /\ c.metrics["pollution"] = s.metrics["pollution"] + One(~ serves /\ line \in s.polluted)
        /\ \A n \in {"requests", "duplicates", "dropped", "issued", "completed", "unused"} :
             c.metrics[n] = s.metrics[n]
    BY <1>7 DEF Tested, MetricNames
  <2>2. \A n \in {"useful", "pollution", "requests", "duplicates", "dropped", "issued",
                   "completed"} : s.metrics[n] = st.metrics[n]
    BY <1>13 DEF MetricNames
  <2>3. \A n \in {"useful", "pollution", "requests", "duplicates", "dropped", "issued",
                   "completed", "unused"} : d.metrics[n] = c.metrics[n]
    BY <1>10, <1>11 DEF MetricNames
  <2> QED BY <1>11, <1>12, <2>1, <2>2, <2>3 DEF Accessed, States, E, g
<1> QED BY <1>14, <1>15 DEF d, E

\* A demand waits until the request for its line, if there is one, is due.
LEMMA WaitIs ==
  ASSUME NEW st \in States, NEW line, NEW now \in Nat
  PROVE  /\ Wait(st, line, now) \in Nat
         /\ Wait(st, line, now) > 0 =>
              \E r \in SE!ToSet(st.pending) : r.line = line /\ r.ready = now + Wait(st, line, now)
         /\ Wait(st, line, now) = 0 =>
              \A r \in SE!ToSet(st.pending) : r.line = line => r.ready <= now
<1> DEFINE own == {r \in SE!ToSet(st.pending) : r.line = line}
<1>1. st.pending \in Seq(Request) /\ OneEach(st.pending)
  BY DEF States, State
<1>2. \A r \in SE!ToSet(st.pending) : r.ready \in Nat
  <2>1. \A r \in SE!ToSet(st.pending) : r \in Request
    BY <1>1 DEF SE!ToSet
  <2> QED BY <2>1 DEF Request
<1>3. \A r, x \in own : r = x
  BY <1>1 DEF SE!ToSet, OneEach
<1>4. CASE own = {}
  BY <1>4 DEF Wait
<1>5. CASE own # {}
  <2> DEFINE r == CHOOSE r \in own : TRUE
  <2>1. r \in own
    BY <1>5
  <2>2. Wait(st, line, now) = IF r.ready > now THEN r.ready - now ELSE 0
    BY <1>5 DEF Wait, Excess
  <2> HIDE DEF r
  <2>3. r.ready \in Nat /\ r.line = line /\ r \in SE!ToSet(st.pending)
    BY <1>2, <2>1
  <2>4. \A x \in SE!ToSet(st.pending) : x.line = line => x = r
    BY <1>3, <2>1
  <2> HIDE DEF own
  <2>5. CASE r.ready > now
    <3>1. Wait(st, line, now) = r.ready - now
      BY <2>2, <2>5
    <3>2. r.ready - now \in Nat /\ r.ready - now > 0 /\ r.ready = now + (r.ready - now)
      BY <2>3, <2>5
    <3> QED BY <2>3, <3>1, <3>2
  <2>6. CASE ~ (r.ready > now)
    BY <2>2, <2>3, <2>4, <2>6
  <2> QED BY <2>5, <2>6
<1> QED BY <1>4, <1>5

\* What a demand of line is served from: the state once the due requests, its own
\* included, have completed.
Served(st, line, now) ==
  LET ready == CompleteReady(st, now)
      wait == Wait(ready, line, now)
  IN  CompleteReady(ready, now + wait)

\* Such a state has no request for the line, and no other counters.
Serving(s, st, line) ==
  /\ s \in States /\ Where(s)
  /\ Counts(st) => Counts(s)
  /\ line \notin Lines(s.pending)
  /\ \A n \in MetricNames \ Touchable : s.metrics[n] = st.metrics[n]

\* So does the wait of a demand: it finds no request for its line outstanding.
LEMMA ServedIs ==
  ASSUME NEW st \in States, Where(st), NEW line \in Address, NEW now \in Nat
  PROVE  /\ Serving(Served(st, line, now), st, line)
         /\ Wait(CompleteReady(st, now), line, now) \in Nat
<1> DEFINE ready == CompleteReady(st, now)
           wait == Wait(ready, line, now)
           late == CompleteReady(ready, now + wait)
<1>1. Readied(MetricNames, ready, st, now)
  BY CompleteReadyIs
<1>2. ready \in States /\ Where(ready)
  BY <1>1 DEF Readied, States
<1>3. Served(st, line, now) = late
  BY DEF Served
<1> HIDE DEF ready
<1>4. /\ wait \in Nat
      /\ wait > 0 => \E r \in SE!ToSet(ready.pending) : r.line = line /\ r.ready = now + wait
      /\ wait = 0 => \A r \in SE!ToSet(ready.pending) : r.line = line => r.ready <= now
  BY <1>2, WaitIs
<1> HIDE DEF wait
<1>5. \A s \in States : /\ s.metrics["completed"] \in Nat
                       /\ s.pending \in Seq(Request) /\ OneEach(s.pending)
  BY DEF States, State, MetricNames
<1>6. now + wait \in Nat
  BY <1>4
<1>7. Readied(MetricNames, late, ready, now + wait)
  BY <1>2, <1>6, CompleteReadyIs
<1> HIDE DEF late
<1>8. \A r \in SE!ToSet(late.pending) : r.line # line
  <2>1. CASE wait = 0
    <3>1. now + wait = now
      BY <2>1
    <3> QED BY <1>4, <1>7, <2>1, <3>1 DEF Readied, States
  <2>2. CASE wait > 0
    <3>1. PICK own \in SE!ToSet(ready.pending) : own.line = line /\ own.ready = now + wait
      BY <1>4, <2>2
    <3>2. \A r \in SE!ToSet(ready.pending) : r.line = line => r = own
      <4>1. ready.pending \in Seq(Request) /\ OneEach(ready.pending)
        BY <1>2, <1>5
      <4> QED BY <3>1, <4>1 DEF SE!ToSet, OneEach
    <3>3. own.ready <= now + wait
      BY <1>6, <3>1
    <3> QED BY <1>7, <3>2, <3>3 DEF Readied, States
  <2> QED BY <1>4, <2>1, <2>2
<1>9. late \in States /\ Where(late)
  BY <1>7 DEF Readied, States
<1>10. line \notin Lines(late.pending)
  BY <1>5, <1>8, <1>9, LinesAre
<1>11. /\ Counts(st) => Counts(late)
       /\ \A n \in MetricNames \ Touchable : late.metrics[n] = st.metrics[n]
  BY <1>1, <1>7 DEF Readied, States
<1> QED BY <1>3, <1>4, <1>9, <1>10, <1>11 DEF Serving, wait, ready

----------------------------------------------------------------------------
(* The predictions.                                                        *)

\* The state that a look-up works on.
Looking ==
  [pending : {q \in Seq(Request) : OneEach(q)}, cycle : Nat, metrics : [MetricNames -> Nat]]

\* The simulator's state with what such a state holds.
Around(l) ==
  [caches |-> caches, pending |-> l.pending, prefetched |-> prefetched,
   demanded |-> demanded, polluted |-> polluted, metrics |-> l.metrics]

\* The counters that proposing a prefetch may change.
Proposable == {"requests", "duplicates", "dropped", "issued", "issue_cost"}

\* What proposals keep: the clock moves by the issue cost that is recorded.
Kept(p, l) ==
  /\ p \in Looking
  /\ p.cycle + l.metrics["issue_cost"] = l.cycle + p.metrics["issue_cost"]
  /\ \A n \in MetricNames \ Proposable : p.metrics[n] = l.metrics[n]
  /\ Where(Around(l)) => Where(Around(p)) /\ (Counts(Around(l)) => Counts(Around(p)))

\* The fields of that state, by name.
LEMMA AroundIs ==
  ASSUME Now \in States, NEW l \in Looking
  PROVE  LET a == Around(l)
         IN  /\ a \in States
             /\ a.caches = caches /\ a.pending = l.pending /\ a.prefetched = prefetched
             /\ a.demanded = demanded /\ a.polluted = polluted /\ a.metrics = l.metrics
BY DEF Around, Now, States, State, Looking

\* One proposal keeps all that, whether it is dropped, a duplicate or issued.
LEMMA ProposeIs ==
  ASSUME Now \in States, NEW l \in Looking, NEW line \in Address
  PROVE  Kept(Propose(l, line), l)
<1> DEFINE p == Propose(l, line)
           m == l.metrics
           asked == [m EXCEPT !["requests"] = @ + 1]
           doubled == [asked EXCEPT !["duplicates"] = @ + 1]
           dropped == [asked EXCEPT !["dropped"] = @ + 1]
           issued == [asked EXCEPT !["issued"] = @ + 1, !["issue_cost"] = @ + ISSUE_COST]
           r == [line |-> line, ready |-> l.cycle + LATENCY[DRAM]]
           q == Append(l.pending, r)
           known == Requested(l.pending, line) \/ line \in prefetched \/ Contains(caches, line)
<1>1. /\ m \in [MetricNames -> Nat] /\ l.pending \in Seq(Request) /\ OneEach(l.pending)
      /\ l.cycle \in Nat /\ ISSUE_COST \in Nat /\ LATENCY[DRAM] \in Nat
      /\ Len(l.pending) \in Nat /\ MAX_OUTSTANDING \in Nat
  BY HorizonAssumption, RequestsAssumption, HierarchyAssumption DEF Looking
<1>2. r \in Request /\ r.line = line
  BY <1>1 DEF Request
<1>3. /\ asked \in [MetricNames -> Nat]
      /\ asked["requests"] = m["requests"] + 1
      /\ \A n \in MetricNames \ {"requests"} : asked[n] = m[n]
  <2>1. "requests" \in MetricNames /\ m \in [MetricNames -> Nat]
    BY <1>1 DEF MetricNames
  <2> HIDE DEF m
  <2> QED BY <2>1
<1>4. SUFFICES ASSUME TRUE
               PROVE  /\ p \in Looking
                      /\ p.cycle + m["issue_cost"] = l.cycle + p.metrics["issue_cost"]
                      /\ \A n \in MetricNames \ Proposable : p.metrics[n] = m[n]
                      /\ Proposal(MetricNames, Around(p), Around(l), line)
  <2> HIDE DEF p
  <2>1. Around(l) \in States
    BY AroundIs
  <2> QED BY <1>4, <2>1, ProposalWhere, ProposalCounts, LedgerKept DEF Kept, p, States
<1>5. CASE known \/ Len(l.pending) >= MAX_OUTSTANDING
  <2> DEFINE mm == IF known THEN doubled ELSE dropped
  <2>1. p = [l EXCEPT !.metrics = mm]
    BY <1>5 DEF Propose
  <2>2. /\ mm \in [MetricNames -> Nat]
        /\ \A n \in MetricNames \ Proposable : mm[n] = m[n]
        /\ mm["issue_cost"] = m["issue_cost"]
        /\ mm["requests"] = m["requests"] + 1
        /\ mm["issued"] = m["issued"]
        /\ \/ mm["duplicates"] = m["duplicates"] + 1 /\ mm["dropped"] = m["dropped"]
           \/ mm["duplicates"] = m["duplicates"] /\ mm["dropped"] = m["dropped"] + 1
    <3> HIDE DEF known, asked, m
    <3>1. /\ doubled \in [MetricNames -> Nat]
          /\ doubled["duplicates"] = asked["duplicates"] + 1
          /\ \A n \in MetricNames \ {"duplicates"} : doubled[n] = asked[n]
      BY <1>3 DEF MetricNames
    <3>2. /\ dropped \in [MetricNames -> Nat]
          /\ dropped["dropped"] = asked["dropped"] + 1
          /\ \A n \in MetricNames \ {"dropped"} : dropped[n] = asked[n]
      BY <1>3 DEF MetricNames
    <3> HIDE DEF doubled, dropped
    <3>3. CASE known
      BY <1>3, <3>1, <3>3 DEF MetricNames, Proposable
    <3>4. CASE ~ known
      BY <1>3, <3>2, <3>4 DEF MetricNames, Proposable
    <3> QED BY <3>3, <3>4
  <2> HIDE DEF mm, p, known
  <2>3. p \in Looking /\ p.pending = l.pending /\ p.metrics = mm /\ p.cycle = l.cycle
    BY <2>1, <2>2 DEF Looking
  <2>4. \A n \in {"completed", "useful", "unused", "pollution"} : mm[n] = m[n]
    BY <2>2 DEF MetricNames, Proposable
  <2>5. Proposal(MetricNames, Around(p), Around(l), line)
    <3> HIDE DEF m
    <3> QED BY <2>2, <2>3, <2>4, AroundIs DEF Proposal, States, m
  <2> QED BY <2>2, <2>3, <2>5
<1>6. CASE ~ known /\ ~ (Len(l.pending) >= MAX_OUTSTANDING)
  <2> DEFINE once == [l EXCEPT !.metrics.requests = @ + 1]
  <2>0. p = [once EXCEPT
              !.pending = Append(@, r), !.metrics.issued = @ + 1,
              !.metrics.issue_cost = @ + ISSUE_COST, !.cycle = @ + ISSUE_COST]
    BY <1>6, Zenon DEF Propose
  <2>1. p = [l EXCEPT !.pending = q, !.metrics = issued, !.cycle = @ + ISSUE_COST]
    <3>1. once = [l EXCEPT !.metrics = asked]
      OBVIOUS
    <3>2. l \in [pending : Seq(Request), cycle : Nat, metrics : [MetricNames -> Nat]]
          /\ "issued" \in MetricNames /\ "issue_cost" \in MetricNames
      BY DEF Looking, MetricNames
    <3> HIDE DEF p, r, once, asked
    <3>3. once.pending = l.pending /\ once.cycle = l.cycle /\ once.metrics = asked
      BY <3>1, <3>2
    <3> QED BY <2>0, <3>1, <3>2, <3>3
  <2>2. /\ issued \in [MetricNames -> Nat]
        /\ \A n \in MetricNames \ Proposable : issued[n] = m[n]
        /\ issued["issue_cost"] = m["issue_cost"] + ISSUE_COST
        /\ issued["requests"] = m["requests"] + 1
        /\ issued["issued"] = m["issued"] + 1
        /\ issued["duplicates"] = m["duplicates"]
        /\ issued["dropped"] = m["dropped"]
    <3> HIDE DEF asked, m
    <3>1. /\ issued \in [MetricNames -> Nat]
          /\ issued["issued"] = asked["issued"] + 1
          /\ issued["issue_cost"] = asked["issue_cost"] + ISSUE_COST
          /\ \A n \in MetricNames \ {"issued", "issue_cost"} : issued[n] = asked[n]
      <4>1. /\ asked["issued"] + 1 \in Nat /\ asked["issue_cost"] + ISSUE_COST \in Nat
            /\ "issued" \in MetricNames /\ "issue_cost" \in MetricNames
        <5>1. "issued" \in MetricNames /\ "issue_cost" \in MetricNames
          BY DEF MetricNames
        <5>2. asked["issued"] \in Nat /\ asked["issue_cost"] \in Nat
          BY <1>3, <5>1
        <5> QED BY <1>1, <5>1, <5>2
      <4> DEFINE one == asked["issued"] + 1
                 cost == asked["issue_cost"] + ISSUE_COST
      <4>2. issued = [asked EXCEPT !["issued"] = one, !["issue_cost"] = cost]
        OBVIOUS
      <4>3. one \in Nat /\ cost \in Nat
        BY <4>1
      <4> HIDE DEF issued, one, cost
      <4>4. /\ issued \in [MetricNames -> Nat]
            /\ issued["issued"] = one /\ issued["issue_cost"] = cost
            /\ \A n \in MetricNames \ {"issued", "issue_cost"} : issued[n] = asked[n]
        BY <1>3, <4>1, <4>2, <4>3
      <4> QED BY <4>4 DEF one, cost
    <3> HIDE DEF issued
    <3> QED BY <1>3, <3>1 DEF MetricNames, Proposable
  <2>3. /\ q \in Seq(Request) /\ OneEach(q) /\ Len(q) = Len(l.pending) + 1
        /\ Lines(q) = Lines(l.pending) \cup {line}
    <3>1. ~ Requested(l.pending, r.line)
      BY <1>2, <1>6
    <3> HIDE DEF r
    <3> QED BY <1>1, <1>2, <3>1, AppendIs
  <2>4. Len(l.pending) < MAX_OUTSTANDING /\ ~ Contains(caches, line)
    BY <1>1, <1>6
  <2>5. l.cycle + ISSUE_COST \in Nat
    BY ONLY <1>1
  <2> HIDE DEF q, issued, p, asked, known
  <2>6. p \in Looking /\ p.pending = q /\ p.metrics = issued /\ p.cycle = l.cycle + ISSUE_COST
    BY <2>1, <2>2, <2>3, <2>5 DEF Looking
  <2>7. \A n \in {"completed", "useful", "unused", "pollution"} : issued[n] = m[n]
    BY <2>2 DEF MetricNames, Proposable
  <2>8. Proposal(MetricNames, Around(p), Around(l), line)
    <3> HIDE DEF m
    <3> QED BY <2>2, <2>3, <2>4, <2>6, <2>7, AroundIs DEF Proposal, States, m
  <2>9. m["issue_cost"] \in Nat
    BY <1>1 DEF MetricNames
  <2> HIDE DEF m
  <2>10. (l.cycle + ISSUE_COST) + m["issue_cost"] = l.cycle + (m["issue_cost"] + ISSUE_COST)
    BY ONLY <1>1, <2>9
  <2> QED BY <2>2, <2>6, <2>8, <2>10 DEF m
<1> QED BY <1>5, <1>6

\* So do all the proposals of one call.
LEMMA ProposedIs ==
  ASSUME Now \in States, NEW l \in Looking, NEW k \in Nat, NEW predictions \in [1 .. k -> Prediction]
  PROVE  Kept(Proposed(l, predictions), l)
<1> DEFINE after == CHOOSE f : f = [i \in 0 .. k |->
                       IF i = 0 THEN l ELSE Propose(f[i - 1], predictions[i].line)]
           step == [s \in Looking \X (1 .. k) |-> Propose(s[1], predictions[s[2]].line)]
<1>1. Len(predictions) = k
  OBVIOUS
<1>2. Proposed(l, predictions) = after[k]
  BY <1>1 DEF Proposed
<1>3. \A s \in Looking, i \in 1 .. k : Propose(s, predictions[i].line) \in Looking
  BY ProposeIs DEF Kept, Prediction
<1>4. after = [i \in 0 .. k |-> IF i = 0 THEN l ELSE Propose(after[i - 1], predictions[i].line)]
  <2>1. step \in [Looking \X (1 .. k) -> Looking]
    BY <1>3
  <2>2. \A s \in Looking, i \in 1 .. k : step[<<s, i>>] = Propose(s, predictions[i].line)
    OBVIOUS
  <2> HIDE DEF step
  <2>3. PICK f \in [0 .. k -> Looking] : Recurs(f, k, l, step)
    BY <2>1, RecursionExists
  <2>4. f = [i \in 0 .. k |-> IF i = 0 THEN l ELSE Propose(f[i - 1], predictions[i].line)]
    <3>1. ASSUME NEW i \in 1 .. k PROVE f[i] = Propose(f[i - 1], predictions[i].line)
      <4>1. i - 1 \in 0 .. k
        OBVIOUS
      <4> QED BY <2>2, <2>3, <4>1 DEF Recurs
    <3>2. f[0] = l
      BY <2>3 DEF Recurs
    <3> QED BY <3>1, <3>2
  <2> QED BY <2>4
<1> HIDE DEF after, step
<1> DEFINE T == {i \in 0 .. k : Kept(after[i], l)}
<1>5. 0 \in T
  <2>1. after[0] = l
    BY <1>4
  <2>2. l.cycle \in Nat /\ l.metrics["issue_cost"] \in Nat
    BY DEF Looking, MetricNames
  <2> QED BY <2>1, <2>2 DEF Kept
<1>6. ASSUME NEW i \in 1 .. k, i - 1 \in T
      PROVE  i \in T
  <2>1. after[i] = Propose(after[i - 1], predictions[i].line)
    BY <1>4
  <2>2. Kept(after[i - 1], l)
    BY <1>6
  <2> DEFINE s == after[i - 1]
             p == Propose(s, predictions[i].line)
  <2>3. s \in Looking /\ predictions[i].line \in Address
    BY <2>2 DEF Kept, Prediction
  <2> HIDE DEF s
  <2>4. Kept(p, s)
    BY <2>3, ProposeIs
  <2> HIDE DEF p
  <2>5. Kept(p, l)
    <3>1. Kept(s, l)
      BY <2>2 DEF s
    <3>2. p.cycle + l.metrics["issue_cost"] = l.cycle + p.metrics["issue_cost"]
      <4> DEFINE a == p.metrics["issue_cost"]
                 b == s.metrics["issue_cost"]
                 c == l.metrics["issue_cost"]
                 x == p.cycle
                 y == s.cycle
                 z == l.cycle
      <4>1. /\ x \in Nat /\ y \in Nat /\ z \in Nat
            /\ a \in Nat /\ b \in Nat /\ c \in Nat
        BY <2>3, <2>4 DEF Kept, Looking, MetricNames
      <4>2. x + b = y + a /\ y + c = z + b
        BY <2>4, <3>1 DEF Kept
      <4> HIDE DEF a, b, c, x, y, z
      <4>3. x + c = z + a
        BY ONLY <4>1, <4>2
      <4> QED BY <4>3 DEF a, c, x, z
    <3> QED BY <2>4, <3>1, <3>2 DEF Kept
  <2> QED BY <2>1, <2>5 DEF p, s
<1> HIDE DEF T
<1>7. 0 .. k \subseteq T
  BY <1>5, <1>6, UpTo
<1> QED BY <1>2, <1>7 DEF T

\* The predictions that are looked at are predictions.
LEMMA ValidIs ==
  ASSUME NEW k \in Nat, NEW predictions \in [1 .. k -> Prediction]
  PROVE  \E n \in Nat : Valid(predictions) \in [1 .. n -> Prediction]
<1> DEFINE S == Seq(Prediction)
           Keep(s, p) == IF index - 1 + p.horizon < length THEN Append(s, p) ELSE s
           kept == CHOOSE f : f = [i \in 0 .. k |->
                      IF i = 0 THEN <<>>
                      ELSE IF index - 1 + predictions[i].horizon < length
                        THEN Append(f[i - 1], predictions[i])
                      ELSE f[i - 1]]
           step == [s \in S \X (1 .. k) |-> Keep(s[1], predictions[s[2]])]
<1>1. Len(predictions) = k
  OBVIOUS
<1>2. Valid(predictions) = IF Abandoned THEN <<>> ELSE kept[k]
  BY <1>1 DEF Valid
<1>3. <<>> \in S /\ \A s \in S, i \in 1 .. k : Keep(s, predictions[i]) \in S
  <2>1. \A s \in S, p \in Prediction : Append(s, p) \in S
    OBVIOUS
  <2> QED BY <2>1
<1> HIDE DEF S
<1>4. step \in [S \X (1 .. k) -> S]
  <2> HIDE DEF Keep
  <2> QED BY <1>3
<1>5. \A s \in S, i \in 1 .. k : step[<<s, i>>] = Keep(s, predictions[i])
  OBVIOUS
<1> HIDE DEF step
<1>6. PICK f \in [0 .. k -> S] : Recurs(f, k, <<>>, step)
  BY <1>3, <1>4, RecursionExists
<1>7. f = [i \in 0 .. k |-> IF i = 0 THEN <<>> ELSE Keep(f[i - 1], predictions[i])]
  <2> HIDE DEF Keep
  <2>1. ASSUME NEW i \in 1 .. k PROVE f[i] = Keep(f[i - 1], predictions[i])
    <3>1. i - 1 \in 0 .. k
      OBVIOUS
    <3> QED BY <1>5, <1>6, <3>1 DEF Recurs
  <2>2. f[0] = <<>>
    BY <1>6 DEF Recurs
  <2> QED BY <2>1, <2>2
<1>8. kept = [i \in 0 .. k |-> IF i = 0 THEN <<>> ELSE Keep(kept[i - 1], predictions[i])]
  BY <1>7
<1> DEFINE T == {i \in 0 .. k : kept[i] \in S}
<1> HIDE DEF kept, Keep
<1>9. 0 \in T
  BY <1>3, <1>8
<1>10. ASSUME NEW i \in 1 .. k, i - 1 \in T
       PROVE  i \in T
  BY <1>3, <1>8, <1>10
<1> HIDE DEF T
<1>11. 0 .. k \subseteq T
  BY <1>9, <1>10, UpTo
<1>12. Valid(predictions) \in S
  BY <1>2, <1>3, <1>11 DEF T
<1> HIDE DEF T
<1>13. /\ Len(Valid(predictions)) \in Nat
       /\ Valid(predictions) \in [1 .. Len(Valid(predictions)) -> Prediction]
  BY <1>12 DEF S
<1> QED BY <1>13

----------------------------------------------------------------------------
(* The causes of the misses, and the clock.                                *)

\* The misses of n accesses have their causes.
Classes(m, n) ==
  LET hidNothing == m["useful"] - m["fully"] - m["partially"]
  IN  /\ hidNothing \in 0 .. m["late"]
      /\ m["unhidden"] >= m["dram"] + hidNothing
      /\ m["unhidden"] <= m["dram"] + hidNothing + m["pollution"]
      /\ m["useful"] + m["unhidden"] - hidNothing <= n

\* The counters that the classes are about.
Classing == {"useful", "fully", "partially", "late", "unhidden", "dram", "pollution"}

\* The cycles that the counters account for, n compute gaps among them.
Spent(m, n) ==
  m["raw"] + m["lateness"] + m["overhead"] + m["issue_cost"] + m["queue_wait"] + m["port_stalls"]
    + n * COMPUTE

\* The clock shows these, and more if an update has waited for its turn.
Clock(m, c, n) == IF m["update_stalls"] = 0 THEN c = Spent(m, n) ELSE c > Spent(m, n)

\* The gaps there have been.
Looked == IF phase = "lookup" THEN index - 1 ELSE index

\* That is what the two properties say.
LEMMA CausesAre ==
  /\ MissesClassified <=> Classes(metrics, index)
  /\ ClockAttributed <=> Clock(metrics, cycle, Looked)
BY DEF MissesClassified, Classes, ClockAttributed, Clock, Spent, Looked

\* What one access adds to those counters.
Classed(m, k, serves, waits, hides, cold, owed) ==
  /\ k["useful"] = m["useful"] + One(serves)
  /\ k["fully"] = m["fully"] + One(serves /\ ~ waits)
  /\ k["partially"] = m["partially"] + One(serves /\ waits /\ hides)
  /\ k["unhidden"] = m["unhidden"]
       + One((serves /\ waits /\ ~ hides) \/ (~ serves /\ (cold \/ owed)))
  /\ k["late"] = m["late"] + One(waits)
  /\ k["dram"] = m["dram"] + One(cold)
  /\ k["pollution"] = m["pollution"] + One(~ serves /\ owed)

\* One more access keeps the classes: a prefetched line serves, or it does not;
\* when a line serves it was cached.
LEMMA ClassesDemand ==
  ASSUME NEW m \in [MetricNames -> Nat], NEW k \in [MetricNames -> Nat], NEW n \in Nat,
         Classes(m, n),
         NEW serves \in BOOLEAN, NEW waits \in BOOLEAN, NEW hides \in BOOLEAN,
         NEW cold \in BOOLEAN, NEW owed \in BOOLEAN,
         serves => ~ cold,
         Classed(m, k, serves, waits, hides, cold, owed)
  PROVE  Classes(k, n + 1)
<1> USE DEF Classed
<1> DEFINE useful == m["useful"]
           fully == m["fully"]
           partially == m["partially"]
           late == m["late"]
           unhidden == m["unhidden"]
           dram == m["dram"]
           pollution == m["pollution"]
<1>1. /\ useful \in Nat /\ fully \in Nat /\ partially \in Nat /\ late \in Nat
      /\ unhidden \in Nat /\ dram \in Nat /\ pollution \in Nat
  BY DEF MetricNames
<1>2. /\ useful - fully - partially >= 0
      /\ useful - fully - partially <= late
      /\ unhidden >= dram + (useful - fully - partially)
      /\ unhidden <= dram + (useful - fully - partially) + pollution
      /\ useful + unhidden - (useful - fully - partially) <= n
  BY <1>1 DEF Classes
<1>3. /\ k["useful"] = useful + One(serves)
      /\ k["fully"] = fully + One(serves /\ ~ waits)
      /\ k["partially"] = partially + One(serves /\ waits /\ hides)
      /\ k["unhidden"] = unhidden
           + One((serves /\ waits /\ ~ hides) \/ (~ serves /\ (cold \/ owed)))
      /\ k["late"] = late + One(waits)
      /\ k["dram"] = dram + One(cold)
      /\ k["pollution"] = pollution + One(~ serves /\ owed)
  OBVIOUS
<1> HIDE DEF useful, fully, partially, late, unhidden, dram, pollution
<1>4. One(TRUE) = 1 /\ One(FALSE) = 0
  BY DEF One
<1>5. CASE serves /\ ~ waits
  <2>1. /\ k["useful"] = useful + 1 /\ k["fully"] = fully + 1 /\ k["partially"] = partially
        /\ k["unhidden"] = unhidden /\ k["late"] = late /\ k["dram"] = dram
        /\ k["pollution"] = pollution
    BY <1>1, <1>3, <1>5 DEF One
  <2> QED BY ONLY <1>1, <1>2, <2>1, n \in Nat DEF Classes
<1>6. CASE serves /\ waits /\ hides
  <2>1. /\ k["useful"] = useful + 1 /\ k["fully"] = fully /\ k["partially"] = partially + 1
        /\ k["unhidden"] = unhidden /\ k["late"] = late + 1 /\ k["dram"] = dram
        /\ k["pollution"] = pollution
    BY <1>1, <1>3, <1>6 DEF One
  <2> QED BY ONLY <1>1, <1>2, <2>1, n \in Nat DEF Classes
<1>7. CASE serves /\ waits /\ ~ hides
  <2>1. /\ k["useful"] = useful + 1 /\ k["fully"] = fully /\ k["partially"] = partially
        /\ k["unhidden"] = unhidden + 1 /\ k["late"] = late + 1 /\ k["dram"] = dram
        /\ k["pollution"] = pollution
    BY <1>1, <1>3, <1>7 DEF One
  <2> QED BY ONLY <1>1, <1>2, <2>1, n \in Nat DEF Classes
<1>8. CASE ~ serves
  <2> DEFINE a == One(cold \/ owed)
             b == One(cold)
             c == One(owed)
             d == One(waits)
  <2>1. /\ k["useful"] = useful /\ k["fully"] = fully /\ k["partially"] = partially
        /\ k["unhidden"] = unhidden + a /\ k["late"] = late + d /\ k["dram"] = dram + b
        /\ k["pollution"] = pollution + c
    BY <1>1, <1>3, <1>8 DEF One
  <2>2. /\ a \in {0, 1} /\ b \in {0, 1} /\ c \in {0, 1} /\ d \in {0, 1}
        /\ a >= b /\ a <= b + c
    BY DEF One
  <2> HIDE DEF a, b, c, d
  <2> QED BY ONLY <1>1, <1>2, <2>1, <2>2, n \in Nat DEF Classes
<1> QED BY <1>5, <1>6, <1>7, <1>8

\* A demand is recorded but for the wait of its update.
LEMMA ClockDemand ==
  ASSUME NEW m \in [MetricNames -> Nat], NEW k \in [MetricNames -> Nat],
         NEW c \in Nat, NEW n \in Nat, Clock(m, c, n),
         NEW wait \in Nat, NEW latency \in Nat, NEW stall \in Nat, NEW cost \in Nat,
         k["raw"] = m["raw"] + latency,
         k["lateness"] = m["lateness"] + wait,
         k["overhead"] = m["overhead"] + cost,
         k["update_stalls"] = m["update_stalls"] + One(stall > 0),
         \A x \in {"issue_cost", "queue_wait", "port_stalls"} : k[x] = m[x]
  PROVE  Clock(k, c + wait + latency + stall + cost, n)
<1> DEFINE raw == m["raw"]
           lateness == m["lateness"]
           overhead == m["overhead"]
           rest == m["issue_cost"]
           queued == m["queue_wait"]
           ports == m["port_stalls"]
           gaps == n * COMPUTE
           stalls == m["update_stalls"]
<1>1. /\ raw \in Nat /\ lateness \in Nat /\ overhead \in Nat /\ rest \in Nat /\ queued \in Nat
      /\ ports \in Nat /\ stalls \in Nat
  BY DEF MetricNames
<1>2. gaps \in Nat
  BY HorizonAssumption
<1>3. IF stalls = 0 THEN c = raw + lateness + overhead + rest + queued + ports + gaps
      ELSE c > raw + lateness + overhead + rest + queued + ports + gaps
  BY DEF Clock, Spent
<1>4. Spent(k, n) = (raw + latency) + (lateness + wait) + (overhead + cost) + rest + queued + ports
                      + gaps
  BY DEF Spent
<1>5. k["update_stalls"] = stalls + One(stall > 0)
  OBVIOUS
<1> HIDE DEF raw, lateness, overhead, rest, queued, ports, gaps, stalls
<1>6. One(stall > 0) = IF stall > 0 THEN 1 ELSE 0
  BY DEF One
<1>7. CASE stalls = 0 /\ stall = 0
  <2>1. c + wait + latency + stall + cost = Spent(k, n)
    BY <1>1, <1>2, <1>3, <1>4, <1>7
  <2> QED BY <1>1, <1>5, <1>6, <1>7, <2>1 DEF Clock
<1>8. CASE ~ (stalls = 0 /\ stall = 0)
  <2>1. c + wait + latency + stall + cost > Spent(k, n)
    BY <1>1, <1>2, <1>3, <1>4, <1>8
  <2>2. k["update_stalls"] # 0
    BY <1>1, <1>5, <1>6, <1>8
  <2> QED BY <2>1, <2>2 DEF Clock
<1> QED BY <1>7, <1>8

\* A look-up is recorded, and the compute gap after it.
LEMMA ClockLookup ==
  ASSUME NEW m \in [MetricNames -> Nat], NEW k \in [MetricNames -> Nat],
         NEW c \in Nat, NEW n \in Nat, Clock(m, c, n),
         NEW later \in Nat, NEW next, next = n + 1,
         later + m["overhead"] + m["queue_wait"] + m["issue_cost"] + m["port_stalls"]
           = c + COMPUTE + k["overhead"] + k["queue_wait"] + k["issue_cost"] + k["port_stalls"],
         \A x \in {"raw", "lateness", "update_stalls"} : k[x] = m[x]
  PROVE  Clock(k, later, next)
<1> DEFINE same == m["raw"] + m["lateness"]
           was == m["overhead"] + m["queue_wait"] + m["issue_cost"] + m["port_stalls"]
           is == k["overhead"] + k["queue_wait"] + k["issue_cost"] + k["port_stalls"]
           gaps == n * COMPUTE
           stalls == m["update_stalls"]
<1>1. /\ \A x \in {"raw", "lateness", "overhead", "queue_wait", "issue_cost", "port_stalls",
                  "update_stalls"} : m[x] \in Nat /\ k[x] \in Nat
  BY DEF MetricNames
<1>2. gaps \in Nat /\ COMPUTE \in Nat /\ (n + 1) * COMPUTE = gaps + COMPUTE
  BY HorizonAssumption
<1>3. same \in Nat /\ was \in Nat /\ is \in Nat /\ stalls \in Nat
  BY <1>1
<1>4. Spent(m, n) = same + was + gaps
  <2> HIDE DEF gaps
  <2> QED BY <1>1, <1>2 DEF Spent, gaps
<1>5. Spent(k, next) = same + is + (gaps + COMPUTE)
  <2> DEFINE more == (n + 1) * COMPUTE
  <2>1. Spent(k, next) = k["raw"] + k["lateness"] + k["overhead"] + k["issue_cost"]
                           + k["queue_wait"] + k["port_stalls"] + more
    BY DEF Spent
  <2>2. more = gaps + COMPUTE
    BY <1>2
  <2>3. k["raw"] = m["raw"] /\ k["lateness"] = m["lateness"]
    OBVIOUS
  <2> HIDE DEF more, gaps
  <2> QED BY ONLY <1>1, <1>2, <2>1, <2>2, <2>3
<1>6. later + was = c + COMPUTE + is
  BY <1>1, <1>2
<1>7. k["update_stalls"] = stalls
  OBVIOUS
<1>8. IF stalls = 0 THEN c = same + was + gaps ELSE c > same + was + gaps
  BY <1>4 DEF Clock
<1> HIDE DEF same, was, is, gaps, stalls
<1>9. CASE stalls = 0
  <2>1. later = same + is + (gaps + COMPUTE)
    BY <1>2, <1>3, <1>6, <1>8, <1>9
  <2> QED BY <1>5, <1>7, <1>9, <2>1 DEF Clock
<1>10. CASE stalls # 0
  <2>1. later > same + is + (gaps + COMPUTE)
    BY <1>2, <1>3, <1>6, <1>8, <1>10
  <2> QED BY <1>5, <1>7, <1>10, <2>1 DEF Clock
<1> QED BY <1>9, <1>10

----------------------------------------------------------------------------
(* The inductive invariant.                                                *)

\* What is not a matter of lines, requests and counters.
LoopOK ==
  /\ mode \in [deferred : BOOLEAN, parallel : BOOLEAN, queue_depth : QUEUE_DEPTHS]
  /\ length \in 1 .. MaxLength
  /\ phase \in {"demand", "lookup", "done"}
  /\ index \in 0 .. length
  /\ phase = "lookup" => index >= 1
  /\ cycle \in Nat
  /\ turns \in [lookup : Nat, update : Nat, buffered : 0 .. BATCH - 1]

\* The invariant: lines in their places, the counters balanced until the end
\* settles what is left, every miss and every cycle with its cause.
IInv ==
  /\ LoopOK
  /\ Now \in States
  /\ Where(Now)
  /\ phase # "done" => Counts(Now)
  /\ phase = "done" => PrefetchesAccounted /\ PollutionAccounted
  /\ Classes(metrics, index)
  /\ Clock(metrics, cycle, Looked)

\* The fields of the state, by name.
LEMMA NowIs ==
  /\ Now.caches = caches /\ Now.pending = pending /\ Now.prefetched = prefetched
  /\ Now.demanded = demanded /\ Now.polluted = polluted /\ Now.metrics = metrics
BY DEF Now

\* What the ledger and the places say does not depend on the other counters.
LEMMA MetricsOnly ==
  ASSUME NEW st \in States, Where(st), Counts(st), NEW mm \in [MetricNames -> Nat],
         \A n \in Ledger : mm[n] = st.metrics[n],
         NEW t, t = [caches |-> st.caches, pending |-> st.pending, prefetched |-> st.prefetched,
                     demanded |-> st.demanded, polluted |-> st.polluted, metrics |-> mm]
  PROVE  t \in States /\ Where(t) /\ Counts(t)
<1>1. /\ t.caches = st.caches /\ t.pending = st.pending /\ t.prefetched = st.prefetched
      /\ t.demanded = st.demanded /\ t.polluted = st.polluted /\ t.metrics = mm
  OBVIOUS
<1>2. t \in States
  BY DEF States, State
<1>3. Where(t)
  BY <1>1 DEF Where
<1>4. /\ mm["requests"] = st.metrics["requests"] /\ mm["duplicates"] = st.metrics["duplicates"]
      /\ mm["dropped"] = st.metrics["dropped"] /\ mm["issued"] = st.metrics["issued"]
      /\ mm["completed"] = st.metrics["completed"] /\ mm["useful"] = st.metrics["useful"]
      /\ mm["unused"] = st.metrics["unused"] /\ mm["pollution"] = st.metrics["pollution"]
  BY DEF Ledger
<1>5. Counts(t)
  BY <1>1, <1>4 DEF Counts
<1> QED BY <1>2, <1>3, <1>5

\* At the start nothing is anywhere and all counters are zero.
LEMMA InitIInv == Init => IInv
<1> SUFFICES ASSUME Init PROVE IInv
  OBVIOUS
<1> DEFINE m == [n \in MetricNames |-> 0]
<1>1. /\ Now.caches = Empty /\ Now.pending = <<>> /\ Now.prefetched = {} /\ Now.demanded = {}
      /\ Now.polluted = {} /\ Now.metrics = m /\ metrics = m
  BY NowIs DEF Init
<1>2. Empty \in Hierarchies
  BY HierarchyAssumption DEF Empty, Hierarchies, Distinct
<1>3. m \in [MetricNames -> Nat] /\ \A n \in MetricNames : m[n] = 0
  OBVIOUS
<1>4. OneEach(<<>>) /\ <<>> \in Seq(Request) /\ Len(<<>>) = 0
  BY DEF OneEach
<1>5. Now \in States
  BY <1>1, <1>2, <1>3, <1>4 DEF States, State, Now
<1>6. Where(Now)
  <2>1. \A l \in Level : SE!ToSet(Empty[l]) = {}
    BY DEF Empty, SE!ToSet
  <2>2. Lines(<<>>) = {} /\ 0 <= MAX_OUTSTANDING
    BY RequestsAssumption DEF Lines
  <2> QED BY <1>1, <1>4, <2>1, <2>2 DEF Where
<1>7. Counts(Now)
  <2>1. IsFiniteSet({}) /\ Cardinality({}) = 0
    BY FS_EmptySet
  <2> QED BY <1>1, <1>3, <1>4, <2>1 DEF Counts, MetricNames
<1>8. Classes(metrics, index)
  BY <1>1, <1>3 DEF Classes, Init, MetricNames
<1>9. Clock(metrics, cycle, Looked)
  <2>1. 0 * COMPUTE = 0
    BY HorizonAssumption
  <2> QED BY <1>1, <1>3, <2>1 DEF Clock, Spent, Looked, Init, MetricNames
<1>10. LoopOK
  <2>1. BATCH \in Nat /\ BATCH # 0 /\ MaxLength \in Nat
    BY HorizonAssumption
  <2>2. 0 \in 0 .. BATCH - 1
    BY <2>1
  <2>3. turns \in [lookup : Nat, update : Nat, buffered : 0 .. BATCH - 1]
    BY <2>2 DEF Init
  <2>4. index \in 0 .. length
    BY <2>1 DEF Init
  <2> QED BY <2>3, <2>4 DEF LoopOK, Init
<1> QED BY <1>5, <1>6, <1>7, <1>8, <1>9, <1>10 DEF IInv, Init

\* What an update costs and waits for, and its turns.
LEMMA UpdatesAre ==
  ASSUME LoopOK, NEW now \in Nat
  PROVE  /\ Stall(now) \in Nat /\ UpdateCost \in Nat
         /\ UpdateTurns(now) \in [lookup : Nat, update : Nat, buffered : 0 .. BATCH - 1]
<1>1. /\ turns.update \in Nat /\ turns.lookup \in Nat /\ turns.buffered \in 0 .. BATCH - 1
      /\ turns \in [lookup : Nat, update : Nat, buffered : 0 .. BATCH - 1]
      /\ BATCH \in Nat /\ BATCH # 0 /\ UPDATE \in Nat /\ UPDATE_INTERVAL \in Nat
  BY HorizonAssumption DEF LoopOK
<1>2. Stall(now) \in Nat /\ UpdateCost \in Nat
  BY <1>1, LatenciesAre DEF Stall, UpdateCost
<1>3. CASE mode.deferred
  <2> DEFINE b == IF Flushes THEN 0 ELSE turns.buffered + 1
  <2>1. UpdateTurns(now) = [turns EXCEPT !.buffered = b]
    BY <1>3 DEF UpdateTurns
  <2>2. b \in 0 .. BATCH - 1
    BY <1>1, <1>3 DEF Flushes
  <2> HIDE DEF b
  <2> QED BY <1>1, <1>2, <2>1, <2>2
<1>4. CASE ~ mode.deferred
  <2> DEFINE u == now + Stall(now) + UPDATE_INTERVAL
  <2>1. UpdateTurns(now) = [turns EXCEPT !.update = u]
    BY <1>4 DEF UpdateTurns
  <2>2. u \in Nat
    BY <1>1, <1>2
  <2> HIDE DEF u
  <2> QED BY <1>1, <1>2, <2>1, <2>2
<1> QED BY <1>3, <1>4

\* A demand keeps the invariant.
LEMMA DemandIInv ==
  ASSUME IInv, NEW line \in Address, Demand(line)
  PROVE  IInv'
<1> DEFINE ready == CompleteReady(Now, cycle)
           wait == Wait(ready, line, cycle)
           s == Served(Now, line, cycle)
           d == Demanded(s, line, wait)
           level == LevelOf(s.caches, line)
           now == cycle + wait + LATENCY[level]
           stall == Stall(now)
           k == [d.metrics EXCEPT !["update_stalls"] = @ + One(stall > 0),
                                  !["overhead"] = @ + UpdateCost]
<1>1. /\ Now \in States /\ Where(Now) /\ Counts(Now) /\ cycle \in Nat /\ LoopOK
      /\ index \in Nat /\ index < length /\ length \in Nat
  BY DEF IInv, Demand, LoopOK
<1>2. Serving(s, Now, line) /\ wait \in Nat
  BY <1>1, ServedIs
<1>3. /\ caches' = d.caches /\ pending' = d.pending /\ prefetched' = d.prefetched
      /\ demanded' = d.demanded /\ polluted' = d.polluted
      /\ cycle' = now + stall + UpdateCost
      /\ turns' = UpdateTurns(now)
      /\ metrics' = k
      /\ index' = index + 1 /\ phase' = "lookup" /\ phase = "demand"
      /\ UNCHANGED <<mode, length>>
  BY DEF Demand, Served
<1> HIDE DEF wait, s
<1>4. s \in States /\ Where(s) /\ Counts(s) /\ line \notin Lines(s.pending)
  BY <1>1, <1>2 DEF Serving
<1> DEFINE serves == line \in s.prefetched \ AccessEvicts(s.caches, line)
<1>5. Accessed(MetricNames, d, s, line, ~ serves) /\ Recorded(d, s, line, wait)
  BY <1>2, <1>4, DemandedIs
<1> HIDE DEF d
<1>6. d \in States /\ Where(d) /\ Counts(d)
  <2> DEFINE settled == ~ serves
  <2>1. settled \in BOOLEAN /\ Accessed(MetricNames, d, s, line, settled) /\ d \in States
    BY <1>5 DEF Accessed, States
  <2> HIDE DEF settled
  <2>2. Where(d)
    BY <1>4, <2>1, AccessedWhere DEF States
  <2>3. Counts(d)
    BY <1>4, <2>1, AccessedCounts, LedgerKept DEF States
  <2> QED BY <2>1, <2>2, <2>3
<1>7. level \in Level \cup {DRAM} /\ LATENCY[level] \in Nat
  BY LevelOfIs, LatenciesAre
<1>8. now \in Nat
  <2> HIDE DEF level
  <2> QED BY <1>1, <1>2, <1>7
<1> HIDE DEF now
<1>9. /\ stall \in Nat /\ UpdateCost \in Nat
      /\ UpdateTurns(now) \in [lookup : Nat, update : Nat, buffered : 0 .. BATCH - 1]
  BY <1>1, <1>8, UpdatesAre
<1> HIDE DEF stall
<1>10. /\ k \in [MetricNames -> Nat]
       /\ k["update_stalls"] = d.metrics["update_stalls"] + One(stall > 0)
       /\ k["overhead"] = d.metrics["overhead"] + UpdateCost
       /\ \A n \in MetricNames \ {"update_stalls", "overhead"} : k[n] = d.metrics[n]
  <2>1. "update_stalls" \in MetricNames /\ "overhead" \in MetricNames
        /\ d.metrics \in [MetricNames -> Nat]
    BY <1>6 DEF MetricNames, States, State
  <2> DEFINE a == d.metrics["update_stalls"] + One(stall > 0)
             b == d.metrics["overhead"] + UpdateCost
  <2>2. a \in Nat /\ b \in Nat
    BY <1>9, <2>1 DEF One
  <2>3. k = [d.metrics EXCEPT !["update_stalls"] = a, !["overhead"] = b]
    OBVIOUS
  <2> HIDE DEF a, b, k
  <2>4. /\ k \in [MetricNames -> Nat]
        /\ k["update_stalls"] = a /\ k["overhead"] = b
        /\ \A n \in MetricNames \ {"update_stalls", "overhead"} : k[n] = d.metrics[n]
    BY <2>1, <2>2, <2>3
  <2> QED BY <2>4 DEF a, b
<1> HIDE DEF k
<1>11. Now' \in States /\ Where(Now)' /\ Counts(Now)'
  <2> DEFINE t == [caches |-> d.caches, pending |-> d.pending, prefetched |-> d.prefetched,
                   demanded |-> d.demanded, polluted |-> d.polluted, metrics |-> k]
  <2>1. Now' = t
    BY <1>3 DEF Now
  <2>2. \A n \in Ledger : k[n] = d.metrics[n]
    BY <1>10 DEF Ledger, MetricNames
  <2>3. t \in States /\ Where(t) /\ Counts(t)
    BY <1>6, <1>10, <2>2, MetricsOnly
  <2> HIDE DEF t
  <2> QED BY <2>1, <2>3
<1>12. LoopOK'
  BY <1>1, <1>3, <1>8, <1>9 DEF LoopOK
<1>13. Classes(metrics, index)'
  <2> DEFINE E == AccessEvicts(s.caches, line)
             owed == line \in s.polluted \cup (E \cap s.prefetched)
             hides == Excess(LATENCY[DRAM], wait + LATENCY[level]) > 0
             cold == level = DRAM
             waits == wait > 0
  <2>1. Classes(metrics, index) /\ metrics \in [MetricNames -> Nat]
    BY <1>1, NowIs DEF IInv, States, State
  <2>2. \A n \in Classing \ {"useful", "pollution"} : s.metrics[n] = metrics[n]
    BY <1>2, NowIs DEF Serving, Touchable, MetricNames, Classing
  <2>3. s.metrics["useful"] = metrics["useful"] /\ s.metrics["pollution"] = metrics["pollution"]
    BY <1>2, NowIs DEF Serving, Touchable, MetricNames
  <2>4. \A n \in Classing : k[n] = d.metrics[n]
    BY <1>10 DEF Classing, MetricNames
  <2>5. serves => ~ cold
    <3>1. SUFFICES ASSUME serves PROVE level # DRAM
      OBVIOUS
    <3>2. line \in SE!ToSet(s.caches[DESTINATION]) /\ DESTINATION \in Level
      BY <1>4, <3>1, RequestsAssumption DEF Where
    <3>3. Holds(s.caches[DESTINATION], line)
      BY <3>2, HoldsIs
    <3>4. ~ (DESTINATION < level)
      BY <3>2, <3>3, LevelOfIs
    <3> HIDE DEF level
    <3> QED BY <3>2, <3>4 DEF DRAM, Level
  <2>6. Excess(LATENCY[DRAM], wait + LATENCY[level]) \in Nat
    <3> HIDE DEF level
    <3>1. wait + LATENCY[level] \in Nat
      BY <1>2, <1>7
    <3> QED BY <3>1, LatenciesAre
  <2>7. (wait = 0 <=> ~ waits) /\ (Excess(LATENCY[DRAM], wait + LATENCY[level]) = 0 <=> ~ hides)
    BY <1>2, <2>6
  <2> HIDE DEF level
  <2>8. /\ k["useful"] = metrics["useful"] + One(serves)
        /\ k["pollution"] = metrics["pollution"] + One(~ serves /\ owed)
    BY <1>5, <2>3, <2>4 DEF Accessed, Classing
  <2>9. /\ d.metrics["fully"] = s.metrics["fully"] + One(serves /\ ~ waits)
        /\ d.metrics["partially"] = s.metrics["partially"] + One(serves /\ waits /\ hides)
        /\ d.metrics["unhidden"] = s.metrics["unhidden"]
              + One((serves /\ waits /\ ~ hides) \/ (~ serves /\ (cold \/ owed)))
        /\ d.metrics["late"] = s.metrics["late"] + One(waits)
        /\ d.metrics["dram"] = s.metrics["dram"] + One(cold)
    <3> HIDE DEF E
    <3> QED BY <1>5, <2>7 DEF Recorded, level, E
  <2> HIDE DEF serves, waits, hides, cold, owed
  <2>10. /\ k["fully"] = metrics["fully"] + One(serves /\ ~ waits)
         /\ k["partially"] = metrics["partially"] + One(serves /\ waits /\ hides)
         /\ k["unhidden"] = metrics["unhidden"]
               + One((serves /\ waits /\ ~ hides) \/ (~ serves /\ (cold \/ owed)))
         /\ k["late"] = metrics["late"] + One(waits)
         /\ k["dram"] = metrics["dram"] + One(cold)
    BY <2>2, <2>4, <2>9 DEF Classing
  <2>11. /\ serves \in BOOLEAN /\ waits \in BOOLEAN /\ hides \in BOOLEAN /\ cold \in BOOLEAN
         /\ owed \in BOOLEAN
    BY DEF serves, waits, hides, cold, owed
  <2>12. Classes(k, index + 1)
    <3>1. Classed(metrics, k, serves, waits, hides, cold, owed)
      BY <2>8, <2>10 DEF Classed
    <3> QED BY <1>1, <1>10, <2>1, <2>5, <2>11, <3>1, ClassesDemand
  <2> QED BY <1>3, <2>12
<1>14. Clock(metrics, cycle, Looked)'
  <2>1. Clock(metrics, cycle, index) /\ metrics \in [MetricNames -> Nat]
    BY <1>1, <1>3, NowIs DEF IInv, Looked, States, State
  <2>2. \A n \in {"raw", "lateness", "overhead", "issue_cost", "queue_wait", "update_stalls",
                   "port_stalls"} : s.metrics[n] = metrics[n]
    BY <1>2, NowIs DEF Serving, Touchable, MetricNames
  <2> HIDE DEF serves
  <2>3. /\ d.metrics["lateness"] = s.metrics["lateness"] + wait
        /\ d.metrics["raw"] = s.metrics["raw"] + LATENCY[level]
        /\ \A n \in {"overhead", "issue_cost", "queue_wait", "update_stalls", "port_stalls"} :
             d.metrics[n] = s.metrics[n]
    BY <1>5 DEF Recorded
  <2>4. \A n \in {"raw", "lateness", "issue_cost", "queue_wait", "port_stalls"} :
          k[n] = d.metrics[n]
    BY <1>10 DEF MetricNames
  <2> HIDE DEF level
  <2>5. /\ k["raw"] = metrics["raw"] + LATENCY[level]
        /\ k["lateness"] = metrics["lateness"] + wait
        /\ k["overhead"] = metrics["overhead"] + UpdateCost
        /\ k["update_stalls"] = metrics["update_stalls"] + One(stall > 0)
        /\ \A n \in {"issue_cost", "queue_wait", "port_stalls"} : k[n] = metrics[n]
    BY <1>10, <2>2, <2>3, <2>4
  <2>6. Clock(k, cycle + wait + LATENCY[level] + stall + UpdateCost, index)
    BY <1>1, <1>2, <1>7, <1>9, <1>10, <2>1, <2>5, ClockDemand DEF level
  <2>7. Looked' = index
    BY <1>1, <1>3 DEF Looked
  <2> QED BY <1>3, <2>6, <2>7 DEF now
<1> QED BY <1>3, <1>11, <1>12, <1>13, <1>14 DEF IInv

\* So does a look-up.
LEMMA LookupIInv ==
  ASSUME IInv, NEW predictions \in Predictions, Lookup(predictions)
  PROVE  IInv'
<1> DEFINE wait == Excess(turns.lookup, cycle)
           cost == EffectiveLookup
           valid == Valid(predictions)
           mm == [metrics EXCEPT !["overhead"] = @ + cost,
                                 !["queue_wait"] = @ + wait,
                                 !["abandoned"] = @ + One(Abandoned)]
           start == [pending |-> pending, cycle |-> cycle + wait + cost, metrics |-> mm]
           p == Proposed(start, valid)
           stall == Excess(Len(valid), READ_PORTS)
           k == [p.metrics EXCEPT !["port_stalls"] = @ + stall]
<1>1. /\ Now \in States /\ Where(Now) /\ Counts(Now) /\ cycle \in Nat /\ LoopOK
      /\ index \in Nat /\ index >= 1 /\ length \in Nat
      /\ metrics \in [MetricNames -> Nat]
  BY NowIs DEF IInv, Lookup, LoopOK, States, State
<1>2. /\ phase = "lookup" /\ phase' = "demand"
      /\ turns' = [turns EXCEPT !.lookup = cycle + wait + LOOKUP_INTERVAL]
      /\ pending' = p.pending
      /\ metrics' = k
      /\ cycle' = p.cycle + stall + COMPUTE
      /\ UNCHANGED <<mode, length, index, caches, prefetched, demanded, polluted>>
  BY DEF Lookup
<1>3. PICK n \in Nat : predictions \in [1 .. n -> Prediction]
  BY HorizonAssumption DEF Predictions
<1>4. PICK i \in Nat : valid \in [1 .. i -> Prediction]
  BY <1>3, ValidIs
<1>5. Len(valid) \in Nat
  <2> HIDE DEF valid
  <2>1. Len(valid) = i
    BY <1>4
  <2> QED BY <2>1
<1> HIDE DEF valid
<1>6. wait \in Nat /\ cost \in Nat /\ stall \in Nat /\ COMPUTE \in Nat
      /\ LOOKUP_INTERVAL \in Nat
  <2>1. /\ turns.lookup \in Nat /\ READ_PORTS \in Nat /\ LOOKUP \in Nat /\ OVERLAP \in Nat
        /\ COMPUTE \in Nat /\ LOOKUP_INTERVAL \in Nat
    BY <1>1, HorizonAssumption DEF LoopOK
  <2> QED BY <1>1, <1>5, <2>1, LatenciesAre DEF EffectiveLookup
<1> HIDE DEF wait, cost, stall
<1>7. /\ mm \in [MetricNames -> Nat]
      /\ mm["overhead"] = metrics["overhead"] + cost
      /\ mm["queue_wait"] = metrics["queue_wait"] + wait
      /\ \A x \in MetricNames \ {"overhead", "queue_wait", "abandoned"} : mm[x] = metrics[x]
  <2>1. "overhead" \in MetricNames /\ "queue_wait" \in MetricNames /\ "abandoned" \in MetricNames
    BY DEF MetricNames
  <2> DEFINE a == metrics["overhead"] + cost
             b == metrics["queue_wait"] + wait
             c == metrics["abandoned"] + One(Abandoned)
  <2>2. a \in Nat /\ b \in Nat /\ c \in Nat
    BY <1>1, <1>6, <2>1 DEF One
  <2>3. mm = [metrics EXCEPT !["overhead"] = a, !["queue_wait"] = b, !["abandoned"] = c]
    OBVIOUS
  <2> HIDE DEF a, b, c, mm
  <2>4. /\ mm \in [MetricNames -> Nat]
        /\ mm["overhead"] = a /\ mm["queue_wait"] = b
        /\ \A x \in MetricNames \ {"overhead", "queue_wait", "abandoned"} : mm[x] = metrics[x]
    BY <1>1, <2>1, <2>2, <2>3
  <2> QED BY <2>4 DEF a, b
<1> HIDE DEF mm
<1>8. start \in Looking
  <2>1. cycle + wait + cost \in Nat
    BY <1>1, <1>6
  <2>2. pending \in {q \in Seq(Request) : OneEach(q)}
    BY <1>1, NowIs DEF States, State
  <2> QED BY <1>7, <2>1, <2>2 DEF Looking
<1>9. start.metrics = mm /\ start.cycle = cycle + wait + cost /\ start.pending = pending
  OBVIOUS
<1>10. Where(Around(start)) /\ Counts(Around(start))
  <2>1. \A x \in Ledger : mm[x] = Now.metrics[x]
    BY <1>7, NowIs DEF Ledger, MetricNames
  <2>2. Around(start) = [caches |-> Now.caches, pending |-> Now.pending,
                         prefetched |-> Now.prefetched, demanded |-> Now.demanded,
                         polluted |-> Now.polluted, metrics |-> mm]
    BY <1>9, NowIs DEF Around
  <2> QED BY <1>1, <1>7, <2>1, <2>2, MetricsOnly
<1> HIDE DEF start
<1>11. Kept(p, start)
  BY <1>1, <1>4, <1>8, ProposedIs
<1> HIDE DEF p
<1>12. p \in Looking /\ Where(Around(p)) /\ Counts(Around(p)) /\ Around(p) \in States
  BY <1>1, <1>10, <1>11, AroundIs DEF Kept
<1>13. p.metrics \in [MetricNames -> Nat] /\ p.cycle \in Nat
  BY <1>12 DEF Looking
<1>14. /\ k \in [MetricNames -> Nat]
       /\ k["port_stalls"] = p.metrics["port_stalls"] + stall
       /\ \A x \in MetricNames \ {"port_stalls"} : k[x] = p.metrics[x]
  <2>1. "port_stalls" \in MetricNames
    BY DEF MetricNames
  <2> QED BY <1>6, <1>13, <2>1
<1> HIDE DEF k
<1>15. Now' \in States /\ Where(Now)' /\ Counts(Now)'
  <2> DEFINE a == Around(p)
             t == [caches |-> a.caches, pending |-> a.pending, prefetched |-> a.prefetched,
                   demanded |-> a.demanded, polluted |-> a.polluted, metrics |-> k]
  <2>1. a.metrics = p.metrics
    BY DEF Around
  <2>2. Now' = t
    BY <1>2 DEF Now, Around
  <2>3. \A x \in Ledger : k[x] = a.metrics[x]
    BY <1>14, <2>1 DEF Ledger, MetricNames
  <2> HIDE DEF a
  <2>4. t \in States /\ Where(t) /\ Counts(t)
    BY <1>12, <1>14, <2>3, MetricsOnly DEF a
  <2> HIDE DEF t
  <2> QED BY <2>2, <2>4
<1>16. LoopOK'
  <2>1. cycle' \in Nat
    BY <1>2, <1>6, <1>13
  <2>2. cycle + wait + LOOKUP_INTERVAL \in Nat
    BY <1>1, <1>6
  <2>3. turns' \in [lookup : Nat, update : Nat, buffered : 0 .. BATCH - 1]
    BY <1>1, <1>2, <2>2 DEF LoopOK
  <2> QED BY <1>1, <1>2, <2>1, <2>3 DEF LoopOK
<1>17. \A x \in MetricNames \ Proposable : p.metrics[x] = mm[x]
  BY <1>9, <1>11 DEF Kept
<1>18. Classes(metrics, index)'
  <2>1. \A x \in Classing : k[x] = metrics[x]
    BY <1>7, <1>14, <1>17 DEF Classing, MetricNames, Proposable
  <2>2. Classes(metrics, index)
    BY DEF IInv
  <2> QED BY <1>2, <2>1, <2>2 DEF Classes, Classing
<1>19. Clock(metrics, cycle, Looked)'
  <2> DEFINE before == index - 1
             at == p.cycle
  <2>1. Clock(metrics, cycle, before) /\ before \in Nat /\ at \in Nat
    BY <1>1, <1>2, <1>13 DEF IInv, Looked
  <2>2. /\ \A x \in {"raw", "lateness", "overhead", "queue_wait", "port_stalls", "update_stalls"} :
             p.metrics[x] = mm[x]
        /\ \A x \in {"raw", "lateness", "overhead", "queue_wait", "issue_cost", "update_stalls"} :
             k[x] = p.metrics[x]
        /\ \A x \in {"raw", "lateness", "issue_cost", "port_stalls", "update_stalls"} :
             mm[x] = metrics[x]
    BY <1>7, <1>14, <1>17 DEF MetricNames, Proposable
  <2>3. /\ k["overhead"] = metrics["overhead"] + cost
        /\ k["queue_wait"] = metrics["queue_wait"] + wait
        /\ k["port_stalls"] = metrics["port_stalls"] + stall
        /\ \A x \in {"raw", "lateness", "update_stalls"} : k[x] = metrics[x]
    BY <1>7, <1>14, <2>2
  <2>4. at + metrics["issue_cost"] = (cycle + wait + cost) + k["issue_cost"]
    BY <1>9, <1>11, <2>2 DEF Kept
  <2>5. Looked' = before + 1
    BY <1>1, <1>2 DEF Looked
  <2> DEFINE later == at + stall + COMPUTE
             next == before + 1
             a == metrics["overhead"]
             b == metrics["queue_wait"]
             e == metrics["issue_cost"]
             f == metrics["port_stalls"]
             g == k["issue_cost"]
  <2>6. /\ a \in Nat /\ b \in Nat /\ e \in Nat /\ f \in Nat /\ g \in Nat
    BY <1>1, <1>14 DEF MetricNames
  <2> HIDE DEF before, at
  <2>7. later \in Nat
    BY <1>6, <2>1
  <2>8. later + metrics["overhead"] + metrics["queue_wait"] + metrics["issue_cost"]
          + metrics["port_stalls"]
          = cycle + COMPUTE + k["overhead"] + k["queue_wait"] + k["issue_cost"] + k["port_stalls"]
    <3>1. at + e = (cycle + wait + cost) + g
      BY <2>4
    <3> HIDE DEF a, b, e, f, g
    <3>2. cycle \in Nat
      BY <1>1
    <3>3. (at + stall + COMPUTE) + a + b + e + f
            = cycle + COMPUTE + (a + cost) + (b + wait) + g + (f + stall)
      BY ONLY <1>6, <2>1, <2>6, <3>1, <3>2
    <3> QED BY <2>3, <3>3 DEF a, b, e, f, g
  <2> HIDE DEF later, next
  <2>9. Clock(k, later, next)
    BY <1>1, <1>14, <2>1, <2>3, <2>7, <2>8, ClockLookup DEF next
  <2> QED BY <1>2, <2>5, <2>9 DEF at, later, next
<1> QED BY <1>2, <1>15, <1>16, <1>18, <1>19 DEF IInv

\* So does the end: what is left of the prefetches is waste, and the last batch of
\* updates is paid for.
LEMMA FinishIInv ==
  ASSUME IInv, Finish
  PROVE  IInv'
<1> DEFINE left == Len(pending) + Cardinality(prefetched)
           flush == IF mode.deferred /\ turns.buffered > 0 THEN UPDATE ELSE 0
           m == metrics
           k == [m EXCEPT !["overhead"] = @ + flush,
                          !["unused"] = @ + Len(pending) + Cardinality(prefetched)]
<1>1. /\ Now \in States /\ Where(Now) /\ Counts(Now) /\ cycle \in Nat /\ LoopOK
      /\ index \in Nat
  BY DEF IInv, Finish, LoopOK
<1>2. /\ metrics' = k /\ phase' = "done" /\ phase = "demand" /\ cycle' = cycle + flush
      /\ UNCHANGED <<mode, length, index, caches, pending, prefetched, demanded, polluted, turns>>
  BY DEF Finish
<1>3. /\ m \in [MetricNames -> Nat] /\ pending \in Seq(Request)
      /\ Cardinality(prefetched) \in Nat /\ Len(pending) \in Nat
  BY <1>1, PrefetchedFinite, NowIs DEF States, State
<1>4. left \in Nat /\ flush \in Nat
  BY <1>3, HorizonAssumption
<1>5. /\ k \in [MetricNames -> Nat]
      /\ k["unused"] = m["unused"] + left
      /\ k["overhead"] = m["overhead"] + flush
      /\ \A n \in MetricNames \ {"unused", "overhead"} : k[n] = m[n]
  <2>1. "unused" \in MetricNames /\ "overhead" \in MetricNames
    BY DEF MetricNames
  <2> DEFINE a == m["unused"] + Len(pending) + Cardinality(prefetched)
             b == m["overhead"] + flush
  <2>2. k = [m EXCEPT !["overhead"] = b, !["unused"] = a]
    OBVIOUS
  <2>3. m["unused"] \in Nat /\ m["overhead"] \in Nat
    BY <1>3, <2>1
  <2> HIDE DEF m, flush
  <2>4. a \in Nat /\ b \in Nat /\ a = m["unused"] + left
    <3> DEFINE lp == Len(pending)
               cp == Cardinality(prefetched)
    <3>1. lp \in Nat /\ cp \in Nat
      BY <1>3
    <3>2. a = m["unused"] + lp + cp /\ left = lp + cp
      OBVIOUS
    <3> HIDE DEF lp, cp, a, left
    <3> QED BY <1>4, <2>3, <3>1, <3>2
  <2> HIDE DEF a, k, left, b
  <2>5. /\ k \in [MetricNames -> Nat] /\ k["unused"] = a /\ k["overhead"] = b
        /\ \A n \in MetricNames \ {"unused", "overhead"} : k[n] = m[n]
    BY <1>3, <2>1, <2>2, <2>4
  <2> QED BY <2>4, <2>5 DEF b
<1> HIDE DEF k, flush
<1>6. Now' \in States
  <2>1. Now' = [Now EXCEPT !.metrics = k]
    BY <1>2 DEF Now
  <2> QED BY <1>1, <1>5, <2>1 DEF States, State
<1>7. Where(Now)'
  BY <1>1, <1>2, NowIs DEF Where, Now
<1>8. /\ m["requests"] = m["duplicates"] + m["dropped"] + m["issued"]
      /\ m["issued"] = m["completed"] + Len(pending)
      /\ m["issued"] = m["useful"] + m["unused"] + Len(pending) + Cardinality(prefetched)
      /\ m["pollution"] + Cardinality(polluted) <= m["unused"]
      /\ IsFiniteSet(polluted)
  BY <1>1, NowIs DEF Counts
<1>9. \A n \in {"requests", "duplicates", "dropped", "issued", "completed", "useful", "pollution"} :
        k[n] = m[n]
  BY <1>5 DEF MetricNames
<1>10. PrefetchesAccounted'
  <2>1. m["useful"] \in Nat /\ m["unused"] \in Nat
    BY <1>3 DEF MetricNames
  <2>2. m["issued"] = m["useful"] + (m["unused"] + left) + 0
    <3>1. m["issued"] = m["useful"] + m["unused"] + Len(pending) + Cardinality(prefetched)
      BY <1>8
    <3> QED BY ONLY <1>3, <2>1, <3>1
  <2> HIDE DEF left
  <2> QED BY <1>2, <1>5, <1>8, <1>9, <2>2 DEF PrefetchesAccounted
<1>11. PollutionAccounted'
  <2>1. m["pollution"] \in Nat /\ m["unused"] \in Nat /\ Cardinality(polluted) \in Nat
    BY <1>3, <1>8, FS_CardinalityType DEF MetricNames
  <2> HIDE DEF left
  <2>2. m["pollution"] + Cardinality(polluted) <= m["unused"] + left
    BY <1>4, <1>8, <2>1
  <2> QED BY <1>2, <1>5, <1>9, <2>2 DEF PollutionAccounted
<1>12. Classes(metrics, index)'
  <2>1. \A n \in Classing : k[n] = m[n]
    BY <1>5 DEF Classing, MetricNames
  <2>2. Classes(m, index)
    BY DEF IInv
  <2> QED BY <1>2, <2>1, <2>2 DEF Classes, Classing
<1>13. Clock(metrics, cycle, Looked)'
  <2>1. Clock(m, cycle, index)
    BY <1>2 DEF IInv, Looked
  <2>2. \A n \in {"raw", "lateness", "issue_cost", "queue_wait", "port_stalls", "update_stalls"} :
          k[n] = m[n] /\ m[n] \in Nat
    BY <1>3, <1>5 DEF MetricNames
  <2>3. k["update_stalls"] = m["update_stalls"] + One(0 > 0)
    BY <2>2 DEF One
  <2>4. Clock(k, cycle + 0 + 0 + 0 + flush, index)
    <3>1. k["raw"] = m["raw"] + 0 /\ k["lateness"] = m["lateness"] + 0
      BY <2>2
    <3> HIDE DEF m
    <3> QED BY <1>1, <1>3, <1>4, <1>5, <2>1, <2>2, <2>3, <3>1, ClockDemand
  <2>5. cycle + 0 + 0 + 0 + flush = cycle + flush /\ Looked' = index
    BY <1>1, <1>2, <1>4 DEF Looked
  <2> QED BY <1>2, <2>4, <2>5
<1>14. LoopOK'
  <2>1. cycle' \in Nat
    BY <1>1, <1>2, <1>4
  <2> QED BY <1>1, <1>2, <2>1 DEF LoopOK
<1> QED BY <1>2, <1>6, <1>7, <1>10, <1>11, <1>12, <1>13, <1>14 DEF IInv

\* So does a step that changes nothing.
LEMMA StutterIInv ==
  ASSUME IInv, UNCHANGED vars
  PROVE  IInv'
BY DEF vars, IInv, LoopOK, Now, Where, Counts, PrefetchesAccounted, PollutionAccounted, Classes,
       Clock, Spent, Looked

\* The invariant of the horizon simulator, which holds of every trace, every
\* predictor and every hierarchy.
THEOREM Invariant == Spec => []IInv
<1>1. IInv /\ [Next]_vars => IInv'
  BY DemandIInv, LookupIInv, FinishIInv, StutterIInv DEF Next
<1> QED BY InitIInv, <1>1, PTL DEF Spec

\* Type correctness.
THEOREM TypeCorrect == Spec => []TypeOK
<1>1. IInv => TypeOK
  BY NowIs DEF IInv, LoopOK, States, State, Hierarchies, TypeOK
<1> QED BY Invariant, <1>1, PTL

\* Every line keeps its place: no request is outstanding for a cached line, a
\* prefetched line is at its destination and nowhere else.
THEOREM EveryLinePlaced == Spec => []LinesPlaced
<1>1. ASSUME IInv PROVE Placed(Now)
  <2>1. Now \in States /\ Where(Now)
    BY <1>1 DEF IInv
  <2>2. ASSUME NEW l \in Level
        PROVE  /\ Len(Now.caches[l]) = Cardinality(SE!ToSet(Now.caches[l]))
               /\ Len(Now.caches[l]) <= CAPACITY[l]
    <3>1. Now.caches[l] \in Seq(Address) /\ Distinct(Now.caches[l])
      BY <2>1 DEF States, State, Hierarchies
    <3>2. Len(Now.caches[l]) <= CAPACITY[l]
      BY <2>1 DEF States, State, Hierarchies
    <3> QED BY <3>1, <3>2, LinesFinite
  <2>3. Len(Now.pending) = Cardinality(Lines(Now.pending))
    <3> DEFINE q == Now.pending
               f == [i \in 1 .. Len(q) |-> q[i].line]
    <3>1. q \in Seq(Request) /\ OneEach(q)
      BY <2>1 DEF States, State
    <3> HIDE DEF q
    <3>2. Len(q) \in Nat /\ DOMAIN q = 1 .. Len(q)
      BY <3>1
    <3>3. \A i, j \in 1 .. Len(q) : f[i] = f[j] => i = j
      BY <3>1 DEF OneEach
    <3>4. \A t : t \in Lines(q) <=> \E i \in 1 .. Len(q) : t = f[i]
      BY <3>2 DEF Lines
    <3> HIDE DEF f
    <3>5. Cardinality(Lines(q)) = Len(q)
      BY <3>2, <3>3, <3>4, DistinctSize
    <3> QED BY <3>5 DEF q
  <2> QED BY <2>1, <2>2, <2>3 DEF Where, Placed
<1>2. IInv => LinesPlaced
  BY <1>1 DEF LinesPlaced
<1> QED BY Invariant, <1>2, PTL

\* The counters of the report balance.
THEOREM EveryCounterAccounted == Spec => []CountersAccounted
<1>1. IInv => CountersAccounted
  <2> SUFFICES ASSUME IInv PROVE CountersAccounted
    OBVIOUS
  <2>1. CASE phase = "done"
    BY <2>1 DEF IInv, CountersAccounted
  <2>2. CASE phase # "done"
    <3>1. Counts(Now) /\ pending \in Seq(Request) /\ metrics \in [MetricNames -> Nat]
          /\ Cardinality(prefetched) \in Nat
      BY <2>2, PrefetchedFinite, NowIs DEF IInv, States, State
    <3>2. metrics["useful"] \in Nat /\ metrics["unused"] \in Nat /\ Len(pending) \in Nat
      BY <3>1 DEF MetricNames
    <3>3. metrics["useful"] + metrics["unused"] + Len(pending) + Cardinality(prefetched)
            = metrics["useful"] + metrics["unused"] + (Len(pending) + Cardinality(prefetched))
      BY <3>1, <3>2
    <3>4. PrefetchesAccounted
      BY <2>2, <3>1, <3>3, NowIs DEF Counts, PrefetchesAccounted
    <3>5. PollutionAccounted
      BY <3>1, NowIs DEF Counts, PollutionAccounted
    <3> QED BY <3>4, <3>5 DEF IInv, CountersAccounted
  <2> QED BY <2>1, <2>2
<1> QED BY Invariant, <1>1, PTL

\* Every DRAM access is one unhidden miss, every other unhidden miss a pollution or
\* a prefetch that came too late to hide anything.
THEOREM EveryMissClassified == Spec => []MissesClassified
<1>1. IInv => MissesClassified
  BY CausesAre DEF IInv
<1> QED BY Invariant, <1>1, PTL

\* Every cycle of the clock is recorded, or an update waited for its turn.
THEOREM EveryCycleAttributed == Spec => []ClockAttributed
<1>1. IInv => ClockAttributed
  BY CausesAre DEF IInv
<1> QED BY Invariant, <1>1, PTL

================================================================================
