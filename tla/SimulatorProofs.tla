---------------------------- MODULE SimulatorProofs ----------------------------
(***************************************************************************)
(* Every line in its place and every counter accounted for, for any        *)
(* hierarchy, costs, limits and predictor, and traces of any length.       *)
(***************************************************************************)
EXTENDS Simulator, StorageProofs

\* The states of the loop, whose counters are the simulator's own.
States == State(MetricNames)

\* The state of the simulator, by field.
LEMMA StatesAre ==
  \A st : st \in States <=>
    st \in [caches : Hierarchies, pending : {q \in Seq(Request) : OneEach(q)},
           prefetched : SUBSET Address, demanded : SUBSET Address,
           polluted : SUBSET Address, metrics : [MetricNames -> Nat]]
BY DEF States, State

\* The simulator keeps the counters of the ledger.
LEMMA LedgerKept == Ledger \subseteq MetricNames
BY DEF Ledger, MetricNames

\* _mark_evictions()
LEMMA MarkEvictionsIs ==
  ASSUME NEW st \in States, NEW E, IsFiniteSet(E)
  PROVE  Marked(MetricNames, MarkEvictions(st, E), st, E)
<1> DEFINE wasted == E \cap st.prefetched
           lost == (E \ st.prefetched) \cap st.demanded
           m == MarkEvictions(st, E)
           mm == [st.metrics EXCEPT !["unused"] = @ + Cardinality(wasted),
                                    !["evictions"] = @ + Cardinality(lost)]
<1>1. IsFiniteSet(wasted) /\ Cardinality(wasted) \in Nat
  BY FS_Subset, FS_CardinalityType
<1>2. IsFiniteSet(lost) /\ Cardinality(lost) \in Nat
  BY FS_Subset, FS_CardinalityType
<1>3. m = [st EXCEPT !.prefetched = @ \ wasted,
                     !.demanded = @ \ lost,
                     !.polluted = @ \cup wasted,
                     !.metrics = mm]
  BY DEF MarkEvictions
<1>4. /\ mm \in [MetricNames -> Nat]
      /\ mm["unused"] = st.metrics["unused"] + Cardinality(wasted)
      /\ \A n \in MetricNames \ {"unused", "evictions"} : mm[n] = st.metrics[n]
  <2> HIDE DEF wasted, lost
  <2>1. st.metrics \in [MetricNames -> Nat]
    BY DEF States, State
  <2> QED BY <1>1, <1>2, <2>1 DEF MetricNames
<1> HIDE DEF mm
<1>5. /\ m \in States
      /\ m.caches = st.caches
      /\ m.pending = st.pending
      /\ m.prefetched = st.prefetched \ wasted
      /\ m.demanded = st.demanded \ lost
      /\ m.polluted = st.polluted \cup wasted
      /\ m.metrics = mm
  <2> HIDE DEF m
  <2> QED BY <1>3, <1>4 DEF States, State
<1> HIDE DEF m
<1> QED BY <1>1, <1>4, <1>5 DEF m, Marked, States

\* One request of complete_ready()
LEMMA CompleteIs ==
  ASSUME NEW st \in States, NEW r \in Request
  PROVE  Completed(MetricNames, Complete(st, r), st, r)
<1> DEFINE E == PrefetchEvicts(st.caches, r.line, DESTINATION)
           mm == [st.metrics EXCEPT !["completed"] = @ + 1]
           b == [st EXCEPT !.pending = Popped(@, r.line),
                           !.metrics = mm,
                           !.caches = AfterPrefetch(@, r.line, DESTINATION),
                           !.prefetched = @ \cup {r.line}]
<1>1. r.line \in Address /\ DESTINATION \in Level /\ st.caches \in Hierarchies
  BY SimulatorAssumption, RequestsAssumption DEF Request, States, State
<1>2. AfterPrefetch(st.caches, r.line, DESTINATION) \in Hierarchies /\ IsFiniteSet(E)
  BY <1>1, PrefetchIs
<1>3. Popped(st.pending, r.line) \in {q \in Seq(Request) : OneEach(q)}
  BY PoppedIs DEF States, State
<1>4. /\ mm \in [MetricNames -> Nat]
      /\ mm["completed"] = st.metrics["completed"] + 1
      /\ \A n \in MetricNames \ {"completed"} : mm[n] = st.metrics[n]
  <2>1. st.metrics \in [MetricNames -> Nat]
    BY DEF States, State
  <2> QED BY <2>1 DEF MetricNames
<1>5. Complete(st, r) = MarkEvictions(b, E)
  BY DEF Complete
<1> HIDE DEF E, mm
<1>6. /\ b \in States
      /\ b.caches = AfterPrefetch(st.caches, r.line, DESTINATION)
      /\ b.pending = Popped(st.pending, r.line)
      /\ b.prefetched = st.prefetched \cup {r.line}
      /\ b.demanded = st.demanded
      /\ b.polluted = st.polluted
      /\ b.metrics = mm
  BY <1>1, <1>2, <1>3, <1>4 DEF States, State
<1> HIDE DEF b
<1> DEFINE c == MarkEvictions(b, E)
<1>6a. b \in States /\ IsFiniteSet(E)
  BY <1>2, <1>6
<1>7. Marked(MetricNames, c, b, E)
  BY <1>6a, MarkEvictionsIs
<1> HIDE DEF c
<1>8. /\ c.metrics["completed"] = st.metrics["completed"] + 1
      /\ c.metrics["unused"] = st.metrics["unused"] + Cardinality(E \cap b.prefetched)
      /\ \A n \in MetricNames \ Touchable : c.metrics[n] = st.metrics[n]
  BY <1>4, <1>6, <1>7 DEF MetricNames, Touchable, Marked
<1> QED BY <1>5, <1>6, <1>7, <1>8 DEF c, E, Marked, Completed, States

----------------------------------------------------------------------------
(* complete_ready()                                                        *)

\* complete_ready() completes all requests that are due, and no other.
LEMMA CompleteReadyIs ==
  ASSUME NEW st \in States, Where(st), NEW now \in Nat
  PROVE  Readied(MetricNames, CompleteReady(st, now), st, now)
<1> DEFINE q == st.pending
           n == Len(q)
           Next1(s, i) == IF q[i].ready <= now THEN Complete(s, q[i]) ELSE s
           after == CHOOSE f : f = [i \in 0 .. n |-> IF i = 0 THEN st ELSE
                                      IF q[i].ready <= now THEN Complete(f[i - 1], q[i])
                                      ELSE f[i - 1]]
           step == [p \in States \X (1 .. n) |-> Next1(p[1], p[2])]
<1>1. /\ n \in Nat /\ DOMAIN q = 1 .. n /\ OneEach(q)
      /\ \A i \in 1 .. n : q[i] \in Request
  BY DEF States, State
<1>2. CompleteReady(st, now) = after[n]
  BY DEF CompleteReady
<1> HIDE DEF q, n
<1>3. \A s \in States, i \in 1 .. n : Next1(s, i) \in States
  BY <1>1, CompleteIs DEF Completed, States
<1>4. after = [i \in 0 .. n |-> IF i = 0 THEN st ELSE Next1(after[i - 1], i)]
  <2>1. step \in [States \X (1 .. n) -> States]
    <3> HIDE DEF Next1
    <3> QED BY <1>3
  <2>2. \A s \in States, i \in 1 .. n : step[<<s, i>>] = Next1(s, i)
    OBVIOUS
  <2> HIDE DEF step, Next1
  <2>3. PICK f \in [0 .. n -> States] : Recurs(f, n, st, step)
    BY <1>1, <2>1, RecursionExists
  <2>4. f = [i \in 0 .. n |-> IF i = 0 THEN st ELSE Next1(f[i - 1], i)]
    <3>1. ASSUME NEW i \in 1 .. n PROVE f[i] = Next1(f[i - 1], i)
      <4>1. i - 1 \in 0 .. n
        BY <1>1
      <4> QED BY <2>2, <2>3, <4>1 DEF Recurs
    <3>2. f[0] = st
      BY <2>3 DEF Recurs
    <3> QED BY <1>1, <3>1, <3>2
  <2> QED BY <2>4 DEF Next1
<1> HIDE DEF after, step
<1>5. after[0] = st
  BY <1>1, <1>4
<1>6. ASSUME NEW i \in 1 .. n, after[i - 1] \in States
      PROVE  IF q[i].ready <= now THEN Completed(MetricNames, after[i], after[i - 1], q[i])
             ELSE after[i] = after[i - 1]
  <2>1. after[i] = Next1(after[i - 1], i) /\ q[i] \in Request
    BY <1>1, <1>4
  <2>2. Completed(MetricNames, Complete(after[i - 1], q[i]), after[i - 1], q[i])
    BY <1>6, <2>1, CompleteIs
  <2> QED BY <2>1, <2>2
<1>7. Readied(MetricNames, after[n], st, now)
  BY <1>5, <1>6, ReadyIs, LedgerKept DEF q, n, States
<1> QED BY <1>2, <1>7

----------------------------------------------------------------------------
(* The demand access.                                                      *)

\* A demand access is what the ledger calls one, and counts itself late if it
\* waited, in DRAM if it went there, and in the control's DRAM if that one did.
LEMMA DemandedIs ==
  ASSUME NEW st \in States, NEW line \in Address, NEW wait \in Nat
  PROVE  /\ Accessed(MetricNames, Demanded(st, line, wait), st, line, LevelOf(st.caches, line) = DRAM)
         /\ LET d == Demanded(st, line, wait)
                m == st.metrics
            IN  /\ d.metrics["late"] = m["late"] + One(wait > 0)
                /\ d.metrics["dram"] = m["dram"] + One(LevelOf(st.caches, line) = DRAM)
                /\ d.metrics["baseline_dram"]
                     = m["baseline_dram"] + One(LevelOf(control, line) = DRAM)
<1> DEFINE level == LevelOf(st.caches, line)
           E == AccessEvicts(st.caches, line)
           g == AfterAccess(st.caches, line)
           b == [st EXCEPT !.caches = AfterAccess(@, line)]
           s == MarkEvictions(b, E)
           serves == line \in s.prefetched
           mm == [s.metrics EXCEPT
                   !["accesses"] = @ + 1,
                   !["late"] = @ + One(wait > 0),
                   !["dram"] = @ + One(level = DRAM),
                   !["pollution"] = @ + One(line \in s.polluted /\ level = DRAM),
                   !["useful"] = @ + One(serves),
                   !["saved"] = IF serves THEN @ + Saving(level, wait) ELSE @,
                   !["baseline_dram"] = @ + One(LevelOf(control, line) = DRAM)]
           d == Demanded(st, line, wait)
<1>1. g \in Hierarchies /\ IsFiniteSet(E)
  BY AccessIs DEF States, State
<1>2. /\ b \in States
      /\ b.caches = g
      /\ b.pending = st.pending /\ b.prefetched = st.prefetched /\ b.demanded = st.demanded
      /\ b.polluted = st.polluted /\ b.metrics = st.metrics
  <2> HIDE DEF g
  <2>1. b = [st EXCEPT !.caches = g]
    BY DEF g
  <2> HIDE DEF b
  <2> QED BY <1>1, <2>1 DEF States, State
<1>3. d = [s EXCEPT !.polluted = Repaid(@, line, level),
                    !.demanded = @ \cup {line},
                    !.prefetched = @ \ {line},
                    !.metrics = mm]
  BY DEF Demanded
<1> HIDE DEF b, E, g, d
<1>4. Marked(MetricNames, s, b, E)
  BY <1>1, <1>2, MarkEvictionsIs
<1> HIDE DEF s
<1>5. s.metrics \in [MetricNames -> Nat]
  BY <1>4 DEF Marked, States, State
<1>6. \A c \in BOOLEAN : One(c) \in Nat
  BY DEF One
<1>7. Saving(level, wait) \in Nat
  <2>1. level \in Level \cup {DRAM} /\ DRAM \in Level \cup {DRAM}
    BY LevelOfIs
  <2>2. LATENCY[level] \in Nat /\ LATENCY[DRAM] \in Nat
    BY <2>1, HierarchyAssumption
  <2> HIDE DEF level
  <2> QED BY <2>2 DEF Saving
<1> HIDE DEF level
<1>8. /\ mm \in [MetricNames -> Nat]
      /\ mm["late"] = s.metrics["late"] + One(wait > 0)
      /\ mm["dram"] = s.metrics["dram"] + One(level = DRAM)
      /\ mm["pollution"] = s.metrics["pollution"] + One(line \in s.polluted /\ level = DRAM)
      /\ mm["useful"] = s.metrics["useful"] + One(serves)
      /\ mm["baseline_dram"] = s.metrics["baseline_dram"] + One(LevelOf(control, line) = DRAM)
      /\ \A n \in {"requests", "duplicates", "dropped", "issued", "completed", "unused"} :
           mm[n] = s.metrics[n]
  BY <1>5, <1>6, <1>7 DEF MetricNames, One
<1> HIDE DEF mm
<1>9. /\ d \in States
      /\ d.caches = s.caches /\ d.pending = s.pending
      /\ d.prefetched = s.prefetched \ {line}
      /\ d.demanded = s.demanded \cup {line}
      /\ d.polluted = Repaid(s.polluted, line, level)
      /\ d.metrics = mm
  <2>1. s \in States /\ Repaid(s.polluted, line, level) \subseteq Address
    BY <1>4 DEF Marked, States, State, Repaid
  <2> QED BY <1>3, <1>8, <2>1 DEF States, State
<1>10. /\ s.caches = g /\ s.pending = st.pending
       /\ s.prefetched = st.prefetched \ E
       /\ s.demanded = st.demanded \ (E \ st.prefetched)
       /\ s.polluted = st.polluted \cup (E \cap st.prefetched)
       /\ IsFiniteSet(E \cap st.prefetched)
       /\ s.metrics["unused"] = st.metrics["unused"] + Cardinality(E \cap st.prefetched)
       /\ \A n \in MetricNames \ {"unused", "evictions"} : s.metrics[n] = st.metrics[n]
  BY <1>2, <1>4 DEF Marked
<1>11. \A n \in {"requests", "duplicates", "dropped", "issued", "completed", "late", "dram",
                  "pollution", "useful", "baseline_dram"} : s.metrics[n] = st.metrics[n]
  BY <1>10 DEF MetricNames
<1> QED BY <1>8, <1>9, <1>10, <1>11 DEF Accessed, States, Repaid, d, E, g, level

----------------------------------------------------------------------------
(* The predictions.                                                        *)

\* The state that the preparation of predictions works on.
Looking ==
  [pending : {q \in Seq(Request) : OneEach(q)}, prefetched : {prefetched}, caches : {caches},
   metrics : [MetricNames -> Nat], cycle : Nat]

\* The simulator's state with what such a state holds.
Around(l) ==
  [caches |-> caches, pending |-> l.pending, prefetched |-> prefetched,
   demanded |-> demanded, polluted |-> polluted, metrics |-> l.metrics]

\* The counters that proposing a prefetch may change.
Proposable == {"requests", "duplicates", "dropped", "issued"}

\* What proposals keep.
Kept(p, l) ==
  /\ p \in Looking
  /\ \A n \in MetricNames \ Proposable : p.metrics[n] = l.metrics[n]
  /\ Where(Around(l)) => Where(Around(p)) /\ (Counts(Around(l)) => Counts(Around(p)))

\* The fields of that state, by name.
LEMMA AroundIs ==
  ASSUME Now \in States, NEW l \in Looking
  PROVE  LET a == Around(l)
         IN  /\ a \in States
             /\ a.caches = caches /\ a.pending = l.pending /\ a.prefetched = prefetched
             /\ a.demanded = demanded /\ a.polluted = polluted /\ a.metrics = l.metrics
             /\ l.caches = caches /\ l.prefetched = prefetched
BY DEF Around, Now, States, State, Looking

\* One proposal keeps all that, whether it is dropped, a duplicate or issued.
LEMMA ProposeIs ==
  ASSUME Now \in States, NEW l \in Looking, NEW line \in Address
  PROVE  Kept(Propose(l, line), l)
<1> DEFINE p == Propose(l, line)
           m == l.metrics
           asked == [m EXCEPT !["requests"] = @ + 1]
           doubled == [asked EXCEPT !["duplicates"] = @ + 1]
           dropped == [asked EXCEPT !["dropped"] = @ + 1]
           issued == [asked EXCEPT !["issued"] = @ + 1]
           r == [line |-> line, ready |-> l.cycle + LATENCY[DRAM]]
           q == Append(l.pending, r)
           known == Requested(l.pending, line) \/ line \in l.prefetched \/ Contains(l.caches, line)
<1>1. /\ m \in [MetricNames -> Nat] /\ l.pending \in Seq(Request) /\ OneEach(l.pending)
      /\ l.cycle \in Nat /\ ISSUE_COST \in Nat /\ LATENCY[DRAM] \in Nat
      /\ Len(l.pending) \in Nat /\ MAX_OUTSTANDING \in Nat
  BY SimulatorAssumption, RequestsAssumption, HierarchyAssumption DEF Looking
<1>2. r \in Request /\ r.line = line
  BY <1>1 DEF Request
<1>3. /\ asked \in [MetricNames -> Nat]
      /\ asked["requests"] = m["requests"] + 1
      /\ \A n \in MetricNames \ {"requests"} : asked[n] = m[n]
  <2>1. "requests" \in MetricNames /\ m \in [MetricNames -> Nat]
    BY <1>1 DEF MetricNames
  <2> HIDE DEF m
  <2> QED BY <2>1
<1>4. SUFFICES ASSUME TRUE
               PROVE  /\ p \in Looking
                      /\ \A n \in MetricNames \ Proposable : p.metrics[n] = m[n]
                      /\ Proposal(MetricNames, Around(p), Around(l), line)
  <2> HIDE DEF p
  <2>1. Around(l) \in States
    BY AroundIs
  <2> QED BY <1>4, <2>1, ProposalWhere, ProposalCounts, LedgerKept DEF Kept, p, States
<1>5. CASE known \/ Len(l.pending) >= MAX_OUTSTANDING
  <2> DEFINE mm == IF known THEN doubled ELSE dropped
  <2>1. p = [l EXCEPT !.metrics = mm]
    BY <1>5 DEF Propose
  <2>2. /\ mm \in [MetricNames -> Nat]
        /\ \A n \in MetricNames \ Proposable : mm[n] = m[n]
        /\ mm["requests"] = m["requests"] + 1
        /\ mm["issued"] = m["issued"]
        /\ \/ mm["duplicates"] = m["duplicates"] + 1 /\ mm["dropped"] = m["dropped"]
           \/ mm["duplicates"] = m["duplicates"] /\ mm["dropped"] = m["dropped"] + 1
    <3> HIDE DEF known, asked, m
    <3>1. /\ doubled \in [MetricNames -> Nat]
          /\ doubled["duplicates"] = asked["duplicates"] + 1
          /\ \A n \in MetricNames \ {"duplicates"} : doubled[n] = asked[n]
      BY <1>3 DEF MetricNames
    <3>2. /\ dropped \in [MetricNames -> Nat]
          /\ dropped["dropped"] = asked["dropped"] + 1
          /\ \A n \in MetricNames \ {"dropped"} : dropped[n] = asked[n]
      BY <1>3 DEF MetricNames
    <3> HIDE DEF doubled, dropped
    <3>3. CASE known
      BY <1>3, <3>1, <3>3 DEF MetricNames, Proposable
    <3>4. CASE ~ known
      BY <1>3, <3>2, <3>4 DEF MetricNames, Proposable
    <3> QED BY <3>3, <3>4
  <2> HIDE DEF mm, p, known
  <2>3. p \in Looking /\ p.pending = l.pending /\ p.metrics = mm
    BY <2>1, <2>2 DEF Looking
  <2>4. \A n \in {"completed", "useful", "unused", "pollution"} : mm[n] = m[n]
    BY <2>2 DEF MetricNames, Proposable
  <2>5. Proposal(MetricNames, Around(p), Around(l), line)
    <3> HIDE DEF m
    <3> QED BY <2>2, <2>3, <2>4, AroundIs DEF Proposal, States, m
  <2> QED BY <2>2, <2>3, <2>5
<1>6. CASE ~ known /\ ~ (Len(l.pending) >= MAX_OUTSTANDING)
  <2>1. p = [l EXCEPT !.pending = q, !.metrics = issued, !.cycle = @ + ISSUE_COST]
    BY <1>6 DEF Propose
  <2>2. /\ issued \in [MetricNames -> Nat]
        /\ \A n \in MetricNames \ Proposable : issued[n] = m[n]
        /\ issued["requests"] = m["requests"] + 1
        /\ issued["issued"] = m["issued"] + 1
        /\ issued["duplicates"] = m["duplicates"]
        /\ issued["dropped"] = m["dropped"]
    <3> HIDE DEF asked, m
    <3>1. /\ issued \in [MetricNames -> Nat]
          /\ issued["issued"] = asked["issued"] + 1
          /\ \A n \in MetricNames \ {"issued"} : issued[n] = asked[n]
      BY <1>3 DEF MetricNames
    <3> HIDE DEF issued
    <3> QED BY <1>3, <3>1 DEF MetricNames, Proposable
  <2>3. /\ q \in Seq(Request) /\ OneEach(q) /\ Len(q) = Len(l.pending) + 1
        /\ Lines(q) = Lines(l.pending) \cup {line}
    <3>1. ~ Requested(l.pending, r.line)
      BY <1>2, <1>6
    <3> HIDE DEF r
    <3> QED BY <1>1, <1>2, <3>1, AppendIs
  <2>4. Len(l.pending) < MAX_OUTSTANDING /\ ~ Contains(l.caches, line)
    BY <1>1, <1>6
  <2>5. l.cycle + ISSUE_COST \in Nat
    BY ONLY <1>1
  <2> HIDE DEF q, issued, p, asked, known
  <2>6. p \in Looking /\ p.pending = q /\ p.metrics = issued
    BY <2>1, <2>2, <2>3, <2>5 DEF Looking
  <2>7. \A n \in {"completed", "useful", "unused", "pollution"} : issued[n] = m[n]
    BY <2>2 DEF MetricNames, Proposable
  <2>8. Proposal(MetricNames, Around(p), Around(l), line)
    <3> HIDE DEF m
    <3> QED BY <2>2, <2>3, <2>4, <2>6, <2>7, AroundIs DEF Proposal, States, m
  <2> QED BY <2>2, <2>6, <2>8
<1> QED BY <1>5, <1>6

\* So do all the proposals of one call.
LEMMA ProposedIs ==
  ASSUME Now \in States, NEW l \in Looking, NEW k \in Nat, NEW predictions \in [1 .. k -> Address]
  PROVE  Kept(Proposed(l, predictions), l)
<1> DEFINE after == CHOOSE f : f = [i \in 0 .. k |->
                       IF i = 0 THEN l ELSE Propose(f[i - 1], predictions[i])]
           step == [s \in Looking \X (1 .. k) |-> Propose(s[1], predictions[s[2]])]
<1>1. Len(predictions) = k
  OBVIOUS
<1>2. Proposed(l, predictions) = after[k]
  BY <1>1 DEF Proposed
<1>3. \A s \in Looking, i \in 1 .. k : Propose(s, predictions[i]) \in Looking
  BY ProposeIs DEF Kept
<1>4. after = [i \in 0 .. k |-> IF i = 0 THEN l ELSE Propose(after[i - 1], predictions[i])]
  <2>1. step \in [Looking \X (1 .. k) -> Looking]
    BY <1>3
  <2>2. \A s \in Looking, i \in 1 .. k : step[<<s, i>>] = Propose(s, predictions[i])
    OBVIOUS
  <2> HIDE DEF step
  <2>3. PICK f \in [0 .. k -> Looking] : Recurs(f, k, l, step)
    BY <2>1, RecursionExists
  <2>4. f = [i \in 0 .. k |-> IF i = 0 THEN l ELSE Propose(f[i - 1], predictions[i])]
    <3>1. ASSUME NEW i \in 1 .. k PROVE f[i] = Propose(f[i - 1], predictions[i])
      <4>1. i - 1 \in 0 .. k
        OBVIOUS
      <4> QED BY <2>2, <2>3, <4>1 DEF Recurs
    <3>2. f[0] = l
      BY <2>3 DEF Recurs
    <3> QED BY <3>1, <3>2
  <2> QED BY <2>4
<1> HIDE DEF after, step
<1> DEFINE T == {i \in 0 .. k : Kept(after[i], l)}
<1>5. 0 \in T
  <2>1. after[0] = l
    BY <1>4
  <2> QED BY <2>1 DEF Kept
<1>6. ASSUME NEW i \in 1 .. k, i - 1 \in T
      PROVE  i \in T
  <2>1. after[i] = Propose(after[i - 1], predictions[i])
    BY <1>4
  <2>2. Kept(after[i - 1], l)
    BY <1>6
  <2> DEFINE s == after[i - 1]
             p == Propose(s, predictions[i])
  <2>3. s \in Looking /\ predictions[i] \in Address
    BY <2>2 DEF Kept
  <2> HIDE DEF s
  <2>4. Kept(p, s)
    BY <2>3, ProposeIs
  <2> HIDE DEF p
  <2>5. Kept(p, l)
    BY <2>2, <2>4 DEF Kept, s
  <2> QED BY <2>1, <2>5 DEF p, s
<1> HIDE DEF T
<1>7. 0 .. k \subseteq T
  BY <1>5, <1>6, UpTo
<1> QED BY <1>2, <1>7 DEF T

----------------------------------------------------------------------------
(* The inductive invariant.                                                *)

\* The invariant: lines in their places and the counters balanced, until the end
\* settles what is left.
IInv ==
  /\ phase \in {"demand", "predict", "done"}
  /\ Now \in States
  /\ control \in Hierarchies
  /\ cycle \in Nat
  /\ Where(Now)
  /\ phase # "done" => Counts(Now)
  /\ phase = "done" => PrefetchesAccounted /\ PollutionAccounted
  /\ ControlAgrees

\* The fields of the state, by name.
LEMMA NowIs ==
  /\ Now.caches = caches /\ Now.pending = pending /\ Now.prefetched = prefetched
  /\ Now.demanded = demanded /\ Now.polluted = polluted /\ Now.metrics = metrics
BY DEF Now

\* Become makes a state the simulator's.
LEMMA BecomeIs ==
  ASSUME NEW st \in States, Become(st)
  PROVE  Now' = st
BY DEF Become, Now, States, State

\* At the start nothing is anywhere and all counters are zero.
LEMMA InitIInv == Init => IInv
<1> SUFFICES ASSUME Init PROVE IInv
  OBVIOUS
<1> DEFINE m == [n \in MetricNames |-> 0]
<1>1. /\ Now.caches = Empty /\ Now.pending = <<>> /\ Now.prefetched = {} /\ Now.demanded = {}
      /\ Now.polluted = {} /\ Now.metrics = m
  BY NowIs DEF Init
<1>2. Empty \in Hierarchies
  BY HierarchyAssumption DEF Empty, Hierarchies, Distinct
<1>3. m \in [MetricNames -> Nat] /\ \A n \in MetricNames : m[n] = 0
  OBVIOUS
<1>4. OneEach(<<>>) /\ <<>> \in Seq(Request) /\ Len(<<>>) = 0
  BY DEF OneEach
<1>5. Now \in States
  BY <1>1, <1>2, <1>3, <1>4 DEF States, State, Now
<1>6. Where(Now)
  <2>1. \A l \in Level : SE!ToSet(Empty[l]) = {}
    BY DEF Empty, SE!ToSet
  <2>2. Lines(<<>>) = {} /\ 0 <= MAX_OUTSTANDING
    BY RequestsAssumption DEF Lines
  <2> QED BY <1>1, <1>4, <2>1, <2>2 DEF Where
<1>7. Counts(Now)
  <2>1. IsFiniteSet({}) /\ Cardinality({}) = 0
    BY FS_EmptySet
  <2> QED BY <1>1, <1>3, <1>4, <2>1 DEF Counts, MetricNames
<1>8. ControlAgrees
  BY <1>3 DEF ControlAgrees, Init, MetricNames
<1> QED BY <1>2, <1>5, <1>6, <1>7, <1>8 DEF IInv, Init

\* A demand, once its own prefetch has been waited for, finds no request for its
\* line outstanding.
LEMMA WaitIs ==
  ASSUME NEW st \in States, NEW line, NEW now \in Nat
  PROVE  /\ Wait(st, line, now) \in Nat
         /\ Wait(st, line, now) > 0 =>
              \E r \in SE!ToSet(st.pending) : r.line = line /\ r.ready = now + Wait(st, line, now)
         /\ Wait(st, line, now) = 0 =>
              \A r \in SE!ToSet(st.pending) : r.line = line => r.ready <= now
<1> DEFINE own == {r \in SE!ToSet(st.pending) : r.line = line}
<1>1. st.pending \in Seq(Request) /\ OneEach(st.pending)
  BY DEF States, State
<1>2. \A r \in SE!ToSet(st.pending) : r.ready \in Nat
  <2>1. \A r \in SE!ToSet(st.pending) : r \in Request
    BY <1>1 DEF SE!ToSet
  <2> QED BY <2>1 DEF Request
<1>3. \A r, x \in own : r = x
  BY <1>1 DEF SE!ToSet, OneEach
<1>4. CASE own = {}
  BY <1>4 DEF Wait
<1>5. CASE own # {}
  <2> DEFINE r == CHOOSE r \in own : TRUE
  <2>1. r \in own
    BY <1>5
  <2>2. Wait(st, line, now) = IF r.ready > now THEN r.ready - now ELSE 0
    BY <1>5 DEF Wait
  <2> HIDE DEF r
  <2>3. r.ready \in Nat /\ r.line = line /\ r \in SE!ToSet(st.pending)
    BY <1>2, <2>1
  <2>4. \A x \in SE!ToSet(st.pending) : x.line = line => x = r
    BY <1>3, <2>1
  <2> HIDE DEF own
  <2>5. CASE r.ready > now
    <3>1. Wait(st, line, now) = r.ready - now
      BY <2>2, <2>5
    <3>2. r.ready - now \in Nat /\ r.ready - now > 0 /\ r.ready = now + (r.ready - now)
      BY <2>3, <2>5
    <3> QED BY <2>3, <3>1, <3>2
  <2>6. CASE ~ (r.ready > now)
    BY <2>2, <2>3, <2>4, <2>6
  <2> QED BY <2>5, <2>6
<1> QED BY <1>4, <1>5

\* What a demand of line is served from: the state once the due requests, its own
\* included, have completed.
Served(st, line, now) ==
  LET ready == CompleteReady(st, now)
      wait == Wait(ready, line, now)
  IN  IF wait > 0 THEN CompleteReady(ready, now + wait) ELSE ready

\* Such a state has no request for the line, and other caches only if a request
\* has completed.
Serving(s, st, line) ==
  /\ s \in States /\ Where(s)
  /\ Counts(st) => Counts(s)
  /\ line \notin Lines(s.pending)
  /\ \A n \in MetricNames \ Touchable : s.metrics[n] = st.metrics[n]
  /\ s.metrics["completed"] = 0 => st.metrics["completed"] = 0 /\ s.caches = st.caches

\* The wait of a demand ends with no request for its line outstanding.
LEMMA ServedIs ==
  ASSUME NEW st \in States, Where(st), NEW line \in Address, NEW now \in Nat
  PROVE  /\ Serving(Served(st, line, now), st, line)
         /\ Wait(CompleteReady(st, now), line, now) \in Nat
<1> DEFINE ready == CompleteReady(st, now)
           wait == Wait(ready, line, now)
           late == CompleteReady(ready, now + wait)
<1>1. Readied(MetricNames, ready, st, now)
  BY CompleteReadyIs
<1>2. ready \in States /\ Where(ready)
  BY <1>1 DEF Readied, States
<1>3. Served(st, line, now) = IF wait > 0 THEN late ELSE ready
  BY DEF Served
<1> HIDE DEF ready
<1>4. /\ wait \in Nat
      /\ wait > 0 => \E r \in SE!ToSet(ready.pending) : r.line = line /\ r.ready = now + wait
      /\ wait = 0 => \A r \in SE!ToSet(ready.pending) : r.line = line => r.ready <= now
  BY <1>2, WaitIs
<1> HIDE DEF wait
<1>5. \A s \in States : /\ s.metrics["completed"] \in Nat
                       /\ s.pending \in Seq(Request) /\ OneEach(s.pending)
  BY DEF States, State, MetricNames
<1>6. CASE wait = 0
  <2>1. \A r \in SE!ToSet(ready.pending) : r.line # line
    BY <1>1, <1>4, <1>6 DEF Readied, States
  <2>2. line \notin Lines(ready.pending)
    BY <1>2, <1>5, <2>1, LinesAre
  <2>3. ready.metrics["completed"] = 0 =>
          st.metrics["completed"] = 0 /\ ready.caches = st.caches
    BY <1>1, <1>2, <1>5 DEF Readied, States
  <2>4. Served(st, line, now) = ready
    BY <1>3, <1>6
  <2> QED BY <1>1, <1>4, <2>2, <2>3, <2>4 DEF Readied, States, Serving, wait, ready
<1>7. CASE wait > 0
  <2>1. now + wait \in Nat
    BY <1>4
  <2>2. Readied(MetricNames, late, ready, now + wait)
    BY <1>2, <2>1, CompleteReadyIs
  <2> HIDE DEF late
  <2>3. \A r \in SE!ToSet(late.pending) : r.line # line
    <3>1. PICK own \in SE!ToSet(ready.pending) : own.line = line /\ own.ready = now + wait
      BY <1>4, <1>7
    <3>2. \A r \in SE!ToSet(ready.pending) : r.line = line => r = own
      <4>1. ready.pending \in Seq(Request) /\ OneEach(ready.pending)
        BY <1>2, <1>5
      <4> QED BY <3>1, <4>1 DEF SE!ToSet, OneEach
    <3>3. own.ready <= now + wait
      BY <2>1, <3>1
    <3> QED BY <2>2, <3>2, <3>3 DEF Readied, States
  <2>4. late \in States
    BY <2>2 DEF Readied, States
  <2>5. line \notin Lines(late.pending)
    BY <1>5, <2>3, <2>4, LinesAre
  <2>6. late.metrics["completed"] = 0 =>
          st.metrics["completed"] = 0 /\ late.caches = st.caches
    <3>1. /\ late.metrics["completed"] \in Nat /\ ready.metrics["completed"] \in Nat
          /\ st.metrics["completed"] \in Nat
      BY <1>2, <1>5, <2>4
    <3> QED BY <1>1, <2>2, <3>1 DEF Readied, States
  <2>7. /\ Counts(st) => Counts(late)
        /\ \A n \in MetricNames \ Touchable : late.metrics[n] = st.metrics[n]
    BY <1>1, <2>2 DEF Readied, States
  <2>8. Served(st, line, now) = late
    BY <1>3, <1>7
  <2> QED BY <1>4, <2>2, <2>5, <2>6, <2>7, <2>8 DEF Readied, States, Serving, wait, ready
<1> QED BY <1>4, <1>6, <1>7

\* Where the destination has room for all requests, a demand that waits for its own
\* finds the line there and prefetched.
LEMMA ServedWaits ==
  ASSUME NEW st \in States, Where(st), NEW line \in Address, NEW now \in Nat,
         MAX_OUTSTANDING <= CAPACITY[DESTINATION],
         Wait(CompleteReady(st, now), line, now) > 0
  PROVE  line \in Served(st, line, now).prefetched
<1> DEFINE ready == CompleteReady(st, now)
           wait == Wait(ready, line, now)
           late == CompleteReady(ready, now + wait)
<1>1. Readied(MetricNames, ready, st, now)
  BY CompleteReadyIs
<1>2. ready \in States /\ Where(ready)
  BY <1>1 DEF Readied, States
<1>3. Served(st, line, now) = late
  BY DEF Served
<1> HIDE DEF ready
<1>4. /\ wait \in Nat
      /\ \E r \in SE!ToSet(ready.pending) : r.line = line /\ r.ready = now + wait
  BY <1>2, WaitIs DEF ready
<1> HIDE DEF wait
<1>5. now + wait \in Nat
  BY <1>4
<1>6. Readied(MetricNames, late, ready, now + wait)
  BY <1>2, <1>5, CompleteReadyIs
<1> HIDE DEF late
<1>7. PICK r \in SE!ToSet(ready.pending) : r.line = line /\ r.ready = now + wait
  BY <1>4
<1>8. r.ready <= now + wait
  BY <1>5, <1>7
<1> QED BY <1>3, <1>6, <1>7, <1>8 DEF Readied

\* A demand keeps the invariant.
LEMMA DemandIInv ==
  ASSUME IInv, NEW line \in Address, Demand(line)
  PROVE  IInv'
<1> DEFINE ready == CompleteReady(Now, cycle)
           wait == Wait(ready, line, cycle)
           s == Served(Now, line, cycle)
           d == Demanded(s, line, wait)
           level == LevelOf(s.caches, line)
<1>1. Now \in States /\ Where(Now) /\ Counts(Now) /\ cycle \in Nat /\ control \in Hierarchies
  BY DEF IInv, Demand
<1>2. Serving(s, Now, line) /\ wait \in Nat
  BY <1>1, ServedIs
<1>3. /\ Become(d)
      /\ control' = AfterAccess(control, line)
      /\ cycle' = cycle + wait + LATENCY[level] + UPDATE_COST
      /\ phase' = "predict"
  BY DEF Demand, Served
<1> HIDE DEF wait, s
<1>4. s \in States /\ Where(s) /\ Counts(s) /\ line \notin Lines(s.pending)
  BY <1>1, <1>2 DEF Serving
<1>5. /\ Accessed(MetricNames, d, s, line, level = DRAM)
      /\ d.metrics["dram"] = s.metrics["dram"] + One(level = DRAM)
      /\ d.metrics["baseline_dram"]
           = s.metrics["baseline_dram"] + One(LevelOf(control, line) = DRAM)
  BY <1>2, <1>4, DemandedIs
<1> HIDE DEF d
<1>6. d \in States /\ Where(d) /\ Counts(d)
  <2> DEFINE settled == level = DRAM
  <2>1. settled \in BOOLEAN /\ Accessed(MetricNames, d, s, line, settled) /\ d \in States
    BY <1>5 DEF Accessed, States
  <2> HIDE DEF settled
  <2>2. Where(d)
    BY <1>4, <2>1, AccessedWhere DEF States
  <2>3. Counts(d)
    BY <1>4, <2>1, AccessedCounts, LedgerKept DEF States
  <2> QED BY <2>1, <2>2, <2>3
<1>7. Now' = d
  BY <1>3, <1>6, BecomeIs
<1>8. control' \in Hierarchies
  BY <1>1, <1>3, AccessIs
<1>9. cycle' \in Nat
  <2>1. level \in Level \cup {DRAM}
    BY LevelOfIs
  <2> HIDE DEF level
  <2>2. LATENCY[level] \in Nat /\ UPDATE_COST \in Nat
    BY <2>1, HierarchyAssumption, SimulatorAssumption
  <2>3. cycle + wait + LATENCY[level] + UPDATE_COST \in Nat
    BY ONLY <1>1, <1>2, <2>2
  <2> QED BY <1>3, <2>3
<1>10. ControlAgrees'
  <2>1. caches' = d.caches /\ metrics' = d.metrics
    BY <1>3 DEF Become
  <2>2. SUFFICES ASSUME d.metrics["completed"] = 0
                 PROVE  d.caches = control' /\ d.metrics["dram"] = d.metrics["baseline_dram"]
    BY <2>1 DEF ControlAgrees
  <2>3. s.metrics["completed"] = 0
    BY <1>5, <2>2 DEF Accessed
  <2>4. metrics["completed"] = 0 /\ s.caches = caches
    BY <1>2, <2>3, NowIs DEF Serving
  <2>5. caches = control /\ metrics["dram"] = metrics["baseline_dram"]
    BY <2>4 DEF IInv, ControlAgrees
  <2>6. s.metrics["dram"] = metrics["dram"] /\ s.metrics["baseline_dram"] = metrics["baseline_dram"]
    BY <1>2, NowIs DEF Serving, Touchable, MetricNames
  <2> QED BY <1>3, <1>5, <2>4, <2>5, <2>6 DEF Accessed
<1> QED BY <1>3, <1>6, <1>7, <1>8, <1>9, <1>10 DEF IInv

\* So does the preparation of predictions.
LEMMA PrepareIInv ==
  ASSUME IInv, NEW predictions \in Predictions, Prepare(predictions)
  PROVE  IInv'
<1> DEFINE start == [pending |-> pending, prefetched |-> prefetched, caches |-> caches,
                     metrics |-> metrics, cycle |-> cycle + LOOKUP_COST]
           p == Proposed(start, predictions)
           after == Around(p)
<1>1. Now \in States /\ Where(Now) /\ Counts(Now) /\ cycle \in Nat /\ control \in Hierarchies
  BY DEF IInv, Prepare
<1>2. start \in Looking
  <2>1. cycle + LOOKUP_COST \in Nat
    BY <1>1, SimulatorAssumption
  <2> QED BY <1>1, <2>1, NowIs DEF States, State, Looking
<1>3. PICK k \in Nat : predictions \in [1 .. k -> Address]
  BY SimulatorAssumption DEF Predictions
<1>4. /\ pending' = p.pending /\ metrics' = p.metrics /\ cycle' = p.cycle
      /\ phase' = "demand"
      /\ UNCHANGED <<caches, control, prefetched, demanded, polluted>>
  BY DEF Prepare
<1>5. Around(start) = Now
  BY DEF Around, Now
<1>6. start.metrics = metrics
  OBVIOUS
<1> HIDE DEF start
<1>7. Kept(p, start)
  BY <1>1, <1>2, <1>3, ProposedIs
<1> HIDE DEF p
<1>8. p \in Looking /\ Where(after) /\ Counts(after)
  BY <1>1, <1>5, <1>7 DEF Kept
<1>9. after \in States
  BY <1>1, <1>8, AroundIs
<1>10. Now' = after
  BY <1>4 DEF Around, Now
<1>11. cycle' \in Nat
  BY <1>4, <1>8 DEF Looking
<1>12. ControlAgrees'
  <2>1. \A n \in {"completed", "dram", "baseline_dram"} : p.metrics[n] = metrics[n]
    BY <1>6, <1>7 DEF Kept, MetricNames, Proposable
  <2> QED BY <1>4, <2>1 DEF ControlAgrees, IInv
<1> HIDE DEF after
<1> QED BY <1>1, <1>4, <1>8, <1>9, <1>10, <1>11, <1>12 DEF IInv

\* Preparing predictions counts requests only.
LEMMA PrepareKeeps ==
  ASSUME IInv, NEW predictions \in Predictions, Prepare(predictions)
  PROVE  metrics'["late"] = metrics["late"] /\ metrics'["useful"] = metrics["useful"]
<1> DEFINE start == [pending |-> pending, prefetched |-> prefetched, caches |-> caches,
                     metrics |-> metrics, cycle |-> cycle + LOOKUP_COST]
           p == Proposed(start, predictions)
<1>1. Now \in States /\ cycle \in Nat
  BY DEF IInv
<1>2. start \in Looking
  <2>1. cycle + LOOKUP_COST \in Nat
    BY <1>1, SimulatorAssumption
  <2> QED BY <1>1, <2>1, NowIs DEF States, State, Looking
<1>3. PICK k \in Nat : predictions \in [1 .. k -> Address]
  BY SimulatorAssumption DEF Predictions
<1>4. metrics' = p.metrics /\ start.metrics = metrics
  BY DEF Prepare
<1> HIDE DEF start
<1>5. Kept(p, start)
  BY <1>1, <1>2, <1>3, ProposedIs
<1> HIDE DEF p
<1> QED BY <1>4, <1>5 DEF Kept, MetricNames, Proposable

\* So does the end: what is left of the prefetches is waste.
LEMMA FinishIInv ==
  ASSUME IInv, Finish
  PROVE  IInv'
<1> DEFINE left == Len(pending) + Cardinality(prefetched)
           m == metrics
           k == [m EXCEPT !["unused"] = @ + left, !["incorrect_cost"] = @ + left * ISSUE_COST]
<1>1. Now \in States /\ Where(Now) /\ Counts(Now) /\ cycle \in Nat /\ control \in Hierarchies
  BY DEF IInv, Finish
<1>2. /\ metrics' = k /\ phase' = "done"
      /\ UNCHANGED <<caches, control, pending, prefetched, demanded, polluted, cycle>>
  BY DEF Finish
<1>3. /\ m \in [MetricNames -> Nat] /\ pending \in Seq(Request)
      /\ Cardinality(prefetched) \in Nat /\ ISSUE_COST \in Nat
  BY <1>1, PrefetchedFinite, NowIs, SimulatorAssumption DEF States, State
<1>4. left \in Nat /\ left * ISSUE_COST \in Nat
  <2>1. Len(pending) \in Nat
    BY <1>3
  <2>2. left \in Nat
    BY <1>3, <2>1
  <2> HIDE DEF left
  <2> QED BY <1>3, <2>2
<1> DEFINE waste == left * ISSUE_COST
<1>5. /\ k \in [MetricNames -> Nat]
      /\ k["unused"] = m["unused"] + left
      /\ \A n \in MetricNames \ {"unused", "incorrect_cost"} : k[n] = m[n]
  <2>1. waste \in Nat /\ "unused" \in MetricNames /\ "incorrect_cost" \in MetricNames
    BY <1>4 DEF MetricNames
  <2> DEFINE a == m["unused"] + left
             b == m["incorrect_cost"] + waste
  <2>2. k = [m EXCEPT !["unused"] = a, !["incorrect_cost"] = b]
    OBVIOUS
  <2>3. a \in Nat /\ b \in Nat
    <3>1. m["unused"] \in Nat /\ m["incorrect_cost"] \in Nat
      BY <1>3, <2>1
    <3> HIDE DEF left, waste, m
    <3> QED BY <1>4, <2>1, <3>1
  <2>4. a = m["unused"] + left
    OBVIOUS
  <2> HIDE DEF a, b, k, m, left
  <2> QED BY <1>3, <2>1, <2>2, <2>3, <2>4
<1> HIDE DEF k, waste
<1>6. Now' \in States
  <2>1. Now' = [Now EXCEPT !.metrics = k]
    BY <1>2 DEF Now
  <2> QED BY <1>1, <1>5, <2>1 DEF States, State
<1>7. Where(Now)'
  BY <1>1, <1>2, NowIs DEF Where, Now
<1>8. /\ m["requests"] = m["duplicates"] + m["dropped"] + m["issued"]
      /\ m["issued"] = m["completed"] + Len(pending)
      /\ m["issued"] = m["useful"] + m["unused"] + Len(pending) + Cardinality(prefetched)
      /\ m["pollution"] + Cardinality(polluted) <= m["unused"]
      /\ IsFiniteSet(polluted)
  BY <1>1, NowIs DEF Counts
<1>9. \A n \in {"requests", "duplicates", "dropped", "issued", "completed", "useful", "pollution",
                 "dram", "baseline_dram"} : k[n] = m[n]
  BY <1>5 DEF MetricNames
<1>10. PrefetchesAccounted'
  <2>1. m["useful"] \in Nat /\ m["unused"] \in Nat /\ Len(pending) \in Nat
    BY <1>3 DEF MetricNames
  <2>2. m["issued"] = m["useful"] + (m["unused"] + left) + 0
    <3>1. m["issued"] = m["useful"] + m["unused"] + Len(pending) + Cardinality(prefetched)
      BY <1>8
    <3> QED BY ONLY <1>3, <2>1, <3>1
  <2> HIDE DEF left
  <2> QED BY <1>2, <1>5, <1>8, <1>9, <2>2 DEF PrefetchesAccounted
<1>11. PollutionAccounted'
  <2>1. m["pollution"] \in Nat /\ m["unused"] \in Nat /\ Cardinality(polluted) \in Nat
    BY <1>3, <1>8, FS_CardinalityType DEF MetricNames
  <2> HIDE DEF left
  <2>2. m["pollution"] + Cardinality(polluted) <= m["unused"] + left
    BY <1>4, <1>8, <2>1
  <2> QED BY <1>2, <1>5, <1>9, <2>2 DEF PollutionAccounted
<1>12. ControlAgrees'
  BY <1>2, <1>9 DEF ControlAgrees, IInv
<1> QED BY <1>1, <1>2, <1>6, <1>7, <1>10, <1>11, <1>12 DEF IInv

\* So does a step that changes nothing.
LEMMA StutterIInv ==
  ASSUME IInv, UNCHANGED vars
  PROVE  IInv'
BY DEF vars, IInv, Now, Where, Counts, PrefetchesAccounted, PollutionAccounted, ControlAgrees

\* The invariant of the simulator, which holds of every trace, every predictor and
\* every hierarchy.
THEOREM Invariant == Spec => []IInv
<1>1. IInv /\ [Next]_vars => IInv'
  BY DemandIInv, PrepareIInv, FinishIInv, StutterIInv DEF Next
<1> QED BY InitIInv, <1>1, PTL DEF Spec

\* Type correctness.
THEOREM TypeCorrect == Spec => []TypeOK
<1>1. IInv => TypeOK
  BY NowIs DEF IInv, States, State, Hierarchies, TypeOK
<1> QED BY Invariant, <1>1, PTL

\* Every line keeps its place: no request is outstanding for a cached line, a
\* prefetched line is at its destination and nowhere else.
THEOREM EveryLinePlaced == Spec => []LinesPlaced
<1>1. ASSUME IInv PROVE Placed(Now)
  <2>1. Now \in States /\ Where(Now)
    BY <1>1 DEF IInv
  <2>2. ASSUME NEW l \in Level
        PROVE  /\ Len(Now.caches[l]) = Cardinality(SE!ToSet(Now.caches[l]))
               /\ Len(Now.caches[l]) <= CAPACITY[l]
    <3>1. Now.caches[l] \in Seq(Address) /\ Distinct(Now.caches[l])
      BY <2>1 DEF States, State, Hierarchies
    <3>2. Len(Now.caches[l]) <= CAPACITY[l]
      BY <2>1 DEF States, State, Hierarchies
    <3> QED BY <3>1, <3>2, LinesFinite
  <2>3. Len(Now.pending) = Cardinality(Lines(Now.pending))
    <3> DEFINE q == Now.pending
               f == [i \in 1 .. Len(q) |-> q[i].line]
    <3>1. q \in Seq(Request) /\ OneEach(q)
      BY <2>1 DEF States, State
    <3> HIDE DEF q
    <3>2. Len(q) \in Nat /\ DOMAIN q = 1 .. Len(q)
      BY <3>1
    <3>3. \A i, j \in 1 .. Len(q) : f[i] = f[j] => i = j
      BY <3>1 DEF OneEach
    <3>4. \A t : t \in Lines(q) <=> \E i \in 1 .. Len(q) : t = f[i]
      BY <3>2 DEF Lines
    <3> HIDE DEF f
    <3>5. Cardinality(Lines(q)) = Len(q)
      BY <3>2, <3>3, <3>4, DistinctSize
    <3> QED BY <3>5 DEF q
  <2> QED BY <2>1, <2>2, <2>3 DEF Where, Placed
<1>2. IInv => LinesPlaced
  BY <1>1 DEF LinesPlaced
<1> QED BY Invariant, <1>2, PTL

\* The counters of the report balance.
THEOREM EveryCounterAccounted == Spec => []CountersAccounted
<1>1. IInv => CountersAccounted
  <2> SUFFICES ASSUME IInv PROVE CountersAccounted
    OBVIOUS
  <2>1. CASE phase = "done"
    BY <2>1 DEF IInv, CountersAccounted
  <2>2. CASE phase # "done"
    <3>1. Counts(Now) /\ pending \in Seq(Request) /\ metrics \in [MetricNames -> Nat]
          /\ Cardinality(prefetched) \in Nat
      BY <2>2, PrefetchedFinite, NowIs DEF IInv, States, State
    <3>2. metrics["useful"] \in Nat /\ metrics["unused"] \in Nat /\ Len(pending) \in Nat
      BY <3>1 DEF MetricNames
    <3>3. metrics["useful"] + metrics["unused"] + Len(pending) + Cardinality(prefetched)
            = metrics["useful"] + metrics["unused"] + (Len(pending) + Cardinality(prefetched))
      BY <3>1, <3>2
    <3>4. PrefetchesAccounted
      BY <2>2, <3>1, <3>3, NowIs DEF Counts, PrefetchesAccounted
    <3>5. PollutionAccounted
      BY <3>1, NowIs DEF Counts, PollutionAccounted
    <3> QED BY <3>4, <3>5 DEF IInv, CountersAccounted
  <2> QED BY <2>1, <2>2
<1> QED BY Invariant, <1>1, PTL

\* A demand that waits is useful, and what is useful does not go to DRAM.
LEMMA DemandPays ==
  ASSUME IInv, NEW line \in Address, Demand(line), MAX_OUTSTANDING <= CAPACITY[DESTINATION]
  PROVE  /\ metrics'.late > metrics.late => metrics'.useful = metrics.useful + 1
         /\ metrics'.useful > metrics.useful => metrics'.dram = metrics.dram
<1> DEFINE ready == CompleteReady(Now, cycle)
           wait == Wait(ready, line, cycle)
           s == Served(Now, line, cycle)
           d == Demanded(s, line, wait)
           E == AccessEvicts(s.caches, line)
           level == LevelOf(s.caches, line)
<1>1. Now \in States /\ Where(Now) /\ cycle \in Nat /\ metrics \in [MetricNames -> Nat]
  BY NowIs DEF IInv, States, State
<1>2. Serving(s, Now, line) /\ wait \in Nat
  BY <1>1, ServedIs
<1>3. wait > 0 => line \in s.prefetched
  BY <1>1, ServedWaits
<1>4. metrics' = d.metrics
  BY DEF Demand, Served, Become
<1> HIDE DEF wait, s
<1>5. s \in States /\ Where(s)
  BY <1>2 DEF Serving
<1>6. /\ Accessed(MetricNames, d, s, line, level = DRAM)
      /\ d.metrics["late"] = s.metrics["late"] + One(wait > 0)
      /\ d.metrics["dram"] = s.metrics["dram"] + One(level = DRAM)
  BY <1>2, <1>5, DemandedIs
<1>7. /\ d.metrics["useful"] = s.metrics["useful"] + One(line \in s.prefetched \ E)
      /\ line \notin E
  <2>1. s.caches \in Hierarchies
    BY <1>5 DEF States, State
  <2> QED BY <1>6, <2>1, AccessIs DEF Accessed
<1>8. /\ s.metrics["late"] = metrics["late"] /\ s.metrics["dram"] = metrics["dram"]
      /\ s.metrics["useful"] = metrics["useful"]
  BY <1>2, NowIs DEF Serving, Touchable, MetricNames
<1>9. metrics["late"] \in Nat /\ metrics["dram"] \in Nat /\ metrics["useful"] \in Nat
  BY <1>1 DEF MetricNames
<1>10. line \in s.prefetched => level # DRAM
  <2>1. SUFFICES ASSUME line \in s.prefetched PROVE level # DRAM
    OBVIOUS
  <2>2. DESTINATION \in Level /\ Holds(s.caches[DESTINATION], line)
    BY <1>5, <2>1, RequestsAssumption, HoldsIs DEF Where
  <2>3. \A k \in Level : k < level => ~ Holds(s.caches[k], line)
    BY LevelOfIs
  <2> HIDE DEF level
  <2> QED BY <2>2, <2>3 DEF Level, DRAM
<1> HIDE DEF d, E, level
<1> QED BY <1>3, <1>4, <1>6, <1>7, <1>8, <1>9, <1>10 DEF One

\* A demand that waits for its outstanding prefetch is served by it, and what is
\* useful is not served from DRAM, if the destination has room for every request.
THEOREM WaitingServes ==
  ASSUME MAX_OUTSTANDING <= CAPACITY[DESTINATION]
  PROVE  Spec => WaitingPays
<1> DEFINE Pays == /\ metrics'.late > metrics.late => metrics'.useful = metrics.useful + 1
                   /\ metrics'.useful > metrics.useful => metrics'.dram = metrics.dram
<1>1. IInv /\ [Next]_vars => [Pays]_vars
  <2> SUFFICES ASSUME IInv, Next PROVE Pays
    OBVIOUS
  <2>1. CASE \E line \in Address : Demand(line)
    BY <2>1, DemandPays
  <2>2. metrics \in [MetricNames -> Nat]
    BY NowIs DEF IInv, States, State
  <2>3. /\ metrics["late"] \in Nat /\ metrics["useful"] \in Nat
        /\ ~ (metrics["late"] > metrics["late"]) /\ ~ (metrics["useful"] > metrics["useful"])
    BY <2>2 DEF MetricNames
  <2>4. ASSUME NEW predictions \in Predictions, Prepare(predictions)
        PROVE  metrics'["late"] = metrics["late"] /\ metrics'["useful"] = metrics["useful"]
    BY <2>4, PrepareKeeps
  <2>5. ASSUME Finish
        PROVE  metrics'["late"] = metrics["late"] /\ metrics'["useful"] = metrics["useful"]
    BY <2>2, <2>5 DEF Finish, MetricNames
  <2> QED BY <2>1, <2>3, <2>4, <2>5 DEF Next
<1> QED BY Invariant, <1>1, PTL DEF Spec, WaitingPays

================================================================================
