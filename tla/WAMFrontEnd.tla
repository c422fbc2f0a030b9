------------------------------ MODULE WAMFrontEnd ------------------------------
(***************************************************************************)
(* The part of the WAM prefetchers that does not depend on how the table   *)
(* is organised: the access history, the queue of contexts that wait for   *)
(* their outcome, the issue decision on the entry the lookup found, and    *)
(* the diagnostics (on) that record accesses, lookups and predictions.     *)
(*                                                                         *)
(* One action is one callback ChampSim makes into the module; callbacks    *)
(* are sequential, so each runs to its end.  Positions are 1-based: the    *)
(* code's diagnostic_event_index_ - 1 is Len(events) - 1 here.             *)
(***************************************************************************)
EXTENDS WAMContexts

CONSTANT MaxEvents    \* bound on the length of a run

ASSUME BoundAssumption == MaxEvents \in Nat

VARIABLES
  pending,    \* pending_: contexts whose outcome has not arrived
  history,    \* history_
  counters,   \* the production counters
  events,     \* the lines of the diagnostic event log
  log,        \* the records of the diagnostic prediction log
  shadow,     \* predictions waiting to be compared with what came, and the tally
  fills,      \* diagnostic_prefetches_completed_
  final       \* what prefetcher_final_stats() recorded, or NotYet

frontVars == <<pending, history, counters, events, log, shadow, fills, final>>

NotYet == [expired |-> -1, unresolved |-> -1]

ShadowPrediction == [due : Nat, line : Nat]

LogRecord == [at : Nat, line : Nat, confidence : 0 .. CONFIDENCE_MAX, generated : BOOLEAN]

\* prefetcher_initialize() and diagnostic_reset(), diagnostics enabled.
FrontInit ==
  /\ pending = <<>>
  /\ history = <<>>
  /\ counters = [predictions |-> 0, issued |-> 0, useful |-> 0,
                 training_updates |-> 0, leaked_future_updates |-> 0]
  /\ events = <<>>
  /\ log = {}
  /\ shadow = [pending |-> <<>>, predictions |-> 0, correct |-> 0]
  /\ fills = 0
  /\ final = NotYet

----------------------------------------------------------------------------
(* prefetcher_cache_operate() for a qualifying access, in the order of the *)
(* code: resolve the shadow, train if a context is due, push the line,     *)
(* form the context, look it up (entry e, found by the table), issue.      *)

\* Mutation of Due: > for >=.
DueLate == Len(pending) > HORIZON

\* train(pending_.front()) runs at this access.
Due == Len(pending) >= HORIZON

NextHistory(line) == Remember(history, line)
Formed(line) == Len(NextHistory(line)) = CONTEXT_DEPTH
FormedKey(line) == ContextHash[NextHistory(line)]

NextPending(line) ==
  LET rest == IF Due THEN Tail(pending) ELSE pending
  IN  IF Formed(line)
        THEN Append(rest, [key |-> FormedKey(line), line |-> line])
        ELSE rest

ContextHit(line, e) == Formed(line) /\ e.valid /\ e.key = FormedKey(line)

\* Mutation of Predicts: the confidence threshold forgotten.
PredictsEagerly(line, e) ==
  ContextHit(line, e) /\ e.delta # 0 /\ line + e.delta > 0

Predicts(line, e) ==
  /\ ContextHit(line, e)
  /\ e.confidence >= CONFIDENCE_THRESHOLD
  /\ e.delta # 0
  /\ line + e.delta > 0

PredictedLine(line, e) ==
  IF e.delta # 0 /\ line + e.delta > 0 THEN line + e.delta ELSE 0

\* diagnostic_resolve_shadow(): pops the longest prefix that is due by this
\* access, and tallies those of it that are due exactly now.
Ripe == {i \in DOMAIN shadow.pending :
           \A j \in 1 .. i : shadow.pending[j].due <= Len(events) + 1}

DueNow == {i \in Ripe : shadow.pending[i].due = Len(events) + 1}

Resolved(line) ==
  [pending |-> SubSeq(shadow.pending, Cardinality(Ripe) + 1, Len(shadow.pending)),
   predictions |-> shadow.predictions + Cardinality(DueNow),
   correct |-> shadow.correct + Cardinality({i \in DueNow : shadow.pending[i].line = line})]

\* Mutation of Foreseen: due one access early.
ForeseenEarly(line, e, waiting) ==
  IF Predicts(line, e)
    THEN Append(waiting, [due |-> Len(events) + HORIZON, line |-> PredictedLine(line, e)])
    ELSE waiting

\* The prediction just generated joins the queue.
Foreseen(line, e, waiting) ==
  IF Predicts(line, e)
    THEN Append(waiting, [due |-> Len(events) + 1 + HORIZON, line |-> PredictedLine(line, e)])
    ELSE waiting

Tick(condition) == IF condition THEN 1 ELSE 0

\* useful_prefetch is ChampSim's: a demand hit on a line this prefetcher filled.
FrontAccess(line, useful, accepted, e) ==
  /\ final = NotYet
  /\ Len(events) < MaxEvents
  /\ useful => counters.useful < fills
  /\ accepted => Predicts(line, e)
  /\ events' = Append(events, line)
  /\ history' = NextHistory(line)
  /\ pending' = NextPending(line)
  /\ counters' =
       [predictions |-> counters.predictions + Tick(Predicts(line, e)),
        issued |-> counters.issued + Tick(accepted),
        useful |-> counters.useful + Tick(useful),
        training_updates |-> counters.training_updates + Tick(Due),
        leaked_future_updates |-> counters.leaked_future_updates +
          Tick(Formed(line) /\ Len(NextPending(line)) > HORIZON)]
  /\ shadow' = LET r == Resolved(line)
               IN  [pending |-> Foreseen(line, e, r.pending),
                    predictions |-> r.predictions, correct |-> r.correct]
  /\ log' = IF ContextHit(line, e)
       THEN log \cup {[at |-> Len(events) + 1, line |-> PredictedLine(line, e),
                       confidence |-> e.confidence, generated |-> Predicts(line, e)]}
       ELSE log
  /\ UNCHANGED <<fills, final>>

\* prefetcher_cache_operate() for an access of type PREFETCH returns early.
PrefetchAccess ==
  /\ final = NotYet
  /\ counters.useful < fills
  /\ counters' = [counters EXCEPT !.useful = @ + 1]
  /\ UNCHANGED <<pending, history, events, log, shadow, fills, final>>

\* prefetcher_cache_fill() for a line this prefetcher asked for.
CacheFill ==
  /\ final = NotYet
  /\ fills < counters.issued
  /\ fills' = fills + 1
  /\ UNCHANGED <<pending, history, counters, events, log, shadow, final>>

\* prefetcher_final_stats(), at the end of the simulation.
FinalStats ==
  /\ final = NotYet
  /\ final' = [expired |-> Len(pending), unresolved |-> Len(shadow.pending)]
  /\ UNCHANGED <<pending, history, counters, events, log, shadow, fills>>

FrontNext ==
  \/ \E line \in Line, useful, accepted \in BOOLEAN, e \in Entry :
       FrontAccess(line, useful, accepted, e)
  \/ PrefetchAccess
  \/ CacheFill
  \/ FinalStats

----------------------------------------------------------------------------
FrontTypeOK ==
  /\ pending \in Seq(PendingContext)
  /\ history \in Seq(Line)
  /\ counters \in [predictions : Nat, issued : Nat, useful : Nat,
                   training_updates : Nat, leaked_future_updates : Nat]
  /\ events \in Seq(Line)
  /\ log \subseteq LogRecord
  /\ shadow \in [pending : Seq(ShadowPrediction), predictions : Nat, correct : Nat]
  /\ fills \in Nat
  /\ final \in [expired : Int, unresolved : Int]

\* The queue of contexts is aligned with the access stream: it holds exactly
\* the contexts of the most recent accesses, in order, each with the line and
\* the key it had, at most HORIZON of them and none missing.  This is what makes
\* "the target is revealed after exactly H16 qualifying accesses" true of
\* train(pending_.front()), and the leakage guard never counts.
PendingAligned ==
  /\ Queued(pending, events)
  /\ counters.leaked_future_updates = 0

Generated == {r \in log : r.generated}

\* The shadow accounting of the diagnostics is exact: every generated prediction
\* is compared with the one access that comes HORIZON accesses after it, and the
\* tally and the queue together lose and invent none, including at final_stats.
ShadowExact ==
  LET n == Len(events)
      due == {r \in Generated : r.at + HORIZON <= n}
  IN  /\ shadow.predictions = Cardinality(due)
      /\ shadow.correct = Cardinality({r \in due : events[r.at + HORIZON] = r.line})
      /\ counters.predictions = shadow.predictions + Len(shadow.pending)
      /\ \A j \in 1 .. Len(shadow.pending) :
           \E r \in Generated : shadow.pending[j] = [due |-> r.at + HORIZON, line |-> r.line]
      /\ final # NotYet =>
           counters.predictions = shadow.predictions + final.unresolved

----------------------------------------------------------------------------
\* The promise the prefetchers keep: see CausalPrefetcher.
predicted == {[at |-> r.at, line |-> r.line] : r \in Generated}

Causal == INSTANCE CausalPrefetcher WITH stream <- events

\* Every run of the prefetcher is a run of the causal prefetcher.
ImplementsCausal == Causal!Spec
================================================================================
