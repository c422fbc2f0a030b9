------------------------------ MODULE TableReplay ------------------------------
(***************************************************************************)
(* The offline analyzer's reconstruction of the direct-mapped table from   *)
(* the recorded event log (replay_table_state of the final diagnostic).    *)
(* It is a second implementation of the table, in Python; the report's     *)
(* replacement numbers come from it.                                       *)
(***************************************************************************)
EXTENDS WAMContexts

CONSTANTS
  Bucket,      \* the indices of a direct-mapped table, 0 .. TABLE_ENTRIES - 1
  BucketOf     \* mix(key) % TABLE_ENTRIES

ASSUME BucketAssumption == BucketOf \in [Key -> Bucket]

ReplayStart ==
  [table |-> [b \in Bucket |-> EmptyEntry], reuses |-> [b \in Bucket |-> 0],
   pending |-> <<>>, history |-> <<>>,
   insertions |-> 0, evictions |-> 0, reused |-> 0]

\* The candidate that train() of the analyzer finds is replaced, or installed.
ReplayEvicts(old, key) == old.valid /\ old.key # key /\ old.age = 0

ReplayInserts(old, key) == ~old.valid \/ ReplayEvicts(old, key)

\* The candidate after the age test.
ReplayClaimed(old, key) ==
  IF ReplayInserts(old, key) \/ old.key = key
    THEN [(IF ReplayEvicts(old, key) THEN EmptyEntry ELSE old) EXCEPT
            !.key = key, !.age = MAX_AGE, !.valid = TRUE]
    ELSE [old EXCEPT !.age = @ - 1]

\* The candidate after the comparison of its delta.
ReplayLearnt(c, key, delta) ==
  LET agrees == c.key = key /\ c.delta = delta
      weakens == c.key = key /\ ~agrees /\ c.confidence > 0
  IN  [key |-> key,
       delta |-> IF weakens THEN c.delta ELSE delta,
       age |-> MAX_AGE,
       confidence |-> IF agrees /\ c.confidence < CONFIDENCE_MAX THEN c.confidence + 1
                      ELSE IF agrees THEN CONFIDENCE_MAX
                      ELSE IF weakens THEN c.confidence - 1
                      ELSE 1,
       valid |-> TRUE]

\* train(key, target_line) of the analyzer, and the end of its context's wait.
ReplayTrain(st, line) ==
  LET p == Head(st.pending)
      b == BucketOf[p.key]
      old == st.table[b]
      evict == ReplayEvicts(old, p.key)
  IN  [st EXCEPT
        !.table[b] = ReplayLearnt(ReplayClaimed(old, p.key), p.key, line - p.line),
        !.insertions = IF ReplayInserts(old, p.key) THEN @ + 1 ELSE @,
        !.evictions = IF evict THEN @ + 1 ELSE @,
        !.reused = IF evict /\ st.reuses[b] > 0 THEN @ + 1 ELSE @,
        !.pending = Tail(@)]

\* Mutation of ReplayEvent: the lookup precedes the training.
ReplayEventStale(st, line) ==
  LET trained == IF Len(st.pending) >= HORIZON THEN ReplayTrain(st, line) ELSE st
      history == Remember(trained.history, line)
      key == ContextHash[history]
      e == st.table[BucketOf[key]]
  IN  IF Len(history) # CONTEXT_DEPTH
        THEN [trained EXCEPT !.history = history]
        ELSE [trained EXCEPT
                !.history = history,
                !.reuses[BucketOf[key]] = IF e.valid /\ e.key = key THEN @ + 1 ELSE @,
                !.pending = Append(@, [key |-> key, line |-> line])]

\* The body of the analyzer's loop over the recorded lines.
ReplayEvent(st, line) ==
  LET trained == IF Len(st.pending) >= HORIZON THEN ReplayTrain(st, line) ELSE st
      history == Remember(trained.history, line)
      key == ContextHash[history]
      e == trained.table[BucketOf[key]]
  IN  IF Len(history) # CONTEXT_DEPTH
        THEN [trained EXCEPT !.history = history]
        ELSE [trained EXCEPT
                !.history = history,
                !.reuses[BucketOf[key]] = IF e.valid /\ e.key = key THEN @ + 1 ELSE @,
                !.pending = Append(@, [key |-> key, line |-> line])]

Replay(lines) ==
  LET after[i \in 0 .. Len(lines)] ==
        IF i = 0 THEN ReplayStart ELSE ReplayEvent(after[i - 1], lines[i])
  IN  after[Len(lines)]
================================================================================
