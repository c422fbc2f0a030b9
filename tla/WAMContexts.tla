------------------------------ MODULE WAMContexts ------------------------------
(***************************************************************************)
(* What the ChampSim weighted-associative-memory prefetchers share: the    *)
(* shape of a table entry, the context that the last CONTEXT_DEPTH lines   *)
(* form, the confidence update, and the vocabulary for talking about a     *)
(* stream of qualifying L2 accesses.                                       *)
(*                                                                         *)
(* Cache lines are block numbers.  The 64-bit mixing hash is a constant    *)
(* function: nothing depends on which hash it is, only on it being a       *)
(* function of the context, so two contexts may share a key.               *)
(***************************************************************************)
EXTENDS Integers, Sequences, FiniteSets

CONSTANTS
  Line,                  \* block numbers the core may touch
  Key,                   \* 64-bit context keys
  ZeroKey,               \* the key of a default-constructed entry
  ContextHash,           \* context_key(): a full history to its key
  HORIZON,
  CONTEXT_DEPTH,
  CONFIDENCE_MAX,
  CONFIDENCE_THRESHOLD,
  MAX_AGE                \* 0xffff in the code

ASSUME LineAssumption == Line \subseteq Nat
ASSUME SizeAssumption ==
  /\ HORIZON \in Nat \ {0}
  /\ CONTEXT_DEPTH \in Nat \ {0}
  /\ CONFIDENCE_MAX \in Nat \ {0}
  /\ CONFIDENCE_THRESHOLD \in 1 .. CONFIDENCE_MAX
  /\ MAX_AGE \in Nat \ {0}
ASSUME KeyAssumption ==
  /\ ZeroKey \in Key
  /\ ContextHash \in [[1 .. CONTEXT_DEPTH -> Line] -> Key]

Entry == [key : Key, delta : Int, age : 0 .. MAX_AGE,
          confidence : 0 .. CONFIDENCE_MAX, valid : BOOLEAN]

EmptyEntry == [key |-> ZeroKey, delta |-> 0, age |-> 0,
               confidence |-> 0, valid |-> FALSE]

PendingContext == [key : Key, line : Line]

\* Mutation of Learn: min(CONFIDENCE_MAX, ...) forgotten.
LearnUnsaturated(c, key, delta) ==
  [key |-> key, delta |-> delta, age |-> MAX_AGE,
   confidence |-> IF c.key = key /\ c.delta = delta THEN c.confidence + 1 ELSE 1,
   valid |-> TRUE]

\* Mutation of Learn: a new delta is installed at once, confidence kept.
LearnRestless(c, key, delta) ==
  [key |-> key, delta |-> delta, age |-> MAX_AGE,
   confidence |-> IF c.key = key /\ c.confidence < CONFIDENCE_MAX THEN c.confidence + 1
                  ELSE IF c.key = key THEN CONFIDENCE_MAX ELSE 1,
   valid |-> TRUE]

\* What train() does to the entry c that slot() returned: a repeated delta
\* strengthens it, another delta weakens it, and at confidence 0, or over the
\* entry of another key, the new pair is installed.  Every path ends by
\* refreshing the age.
Learn(c, key, delta) ==
  LET agrees == c.key = key /\ c.delta = delta
      decays == c.key = key /\ ~agrees /\ c.confidence > 0
  IN  [key |-> key,
       delta |-> IF decays THEN c.delta ELSE delta,
       age |-> MAX_AGE,
       confidence |-> IF agrees /\ c.confidence = CONFIDENCE_MAX THEN CONFIDENCE_MAX
                      ELSE IF agrees THEN c.confidence + 1
                      ELSE IF decays THEN c.confidence - 1
                      ELSE 1,
       valid |-> IF agrees \/ decays THEN c.valid ELSE TRUE]

\* history_ after line is pushed: the last CONTEXT_DEPTH lines.
Remember(history, line) ==
  LET h == Append(history, line)
  IN  IF Len(h) > CONTEXT_DEPTH THEN Tail(h) ELSE h

----------------------------------------------------------------------------
(* The qualifying accesses of a run form a stream s; position i is the     *)
(* i-th access.  From position CONTEXT_DEPTH on, each position has a       *)
(* context, and the context's outcome is known HORIZON positions later.    *)

ContextAt(s, i) == [j \in 1 .. CONTEXT_DEPTH |-> s[i - CONTEXT_DEPTH + j]]

KeyAt(s, i) == ContextHash[ContextAt(s, i)]

\* The positions whose outcome has arrived.
Outcomes(s) == CONTEXT_DEPTH .. Len(s) - HORIZON

\* The positions whose context, key k, was followed at the horizon by delta d.
Evidence(s, k, d) ==
  {i \in Outcomes(s) : KeyAt(s, i) = k /\ s[i + HORIZON] - s[i] = d}

\* What is queued about position i until its outcome arrives.
Waiting(s, i) == [key |-> KeyAt(s, i), line |-> s[i]]

\* q holds the contexts of the most recent positions of s, HORIZON at most.
Queued(q, s) ==
  /\ Len(q) = IF Len(s) < CONTEXT_DEPTH THEN 0
              ELSE IF Len(s) - CONTEXT_DEPTH + 1 < HORIZON THEN Len(s) - CONTEXT_DEPTH + 1
              ELSE HORIZON
  /\ \A j \in 1 .. Len(q) : q[j] = Waiting(s, Len(s) - Len(q) + j)
================================================================================
