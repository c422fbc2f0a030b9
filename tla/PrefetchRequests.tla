---------------------------- MODULE PrefetchRequests ----------------------------
(***************************************************************************)
(* The outstanding prefetch requests of the two Python simulators: a       *)
(* dictionary from lines to requests that is iterated in the order of      *)
(* issue, here the sequence of its requests.                               *)
(***************************************************************************)
EXTENDS MemoryHierarchy

CONSTANTS
  DESTINATION,       \* prefetch_destination
  MAX_OUTSTANDING    \* max_outstanding_prefetches

ASSUME RequestsAssumption == DESTINATION \in Level /\ MAX_OUTSTANDING \in Nat

\* An increment: a condition is counted as often as it holds.
One(condition) == IF condition THEN 1 ELSE 0

Request == [line : Address, ready : Nat]

Lines(queue) == {queue[i].line : i \in DOMAIN queue}

\* line in pending
Requested(queue, line) == \E i \in DOMAIN queue : queue[i].line = line

\* pending.pop(line, None): the dictionary holds a line at one place.
Popped(queue, line) ==
  IF Requested(queue, line)
  THEN SE!RemoveAt(queue, CHOOSE i \in DOMAIN queue : queue[i].line = line)
  ELSE queue
================================================================================
