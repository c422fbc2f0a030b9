---------------------------- MODULE CausalPrefetcher ----------------------------
(***************************************************************************)
(* What a delayed-training prefetcher promises, whatever table it keeps:   *)
(* at each qualifying access it may predict one line, and only when the    *)
(* accesses that have already arrived show, at least CONFIDENCE_THRESHOLD  *)
(* times, a context with the same key followed exactly HORIZON accesses    *)
(* later by the same displacement.  No prediction looks at the future.     *)
(***************************************************************************)
EXTENDS WAMContexts

VARIABLES
  stream,     \* the qualifying accesses so far
  predicted   \* the predictions so far: the access they were made at, and the line

cvars == <<stream, predicted>>

Init ==
  /\ stream = <<>>
  /\ predicted = {}

Justified(s, target) ==
  LET now == Len(s)
  IN  /\ now >= CONTEXT_DEPTH
      /\ target > 0
      /\ target # s[now]
      /\ Cardinality(Evidence(s, KeyAt(s, now), target - s[now]))
           >= CONFIDENCE_THRESHOLD

Access(line) ==
  /\ stream' = Append(stream, line)
  /\ predicted \subseteq predicted'
  /\ \A p \in predicted' \ predicted :
       p.at = Len(stream') /\ Justified(stream', p.line)
  /\ \A p, q \in predicted' \ predicted : p = q

Next == \E line \in Line : Access(line)

Spec == Init /\ [][Next]_cvars
================================================================================
