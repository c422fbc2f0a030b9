------------------------------- MODULE FifoTags -------------------------------
(***************************************************************************)
(* What a set-associative table with one round-robin pointer per set       *)
(* promises about residence: each set keeps the last WAYS context keys     *)
(* that were installed in it.  Training a resident key moves nothing (this *)
(* is FIFO, not LRU); training another key installs it, at the expense of  *)
(* the one installed first when the set is full.                           *)
(***************************************************************************)
EXTENDS Naturals, Sequences

CONSTANTS Key, Set, SetOf, WAYS

VARIABLE tags      \* per set, the resident keys, the first installed first

Init == tags = [s \in Set |-> <<>>]

Resident(q, key) == \E i \in DOMAIN q : q[i] = key

Installed(q, key) ==
  IF Resident(q, key) THEN q
  ELSE IF Len(q) < WAYS THEN Append(q, key)
  ELSE Append(Tail(q), key)

Train(key) == tags' = [tags EXCEPT ![SetOf[key]] = Installed(@, key)]

Next == \E key \in Key : Train(key)

Spec == Init /\ [][Next]_tags
================================================================================
