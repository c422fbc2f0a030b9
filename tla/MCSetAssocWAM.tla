----------------------------- MODULE MCSetAssocWAM -----------------------------
(***************************************************************************)
(* A small SetAssocWAM: two sets of two ways.  The four contexts of two    *)
(* lines keep distinct keys, three of them in one set, so that the round-  *)
(* robin pointer turns; of those three, two share a bucket of the direct-  *)
(* mapped shadow.                                                          *)
(***************************************************************************)
EXTENDS SetAssocWAM

MCLine == {1, 2}
MCKey == 0 .. 3
MCContextHash == [c \in [1 .. 2 -> MCLine] |-> 2 * (c[1] - 1) + c[2] - 1]
MCSetOf == [k \in MCKey |-> IF k = 3 THEN 1 ELSE 0]
MCBucketOf == [k \in MCKey |-> IF k = 3 THEN 1 ELSE IF k = 2 THEN 2 ELSE 0]
================================================================================
