------------------------------ MODULE MCDirectWAM ------------------------------
(***************************************************************************)
(* A small DirectWAM: two lines, contexts of two lines, a horizon of two.  *)
(* The four contexts hash to three keys, two of them in one bucket, so     *)
(* that keys alias, slots are fought over and a target may fall below 1.   *)
(***************************************************************************)
EXTENDS DirectWAM

MCLine == {1, 2}
MCKey == 0 .. 2
MCContextHash ==
  [c \in [1 .. 2 -> MCLine] |-> IF c = <<1, 1>> THEN 0 ELSE IF c = <<2, 2>> THEN 2 ELSE 1]
MCBucketOf == [k \in MCKey |-> IF k = 0 THEN 0 ELSE 1]
================================================================================
