------------------------------ MODULE MCLearning --------------------------------
(***************************************************************************)
(* A small learner: three lines, contexts of two, a horizon of two.  Three *)
(* entries make the delta tables evict, counters of two saturate, and the  *)
(* hash sends the twelve contexts to two buckets.                          *)
(***************************************************************************)
EXTENDS Learning

MCLine == 1 .. 3
MCMix(context) == FoldLeft(LAMBDA mixed, line : 2 * mixed + line, 0, context)
================================================================================
