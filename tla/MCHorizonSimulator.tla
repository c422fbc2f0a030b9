--------------------------- MODULE MCHorizonSimulator ---------------------------
(***************************************************************************)
(* A small HorizonSimulator: three interchangeable lines, caches that      *)
(* evict at every level, a DRAM latency that lets a prefetch be late or in *)
(* time, and look-ups and updates slow enough to wait for their turns.     *)
(***************************************************************************)
EXTENDS HorizonSimulator, TLC

MCCapacity == <<1, 2, 2>>
MCLatency == <<1, 2, 3, 6>>
MCSymmetry == Permutations(Address)
================================================================================
