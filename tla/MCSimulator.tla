------------------------------ MODULE MCSimulator ------------------------------
(***************************************************************************)
(* A small Simulator: four interchangeable lines, small caches so that     *)
(* every level evicts, and a DRAM latency that lets a prefetch be both     *)
(* late and in time.  Lines are only compared, so permuting them is sound. *)
(***************************************************************************)
EXTENDS Simulator, TLC

MCCapacity == <<1, 2, 2>>
MCLatency == <<1, 2, 3, 5>>
MCSymmetry == Permutations(Address)
================================================================================
