---------------------------- MODULE MCHybridSPPWAM ----------------------------
(***************************************************************************)
(* A small HybridSPPWAM: windows of four accesses, two of them the         *)
(* minimum; a third of them useful is enough to switch the sidecar off.    *)
(***************************************************************************)
EXTENDS HybridSPPWAM

MCLine == {1, 3}
MCContextHash == [c \in [1 .. 1 -> MCLine] |-> c[1] \div 2]
MCBucketOf == [k \in {0, 1} |-> 0]
================================================================================
