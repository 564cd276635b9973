---------------------------- MODULE MCGilThreads ----------------------------
(* GilThreads for TLC: the threads are interchangeable.                       *)
EXTENDS GilThreads, TLC

Symmetry == Permutations(Threads)
=============================================================================
