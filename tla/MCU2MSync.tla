------------------------------- MODULE MCU2MSync -----------------------------
(* Symmetry for U2MSync: threads are interchangeable. *)
EXTENDS U2MSync, TLC

ThreadSymmetry == Permutations(Threads)
=============================================================================
