---------------------------- MODULE MCSyncWindow ----------------------------
(* Instances of SyncWindow for TLC. *)
EXTENDS SyncWindow, TLC

\* Runners are interchangeable.
RunnerSymmetry == Permutations(Runners)
=============================================================================
