-------------------------- MODULE MCConnectionSync --------------------------
(* Instances of ConnectionSync for TLC. *)
EXTENDS ConnectionSync, TLC

\* Threads are interchangeable: no action or invariant tells one from another.
ThreadSymmetry == Permutations(Workers)
=============================================================================
