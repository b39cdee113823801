------------------------- MODULE MCSsaProvisioning -------------------------
(* Model values for SsaProvisioning: requests are interchangeable, and so are hubs. *)
EXTENDS SsaProvisioning, TLC

Symmetry == Permutations(Processes) \cup Permutations(Hubs)
=============================================================================
