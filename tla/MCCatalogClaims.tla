-------------------------- MODULE MCCatalogClaims --------------------------
(* Model values for CatalogClaims: every connection wants the catalog c1. *)
EXTENDS CatalogClaims, TLC

CONSTANT c1

ASSUME TargetExists == c1 \in Catalogs

SameTarget == [k \in Connections |-> c1]
ThreadUserSymmetry == Permutations(Threads) \cup Permutations(Users)
ThreadSymmetry == Permutations(Threads)
=============================================================================
