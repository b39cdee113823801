--------------------------- MODULE MCBronzeTables ---------------------------
EXTENDS BronzeTables, TLC

ProjectSymmetry == Permutations(Projects)

=============================================================================
