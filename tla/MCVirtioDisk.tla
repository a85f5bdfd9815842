---------------------------- MODULE MCVirtioDisk ----------------------------
\* Small instances of VirtioDisk for TLC.
EXTENDS VirtioDisk, TLC
Symmetry == Permutations(Proc \ Victims) \cup Permutations(Value)
=============================================================================
