------------------------------- MODULE MCProc -------------------------------
\* Small instances of Proc for TLC, with the inductive invariants of ProcProofs.
EXTENDS ProcProofs, TLC
CPUSymmetry == Permutations(CPU)
=============================================================================
