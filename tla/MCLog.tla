------------------------------- MODULE MCLog -------------------------------
\* The instances of Log for TLC, with the inductive invariant of LogProofs.
EXTENDS LogProofs
=============================================================================
