------------------------------- MODULE MCMlfq -------------------------------
\* Small instances of Mlfq for TLC: two levels.
EXTENDS Mlfq, TLC
Slices == (0 :> 1) @@ (1 :> 3)
=============================================================================
