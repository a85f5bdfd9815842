------------------------------ MODULE MCMemory ------------------------------
EXTENDS Memory
CONSTANTS p1, p2

Segment(vaddr, memsz, filesz) == [vaddr |-> vaddr, memsz |-> memsz, filesz |-> filesz]
\* Text and data that end within a page, a segment below one that is loaded
\* already, and a file with nothing to load.
MCPrograms == {<<Segment(0, 1, 1), Segment(2, 1, 0)>>, <<Segment(2, 1, 1), Segment(0, 2, 1)>>, <<>>}

MCIncrements == {-3, 1, 3}
=============================================================================
