------------------------------- MODULE MCPipe -------------------------------
\* Small instances of Pipe for TLC.
EXTENDS Pipe, TLC
CONSTANTS r, w, s
\* One reader, one writer, and one that has both ends open, like a shell that has
\* not closed them yet; or two writers.
Shell      == (r :> {"read"}) @@ (w :> {"write"}) @@ (s :> {"read", "write"})
TwoWriters == (r :> {"read"}) @@ (w :> {"write"}) @@ (s :> {"write"})
=============================================================================
