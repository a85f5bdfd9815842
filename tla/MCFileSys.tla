----------------------------- MODULE MCFileSys -----------------------------
EXTENDS FsTree
CONSTANTS p1, p2

Open(path, mode, create, trunc) ==
    [op |-> "open", path |-> path, mode |-> mode, create |-> create, trunc |-> trunc]
Make(op, path) == [op |-> op, path |-> path]

A == <<"a">>
B == <<"b">>
AB == <<"/", "a", "b">>
Create(path) == Open(path, "rw", TRUE, TRUE)
Link(old, new) == [op |-> "link", path |-> old, new |-> new]
Node(path) == Make("mknod", path) @@ [major |-> NDEV]
Ops(ops) == {[op |-> op] : op \in ops}

\* A directory that is made and removed while another process gives a file a
\* name in it and removes its names.
Races == (p1 :> {Make("mkdir", A), Make("unlink", A), Make("unlink", AB), Make("unlink", B)} \cup Ops({"fork"}))
      @@ (p2 :> {Make("unlink", B), Link(B, AB), Make("unlink", <<".">>), Node(B)})
\* Processes that share open files and fill the disk.
Files == (p1 :> {Create(B)} \cup Ops({"fork", "write"}))
      @@ (p2 :> {Make("unlink", B), Make("mkdir", A)})
\* A process in a directory that another removes, or tries to.
Walks == (p1 :> {Make("chdir", A), Make("chdir", <<"..">>), Make("mkdir", A)} \cup Ops({"fork"}))
      @@ (p2 :> {Make("unlink", A), Make("unlink", <<"/", "a", "a">>), Link(A, <<"c">>),
                 Make("unlink", B)})
\* Calls that are refused, on a directory and on a device.
Refusals == (p1 :> {Open(<<"/", "a">>, "r", FALSE, FALSE), Open(<<"/", "a">>, "w", FALSE, FALSE)}
                   \cup Ops({"fork", "dup", "close", "read"}))
         @@ (p2 :> {Node(A), Make("mkdir", A), Make("mkdir", <<"/">>), Make("unlink", A)} \cup Ops({"exit"}))
OneFile == <<"b">>
OneWorkload == {Races}
AllWorkloads == {Races, Files, Walks, Refusals}
=============================================================================
