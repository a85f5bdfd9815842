----------------------------- MODULE AtomicDisk -----------------------------
(***************************************************************************)
(* What the log promises to file-system calls: between begin_op() and      *)
(* end_op() a call changes blocks in memory; what is in memory reaches the *)
(* disk all at once, and only while no call is half way; a crash goes back *)
(* to what is on the disk.  Log implements this.                           *)
(***************************************************************************)
CONSTANTS Block,   \* the blocks of the file system
          Value,   \* the contents of a block
          Proc     \* the processes that make file-system calls

VARIABLES disk,    \* the contents that survive a crash
          mem,     \* the contents that file-system calls see
          open     \* the processes inside a file-system call

vars == <<disk, mem, open>>

Init == /\ disk \in [Block -> Value]
        /\ mem = disk
        /\ open = {}

Begin(p) == p \notin open /\ open' = open \cup {p} /\ UNCHANGED <<disk, mem>>

Write(p) == /\ p \in open
            /\ \E b \in Block, v \in Value : mem' = [mem EXCEPT ![b] = v]
            /\ UNCHANGED <<disk, open>>

End(p) == p \in open /\ open' = open \ {p} /\ UNCHANGED <<disk, mem>>

Commit == open = {} /\ disk' = mem /\ UNCHANGED <<mem, open>>

Crash == mem' = disk /\ open' = {} /\ UNCHANGED disk

Next == (\E p \in Proc : Begin(p) \/ Write(p) \/ End(p)) \/ Commit \/ Crash

Spec == Init /\ [][Next]_vars
=============================================================================
