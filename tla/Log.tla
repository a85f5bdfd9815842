-------------------------------- MODULE Log --------------------------------
(***************************************************************************)
(* The redo log of the file system: begin_op(), log_write(), end_op() and  *)
(* commit() by several processes, a crash between any two disk writes, and *)
(* recovery.  Source: kernel/log.c.                                        *)
(*                                                                         *)
(* One action is a critical section of log.lock, or one synchronous disk   *)
(* write.  A block reaches the disk whole.  The buffer cache is what bread *)
(* returns: a block that is not pinned by the log has its disk contents.   *)
(***************************************************************************)
EXTENDS Integers, Sequences, FiniteSets

CONSTANTS Block, Value, Proc,
          MAXOPBLOCKS,  \* what begin_op() reserves for one call
          LOGSIZE,      \* data blocks in the log header
          NLOG,         \* log.size: blocks of the log on disk, its header included
          OpBlocks,     \* the most blocks that one file-system call really writes
          InitProc      \* the first process, which runs recovery

ASSUME SizeAssumption == /\ MAXOPBLOCKS \in Nat /\ LOGSIZE \in Nat /\ NLOG \in Nat
                         /\ OpBlocks \in Nat /\ MAXOPBLOCKS <= LOGSIZE
ASSUME ProcAssumption == IsFiniteSet(Proc) /\ InitProc \in Proc

VARIABLES
  home,         \* disk: the blocks at their home locations
  loghdr,       \* disk: the header block of the log, a sequence of blocks
  logblk,       \* disk: the data blocks of the log
  cache,        \* memory: the block contents in the buffer cache
  lh,           \* memory: log.lh, the blocks logged so far
  outstanding,  \* memory: log.outstanding
  committing,   \* memory: log.committing
  pc,           \* where each process stands in log.c
  tail,         \* its loop index in write_log() and install_trans()
  touched       \* the blocks its file-system call has written

disks == <<home, loghdr, logblk>>
mems  == <<cache, lh, outstanding, committing>>
ctl   == <<pc, tail, touched>>
vars  == <<disks, mems, ctl>>

InSeq(b, s)   == \E i \in 1 .. Len(s) : s[i] = b
Index(b, s)   == CHOOSE i \in 1 .. Len(s) : s[i] = b
OpProcs       == {p \in Proc : pc[p] = "op"}

\* Only the first process runs until it has recovered the log.
Booting == [p \in Proc |-> IF p = InitProc THEN "read_head" ELSE "down"]

Init ==
  /\ home \in [Block -> Value]
  /\ \E v \in Value : logblk = [i \in 1 .. LOGSIZE |-> v]
  /\ loghdr = <<>>
  /\ cache = home
  /\ lh = <<>>
  /\ outstanding = 0
  /\ committing = FALSE
  /\ pc = Booting
  /\ tail = [p \in Proc |-> 1]
  /\ touched = [p \in Proc |-> {}]

Goto(p, l) == pc' = [pc EXCEPT ![p] = l]

\* wakeup(&log), with p going to l.
WakeAllGoto(p, l) ==
  pc' = [q \in Proc |-> IF q = p THEN l ELSE IF pc[q] = "asleep" THEN "begin" ELSE pc[q]]

-----------------------------------------------------------------------------
\* A file-system call starts.
Call(p) ==
  /\ pc[p] = "idle"
  /\ Goto(p, "begin")
  /\ UNCHANGED <<disks, mems, tail, touched>>

\* This call might exhaust the log, if the others use all they reserved.
NoSpace == Len(lh) + (outstanding + 1) * MAXOPBLOCKS > LOGSIZE

\* begin_op(): sleep while a commit is running or space is short, else enter.
BeginSleep(p) ==
  /\ pc[p] = "begin"
  /\ committing \/ NoSpace
  /\ Goto(p, "asleep")
  /\ UNCHANGED <<disks, mems, tail, touched>>

BeginOp(p) ==
  /\ pc[p] = "begin"
  /\ ~ committing /\ ~ NoSpace
  /\ outstanding' = outstanding + 1
  /\ Goto(p, "op")
  /\ UNCHANGED <<disks, cache, lh, committing, tail, touched>>

\* kill() wakes a sleeper; begin_op() looks again.
Killed(p) ==
  /\ pc[p] = "asleep"
  /\ Goto(p, "begin")
  /\ UNCHANGED <<disks, mems, tail, touched>>

\* Mutant: a block that is logged already is logged again.
LogWriteAppends(p, b, v) ==
  /\ pc[p] = "op"
  /\ Cardinality(touched[p] \cup {b}) <= OpBlocks
  /\ IF Len(lh) >= LOGSIZE \/ Len(lh) >= NLOG - 1 \/ outstanding < 1
     THEN Goto(p, "panic") /\ UNCHANGED <<cache, lh, touched>>
     ELSE /\ cache' = [cache EXCEPT ![b] = v]
          /\ lh' = Append(lh, b)
          /\ touched' = [touched EXCEPT ![p] = @ \cup {b}]
          /\ UNCHANGED pc
  /\ UNCHANGED <<disks, outstanding, committing, tail>>

\* The call changes block b, whose buffer it has locked, and log_write()s it: a
\* block that is logged already is absorbed.
LogWrite(p, b, v) ==
  /\ pc[p] = "op"
  /\ Cardinality(touched[p] \cup {b}) <= OpBlocks
  /\ IF Len(lh) >= LOGSIZE \/ Len(lh) >= NLOG - 1 \/ outstanding < 1
     THEN Goto(p, "panic") /\ UNCHANGED <<cache, lh, touched>>
     ELSE /\ cache' = [cache EXCEPT ![b] = v]
          /\ lh' = IF InSeq(b, lh) THEN lh ELSE Append(lh, b)
          /\ touched' = [touched EXCEPT ![p] = @ \cup {b}]
          /\ UNCHANGED pc
  /\ UNCHANGED <<disks, outstanding, committing, tail>>

\* end_op(): the last call out commits; another makes room for those waiting.
EndOp(p) ==
  /\ pc[p] = "op"
  /\ outstanding' = outstanding - 1
  /\ \/ committing /\ Goto(p, "panic") /\ UNCHANGED committing
     \/ /\ ~ committing /\ outstanding' = 0
        /\ committing' = TRUE
        /\ Goto(p, "commit")
     \/ /\ ~ committing /\ outstanding' # 0
        /\ WakeAllGoto(p, "idle")
        /\ UNCHANGED committing
  /\ touched' = [touched EXCEPT ![p] = {}]
  /\ UNCHANGED <<disks, cache, lh, tail>>

-----------------------------------------------------------------------------
\* Mutant: the header is written before the blocks it names.
CommitHeadFirst(p) ==
  /\ pc[p] = "commit"
  /\ Goto(p, IF Len(lh) > 0 THEN "write_head" ELSE "finish")
  /\ UNCHANGED <<disks, mems, tail, touched>>

\* commit(): nothing to do for an empty log.
Commit(p) ==
  /\ pc[p] = "commit"
  /\ Goto(p, IF Len(lh) > 0 THEN "write_log" ELSE "finish")
  /\ UNCHANGED <<disks, mems, tail, touched>>

\* The loops start over at the first block.
LoopDone(p) == tail' = [tail EXCEPT ![p] = 1]

\* write_log(): the next modified block is written to the log.
WriteLog(p) ==
  /\ pc[p] = "write_log"
  /\ IF tail[p] <= Len(lh)
     THEN /\ logblk' = [logblk EXCEPT ![tail[p]] = cache[lh[tail[p]]]]
          /\ tail' = [tail EXCEPT ![p] = @ + 1]
          /\ UNCHANGED pc
     ELSE Goto(p, "write_head") /\ LoopDone(p) /\ UNCHANGED logblk
  /\ UNCHANGED <<home, loghdr, mems, touched>>

\* write_head(): the commit point.
WriteHead(p) ==
  /\ pc[p] = "write_head"
  /\ loghdr' = lh
  /\ Goto(p, "install")
  /\ UNCHANGED <<home, logblk, mems, tail, touched>>

\* install_trans(): one block goes from the log to its home, through the cache.
InstallBlock(i) ==
  /\ home'  = [home EXCEPT ![lh[i]] = logblk[i]]
  /\ cache' = [cache EXCEPT ![lh[i]] = logblk[i]]

Installs(i) == i <= Len(lh)

InstallTrans(p) ==
  /\ pc[p] = "install"
  /\ IF Installs(tail[p])
     THEN /\ InstallBlock(tail[p])
          /\ tail' = [tail EXCEPT ![p] = @ + 1]
          /\ UNCHANGED pc
     ELSE Goto(p, "clear") /\ LoopDone(p) /\ UNCHANGED <<home, cache>>
  /\ UNCHANGED <<loghdr, logblk, lh, outstanding, committing, touched>>

\* Mutant: the transaction is erased in memory only.
ClearMemory(p) ==
  /\ pc[p] = "clear"
  /\ lh' = <<>>
  /\ Goto(p, "finish")
  /\ UNCHANGED <<disks, cache, outstanding, committing, tail, touched>>

\* commit() erases the transaction from the log.
Clear(p) ==
  /\ pc[p] = "clear"
  /\ lh' = <<>>
  /\ loghdr' = <<>>
  /\ Goto(p, "finish")
  /\ UNCHANGED <<home, logblk, cache, outstanding, committing, tail, touched>>

\* Mutant: those waiting in begin_op() are not woken.
FinishSilently(p) ==
  /\ pc[p] = "finish"
  /\ committing' = FALSE
  /\ Goto(p, "idle")
  /\ UNCHANGED <<disks, cache, lh, outstanding, tail, touched>>

\* The end of end_op(), after the commit.
Finish(p) ==
  /\ pc[p] = "finish"
  /\ committing' = FALSE
  /\ WakeAllGoto(p, "idle")
  /\ UNCHANGED <<disks, cache, lh, outstanding, tail, touched>>

-----------------------------------------------------------------------------
\* The machine stops: the disk is all that is left.
Crash ==
  /\ cache' = home
  /\ lh' = <<>>
  /\ outstanding' = 0
  /\ committing' = FALSE
  /\ pc' = Booting
  /\ tail' = [p \in Proc |-> 1]
  /\ touched' = [p \in Proc |-> {}]
  /\ UNCHANGED disks

\* recover_from_log(): read_head() ...
ReadHead(p) ==
  /\ pc[p] = "read_head"
  /\ lh' = loghdr
  /\ Goto(p, "recover")
  /\ UNCHANGED <<disks, cache, outstanding, committing, tail, touched>>

\* ... install_trans(1) ...
RecoverInstall(p) ==
  /\ pc[p] = "recover"
  /\ IF Installs(tail[p])
     THEN /\ InstallBlock(tail[p])
          /\ tail' = [tail EXCEPT ![p] = @ + 1]
          /\ UNCHANGED pc
     ELSE Goto(p, "recover_clear") /\ LoopDone(p) /\ UNCHANGED <<home, cache>>
  /\ UNCHANGED <<loghdr, logblk, lh, outstanding, committing, touched>>

\* ... and clear the log.  The other processes can run.
RecoverClear(p) ==
  /\ pc[p] = "recover_clear"
  /\ lh' = <<>>
  /\ loghdr' = <<>>
  /\ pc' = [q \in Proc |-> "idle"]
  /\ UNCHANGED <<home, logblk, cache, outstanding, committing, tail, touched>>

-----------------------------------------------------------------------------
CommitStep(p)  == \/ Commit(p) \/ WriteLog(p) \/ WriteHead(p)
                  \/ InstallTrans(p) \/ Clear(p) \/ Finish(p)
RecoverStep(p) == ReadHead(p) \/ RecoverInstall(p) \/ RecoverClear(p)
CallStep(p)    == \/ Call(p) \/ BeginSleep(p) \/ BeginOp(p) \/ Killed(p) \/ EndOp(p)
                  \/ \E b \in Block, v \in Value : LogWrite(p, b, v)

Next == (\E p \in Proc : CallStep(p) \/ CommitStep(p) \/ RecoverStep(p)) \/ Crash

Spec == Init /\ [][Next]_vars

\* The kernel runs on, and a file-system call does a bounded amount of work.
FairSpec == /\ Spec
            /\ \A p \in Proc : WF_vars(EndOp(p) \/ CommitStep(p) \/ RecoverStep(p))

-----------------------------------------------------------------------------
CommitLabels  == {"commit", "write_log", "write_head", "install", "clear", "finish"}
RecoverLabels == {"read_head", "recover", "recover_clear"}
Labels == {"idle", "begin", "asleep", "op", "down", "panic"} \cup CommitLabels \cup RecoverLabels

\* The type of the state; the header never holds a block twice.
TypeOK ==
  /\ home \in [Block -> Value] /\ cache \in [Block -> Value]
  /\ logblk \in [1 .. LOGSIZE -> Value]
  /\ lh \in Seq(Block) /\ loghdr \in Seq(Block)
  /\ Len(lh) <= LOGSIZE /\ Len(loghdr) <= LOGSIZE
  /\ \A i, j \in 1 .. Len(lh) : lh[i] = lh[j] => i = j
  /\ \A i, j \in 1 .. Len(loghdr) : loghdr[i] = loghdr[j] => i = j
  /\ outstanding \in Nat /\ committing \in BOOLEAN
  /\ pc \in [Proc -> Labels]
  /\ tail \in [Proc -> Nat \ {0}]
  /\ touched \in [Proc -> SUBSET Block]

\* The disk as recovery would leave it: the blocks that the header names replace
\* those at home.
Overlay(h, hdr, blk) == [b \in Block |-> IF InSeq(b, hdr) THEN blk[Index(b, hdr)] ELSE h[b]]
Durable == Overlay(home, loghdr, logblk)

Recovering == pc[InitProc] \in RecoverLabels

\* What file-system calls see, or will see once the log is recovered.
Visible == IF Recovering THEN Durable ELSE cache

\* The log implements atomic updates: a crash at any point, also in the middle of a
\* commit or of a recovery, leaves all the updates of the calls that were committed
\* together, or none of them.
Atomic == INSTANCE AtomicDisk WITH disk <- Durable, mem <- Visible, open <- OpProcs
AtomicUpdates == Atomic!Spec

\* When the last end_op() has returned, everything written is on the disk.
IdleDurable ==
  ~ Recovering /\ outstanding = 0 /\ ~ committing => home = cache /\ loghdr = <<>>

\* begin_op() reserved the space: no log_write() runs out of it, and nobody is in a
\* call while another commits.
NoPanic == \A p \in Proc : pc[p] # "panic"

\* Whoever sleeps in begin_op() waits for somebody who will wake it.
SleeperHasWaker ==
  (\E p \in Proc : pc[p] = "asleep") => committing \/ outstanding > 0

\* Whoever sleeps in begin_op() looks again.
SleeperWakes == \A p \in Proc : pc[p] = "asleep" ~> pc[p] # "asleep"
=============================================================================
