# A TLA+ verification of xv6-Enhancement

TLA+ models of this xv6 fork (`src/initial-xv6/src`: the kernel, the shell and
malloc) and of the game server beside it (`src/networks`),
checked with TLC on small instances, and theorems about them checked with TLAPS.
Every definition is translated from the C code; `PROJECT.json` ("map") gives the
lines each one stands for. Paths below are relative to `src/initial-xv6/src` unless
they start with `networks/`.

## 1. Inventory of the system

| Component | State | Operations | Interacts through | Hard behaviour | Correct when |
|---|---|---|---|---|---|
| Process table (`kernel/proc.c`) | `proc[NPROC]` (state, chan, killed, pid, parent), `nextpid`, `wait_lock` | fork, exit, wait, waitx, kill, sleep, wakeup, yield | p->lock, wait_lock; called from system calls, interrupts | locks handed over by swtch(), slots reused while others look at them, lost wakeups, orphans | a process runs on one CPU, slots have one owner, no zombie is lost, killed processes exit |
| Schedulers (`proc.c`, `queue.c`) | `cpus[]`, MLFQ queues, level, in_queue, enter_ticks | scheduler() in three builds: RR, FCFS, MLFQ | p->lock, swtch() | selection and dispatch under different lock holds | every runnable process runs (under MLFQ unless aging sends it back); none runs twice |
| Traps and clock (`trap.c`) | `ticks`, per-process alarm fields | usertrap, kerneltrap, clockintr, sigalarm, sigreturn | interrupts preempt anything that has interrupts on | preemption points, re-entrant handlers | a killed process exits; the handler never nests |
| Spinlocks (`spinlock.c`) | holder, per-CPU noff/intena | acquire, release, push_off, pop_off | interrupt enable flag | interrupt while a lock is held | no interrupt handler spins on its own CPU's lock |
| Sleep locks (`sleeplock.c`) | locked, pid | acquiresleep, releasesleep, holdingsleep | sleep/wakeup | wakeup of many, one wins | mutual exclusion, no lost wakeup |
| Log (`log.c`) | `log` (outstanding, committing, lh), the log area of the disk | begin_op, end_op, log_write, commit, recovery | buffer cache, sleep/wakeup | crash between any two disk writes, group commit | each transaction is all or nothing on disk |
| Buffer cache (`bio.c`) | `bcache` LRU list, refcnt, valid | bread, bwrite, brelse, bpin, bunpin | bcache.lock, b->lock, virtio | eviction against pins and sleepers | one buffer per block, pinned blocks stay |
| Disk driver (`virtio_disk.c`) | descriptors, avail/used rings, info[] | virtio_disk_rw, virtio_disk_intr | device, interrupt, sleep/wakeup | descriptors exhausted, completions out of order | each request completes once, descriptors return |
| Pipes (`pipe.c`) | ring, nread, nwrite, readopen, writeopen | read, write, close | pi->lock, two channels | both ends asleep, close during a wait, counters wrap | a bounded FIFO; nobody sleeps when there is work |
| Console, UART (`console.c`, `uart.c`) | r/w/e indices, tx ring | read, write, input interrupt | cons.lock, uart_tx_lock | editing behind a reader, a full buffer | lines arrive as edited and in order; nobody sleeps on what is there |
| Inodes, files (`fs.c`, `file.c`, `sysfile.c`) | inode table, file table, on-disk inodes | iget, iput, ilock, open, link, unlink | itable.lock, log transactions | last reference against link count, crashes, full disk | no inode freed in use or leaked; the disk is a tree |
| Memory (`kalloc.c`, `vm.c`, `exec.c`) | free list, page tables | kalloc, kfree, uvm* | kmem.lock | error paths half way | every page has one owner |
| Rock-paper-scissors (`networks/PartA/rpc`) | two TCP connections | choice, result, play again | streams | streams without frames, a client ahead or gone | what the server reads belongs to this game |
| UDP transfer (`networks/PartB`) | seq_num | send, echo | lossy datagrams | none is handled | not modelled |
| Shell, init (`user/sh.c`, `user/init.c`) | the tree of processes and pipes of a line | parsecmd, runcmd, wait | fork, pipe, wait | pipelines, background jobs, failing forks | the prompt comes when the line is done, and comes |
| malloc (`user/umalloc.c`) | circular free list | malloc, free | sbrk | joining in any order | blocks neither overlap nor get lost |

All of these are modelled but for the UDP transfer, which has no protocol state, and the
parts that section 15 names; `PROJECT.json` ("components") gives the status of each.

## 2. Plan and modules

| Step | Modules | Run |
|---|---|---|
| 1 | `Proc`, `ProcProofs` | `proc_safety`, `proc_liveness` |
| 2 | `AtomicDisk`, `Log`, `LogProofs` | `log_crash` |
| 3 | `Channel`, `Pipe`, `PipeProofs` | `pipe_one_cpu` |
| 4 | `BlockStore`, `Bcache`, `BcacheProofs` | `bcache` |
| 5 | `DiskService`, `VirtioDisk`, `VirtioProofs` | `virtio` |
| 6 | `Mlfq`, `MlfqProofs` | `mlfq`, `mlfq_timer` |
| 7 | `FsDisk`, `FileSys`, `FsTree`, `FileSysProofs`: the disk image, the calls over it, and the tree that they leave | `filesys`, `fs_iput_race` |
| 8 | `Vm`, `Memory`: page tables, fork, exec, sbrk, alarms | `memory` |
| 9 | `Tty`, `Console`; `Fcfs`; `Rps`; with `Parts`, `PartsProofs`; `Shell`; `Umalloc` | `parts` |

What could still be done, in this order: a proof that the durable tree has the right link counts,
push_off()/pop_off() nesting, sys_pipe() over the file table.

The modules stack as the code does: `VirtioDisk` promises `DiskService`, which is what a
disk transfer is in `Bcache`; `Bcache` promises `BlockStore`, which is what `Log` uses as
its cache; `Log` promises `AtomicDisk`, which is how `FileSys` groups and loses its
changes; `FileSys` uses what `mkfs` and `Memory` what `userinit()` leave. `Proc` is the ground for
all of them: the other modules take sleep() and wakeup() as atomic with respect to
the lock that sleep() is given, which is what `Proc` shows with the p->lock handover.

Each module has an MC module (definitions for TLC only) and one configuration per
question. The operators whose comment starts with "Mutant" are not part of a
specification: each is a plausible bug, and replacing the definition it varies by it
makes the run report the property that `PROJECT.json` ("mutants") names.

## 3. Proc: processes, sleep/wakeup, round robin

The process table, sleep/wakeup through wait(), and the RR scheduler on any number of
CPUs. A process is its slot; `thr[p].pc` is where its kernel thread stands and
`cpu[c].pc` where the CPU's scheduler() stands ("scan", "run" a process, or "back"
after swtch()). A stretch of code that touches only what its locks protect is one
action; where one lock is held while another is taken, or a lock is handed over by
swtch(), the steps are separate. The labels follow the code: `alloc` ... `fork_runnable`
is fork(), `exit` ... `zombie` is exit(), `wait`, `scan`, `sleep`, `sleep_switch`,
`slept` is wait() with its sleep(), `yielded` is yield().

What init does follows `user/init.c`: it forks and waits, and neither exits nor kills.
User code is otherwise free to make any system call of the model at any time.

| Run | Instance | Shows |
|---|---|---|
| `proc_safety` | 2 CPUs, 3 slots, pids up to 4, kill(3), CPUs symmetric | sched() never panics; one CPU per process; a forked slot has one owner; live parents; no lost wakeup; a zombie is freed off its CPU |
| `proc_liveness` | 1 CPU, 3 slots, pids up to 3, kill(2), kill(3) | killed processes exit, wait() returns when a child is a zombie, round robin reaches everyone |

Bounds: three slots are init, a parent and its child, or two children of init whose
slots are reused (`MaxPid` forks); that gives a zombie with an exiting parent, adoption,
and two CPUs that both want every slot. `MaxPid` stops fork() and nothing else.
Fairness: every CPU goes on (interrupts are enabled in scheduler(), critical sections
end) and the timer interrupts again and again whatever is preemptible; no fairness is
assumed of what user programs do.

Proved (`ProcProofs`, any number of slots, CPUs and pids): every safety property of the
runs, `TypeOK`, `SchedAsserts`, `RunsOnOneCPU`, `ForkOwnsSlot`, `LiveParent`, `NoLostWakeup`
and `ReapOffCPU`; and under a condition each, `BornUnkilled` (no process calls kill(0)) and
`KilledNotAsleep` (one CPU). None of them is inductive. The invariant `IInv` adds
`PlaceInv` (a process that does not run is where swtch() left it), `CPUInv`, and
`LockInv` (who holds each p->lock and wait_lock, through the switch and back). Most
actions only move one thread: the lemma `LocalStepInv` treats them at once. On top of it
`FamilyInv` says what wait_lock protects: whom reparent() has visited already, that a zombie's
parent has been or is about to be woken, and that a process inside wait() has seen its children
under the lock; `MarkInv` says where p->killed can still be set while the process goes to
sleep. Only model-checked: liveness.

Two formulas of `Proc` are true of some instances only, and no run lists them. On two CPUs
(the constants of `proc_safety` with KillPids = {2}) `KilledNotAsleep` fails: kill() can
come between wait()'s look at killed (proc.c:459) and its sleep(), wakes nobody, and the
process sleeps killed until a child of it exits. With KillPids = {0} `BornUnkilled` fails:
kill(0) finds a slot that is UNUSED, whose pid is 0 (proc.c:752), allocproc() leaves
p->killed as it is, and the next process in the slot exits before its first call.

Not in `Proc`: waitx() and the times (in `Fcfs`), memory (in `Memory`), channels other than
a process's own (pipes, disk, console, clock and sleep locks have their modules).

## 4. Log: atomic updates under crashes

Several processes run begin_op(), log_write(), end_op(); the last one out commits. One
action is a critical section of log.lock or one disk write, so `Crash` can come between
any two disk writes, also of a recovery; memory is lost and the first process recovers.
The block contents in `cache` are what bread() returns.

`AtomicDisk` is the promise: a disk whose contents change by whole groups of calls.
`AtomicUpdates` maps the durable contents to home overlaid with what the header names.

| Run | Instance | Shows |
|---|---|---|
| `log_crash` | 2 processes, 3 blocks, 2 values, LOGSIZE = NLOG = 6, MAXOPBLOCKS = 3, calls that write up to two blocks, each as often as they like | the refinement; memory and home agree when idle; no panic; every sleeper in begin_op() wakes |

Bounds: room for two calls at once and calls of two blocks out of three give group
commit, absorption within and between calls, a sleeper in begin_op() for either
reason, and headers of up to three blocks, so a crash between two blocks of the same call
and between two installs. The code's own sizes (LOGSIZE = 3 *
MAXOPBLOCKS, a log area of LOGSIZE blocks that includes the header, so
LOGSIZE - 1 data blocks) would not be enough for three calls that write all they
reserve: the check in log_write() would panic. `OpBlocks` is the number that
calls really write; with `OpBlocks` = MAXOPBLOCKS and one more process `NoPanic` fails.
Fairness: a call that is open ends, and a commit goes on; needed for `SleeperWakes` only.

Proved (`LogProofs`, any sizes): `TypeOK`, `IdleDurable`, `SleeperHasWaker`, and the whole
refinement `AtomicUpdates`, crashes and recovery included. `RunInv` says that a
committer excludes open calls and recovery excludes everything; `DataInv` says, for each
position of commit() and recover_from_log(), which blocks are in the log and at home.
The overlay lemmas then give that only the write of the header changes what is durable.
`NoPanic` is proved of the sizes that the code has, `SizesOfTheCode`: a call writes fewer blocks than
MAXOPBLOCKS (10, param.h:9), the log in memory holds more than one call's reservation and no more
than the area on disk (LOGSIZE is 30, param.h:10; mkfs makes the area as large). That calls stay
below 10 is what filewrite() arranges for its part (file.c:170). The argument (`RoomInv`): each
call, open or ended, leaves at least one block of its reservation unused, and that pays for the
block of the header, which begin_op() does not count; since a sum over processes needs induction, the
invariant speaks of every group of processes at once (`WroteInv`, `PromiseInv`). Only
`SleeperWakes` is model-checked.

A block is assumed to reach the disk whole and in program order (virtio_disk_rw() is
synchronous); nothing in the code handles a torn block.

## 5. Pipe: a bounded FIFO with sleepers on both ends

pipewrite() and piperead() with every sleep, failed copy, early return and kill();
pipeclose() through the file reference counts; counters are unsigned and wrap around at
UINT. `Channel` is the promise: a FIFO of PIPESIZE bytes (`BoundedFifo`; a byte whose
copyout fails is taken all the same, as in the code).

| Run | Instance | Shows |
|---|---|---|
| `pipe_one_cpu` | reader, two writers, 2 bytes, PIPESIZE 2, UINT 4, calls of 3 bytes, one victim | FIFO, no lost wakeup, a closed end or a kill brings everyone back |

Bounds: a call is longer than the pipe, so it sleeps half way; the counters wrap
around twice within the run; two writers compete for every slot that is freed.
`OneCPU` is the Makefile's default (CPUS := 1): kill() cannot run while another process
is inside a critical section with interrupts off. Fairness: critical sections end, a
spinlock that is free again and again is acquired, a killed process exits.

Proved (`PipeProofs`, any processes, sizes and ends): `TypeOK` on any number of CPUs;
`NoLostWakeup` on one; and its half for writers on any number. The invariant says that
a sleeper whose condition no longer holds coexists only with someone in the pipe who is
going to wake it. The refinement `BoundedFifo` is proved for every PIPESIZE that divides
UINT (as 512 divides 2^32), any processes and CPUs: the channel's content is the ring from nread to
nwrite. The lemmas on rings that it needs begin the module, and are those of the disk's and the
console's rings too: indices that wrap around at a multiple of the ring's size still name
neighbouring, different slots (`Onwards`, `Distinct`), and their distance is the number of entries
(`OneMore`, `OneLess`).
Only model-checked: liveness (`Returns`).

With OneCPU = FALSE (and Spec, calls of 2 bytes) `NoLostWakeup` fails: a writer killed after
it stored bytes returns at pipe.c:91 without wakeup(&pi->nread), and a reader sleeps on a
pipe with bytes in it while another process keeps the write end open.

## 6. Mlfq: the multi-level feedback queue

scheduler() of the MLFQ build step by step (aging, enqueueing, choice, dispatch), with
the timer between any two steps, on one CPU (its queues have no lock). fork(), exit(),
sleep(), wait() are one step each. change_queue is set at dispatch and compared by
the timer interrupt; nothing decrements it.

| Run | Instance | Shows |
|---|---|---|
| `mlfq` | 4 slots, 2 levels, AGETICK 2: as in the code there are more slots than ticks until a process is aged | a process is queued exactly once, at its level, while in_queue says so, and only while runnable; a process that never runs is one that aging sends back again and again |
| `mlfq_timer` | 2 slots | finding: a process in user space is never preempted |

Not everyone runs. Aging takes a process that has waited AGETICK ticks out of its queue and
puts it at the back, of the level above or, at level 0, where they all are, of its own
(proc.c:536-556). With NPROC 64 and AGETICK 30 (param.h:1,15) a process can be sent back before its
turn comes, and so for ever: either because more than AGETICK others run for a tick each, or
because two slots before it run for AGETICK ticks each (they are aged at the same scan and
stand before it, being before it in the table). TLC shows such a cycle in the instance
of `mlfq` when it is asked for `RunnableRuns == \A s \in Slot : state[s] = "RUNNABLE" ~>
state[s] # "RUNNABLE"`; no text in the repository promises that, so it is not a finding.
`StarvedOnlyByAging` says what is left: no other rule of the queues starves anyone.
The number of ticks from one dispatch to the next is not bounded. The fairness
of `mlfq` is that programs enter the kernel and leave the CPU there: the code does not
enforce it (`mlfq_timer`), so the run says what MLFQ does for programs that cooperate.
`PickNone` assumes that what lies behind proc[NPROC] does not read as RUNNABLE
(proc.c:582 reads it when all queues are empty). Levels above 0 are in the model but no
process reaches them, as in the code.

Proved (`MlfqProofs`, any number of slots and levels, any time slices and AGETICK):
`QueuesConsistent`. The invariant `QueueInv` says that who stands in a queue is runnable, of that
queue's level and marked in_queue, and stands there once; `CpuInv` that who has the CPU, or is
chosen for it, stands in none, so that its level may change. That no queue overflows, so that
the panic of pushback() (queue.c:22) is never reached, follows by the pigeonhole principle. Only
model-checked, being liveness: `StarvedOnlyByAging`.

## 7. Bcache: the buffer cache and sleep locks

bget() (hit, recycle, panic), acquiresleep(), bread() with the disk transfer,
the callers' change / log_write() / install cycle, releasesleep() and brelse() as two
steps, because another process can come between them. `BlockStore` is the promise: one
content per block, changed only by who has it; no eviction can be seen.

| Run | Instance | Shows |
|---|---|---|
| `bcache` | 2 processes, 2 buffers, 3 blocks, 2 values, 1 pin | one copy per block; references are counted exactly; a process has the block it asked for; the refinement; who asks gets it |

Bounds: fewer buffers than blocks force recycling, two processes meet on one buffer
and on one free slot, a pin keeps a changed block in memory. With one pin and two users
all buffers can be referenced: bget() then panics, as in the code, and the process is
gone (`BgetPanic`; hence deadlock is not checked). A process uses one buffer at a time;
the code's callers hold up to three. Fairness: transfers end, a holder lets go, and a
lock that is free again and again is had (several waiters are woken, one wins; the
spinlock under the sleep lock decides, and nothing in the code favours one for ever).

Proved (`BcacheProofs`, any finite number of processes, any number of buffers, blocks and pins):
`CacheSound` and the refinement `CacheIsStore`. `CacheSound` becomes inductive with three
additions: the list has every buffer (`Listed`), who refers to a buffer has asked for a block
(`Asked`), and a pinned block is cached and stays pinned until its writer unpins it (`Pins`);
without `Pins` the count of a recycled buffer could be one too low. The refinement needs
`Coherent`: a valid buffer that is neither pinned nor about to be holds what the disk holds,
so that recycling it changes no content, and a buffer that is being read was not valid.
That who asks for a block gets it is checked only.

## 8. VirtioDisk: descriptors, rings, interrupt

virtio_disk_rw() up to the write of the ring slot, its publication (avail->idx), the
sleep, and what follows the completion; virtio_disk_intr() entry by entry; the device
takes requests from the ring and completes them in any order, without the lock.
Reading a ring slot clears it in the model, so that a second read would show. `DiskService`
is the promise: each request is carried out once, between its call and its return.

| Run | Instance | Shows |
|---|---|---|
| `virtio` | 3 processes, 7 descriptors, indices modulo 14, 1 block, 2 values, one victim of kill(), processes and values symmetric | chains are disjoint, no descriptor is lost and nobody waits while three are free; each completion finds the process that waits for it; the refinement |

Bounds: with seven descriptors two requests are in flight and the third process takes
the last one and gives it back, and chains get interleaved descriptors. The driver's
NUM is 8. Deadlock is checked. That a request returns in the end is not stated: it rests on the device, and
which waiter gets the descriptors is not decided by the code.

Proved (`VirtioProofs`, any processes, any NUM of at least 3 and any width of the indices that NUM
divides; Desc is finite, Proc need not be): all three properties, the refinement `ServesRequests`
among them. The invariant says where a request in flight is: about to be published, in the avail
ring, with the device, in the used ring, or done; the entries of each ring are heads of different
requests (`RingOK`), and each request has three descriptors of its own (`Linked`). That gives what
no line of the driver checks: a ring never overflows (`RingRoom`: the heads in it and the three
descriptors of one more request are all different, so at least three slots are free). Without `OwnOK`
(a request that is not marked as waiting is one that was carried out) the completion handler
could find the buffer of nobody.

## 9. FsDisk, FileSys and FsTree: the file system

`FsDisk` is the disk image and the functions of `kernel/fs.c` on it, as operators: balloc,
bmap with its indirect block, itrunc, ialloc, readi/writei by blocks, dirlookup and dirlink,
and the image that `mkfs` makes. `FileSys` is the inode table, the file table, descriptors,
current directories and the calls of `kernel/sysfile.c` over it: open (with create and
truncate), link, unlink, mkdir, mknod, chdir, dup, close, read, write, fork and exit. `FsTree` adds
the tree that can be reached from the root, and a history (`astray`) of what was named outside of it.

One action is what a process does under one sleep-lock: a level of namex(), the half of
sys_link() before and after the directory is looked up, the two locks of sys_unlink(), the
look-up and the filling of create(), one block of filewrite(). What is left to do on the way
out (iput(), iunlock(), end_op()) is a list `todo`, one step per item; iput() of the last
reference is three steps, as in the code: free on the disk, mark invalid, decrement.
begin_op()/end_op() are those of `Log` in the abstract: the changes of all open calls
commit together when the last one ends, and `Crash` brings back what was committed. fileclose()'s
decrement and its begin_op() are one step; filewrite() opens a transaction for each block, where the
code takes up to three blocks (file.c:170).

| Run | Instance | Shows |
|---|---|---|
| `filesys` | 2 processes, 3 inodes, 4 data blocks, blocks of 4 words, 1 direct block, 2 files and descriptors, four workloads | what becomes durable is a tree with right link counts, but for inodes named in a removed directory, whose counts may be too high; no block or inode is lost or shared; references are exact; no panic but behind the ".." of a removed directory, no circle of waiting |
| `fs_iput_race` | the same, one workload, three calls in a group | finding: iput() leaves an inode without a name allocated |

A workload gives each process a set of calls that it may make in any order and number:
a directory that is made and removed while links come and go in it; shared open files on
a disk that fills up; a process inside a directory that is removed; calls that are refused.
Bounds: four blocks of four words fill up within one write(), and one direct block makes every
second block an indirect one; three inodes run out in create(); NINODE is enough for all in
the run (iget() of one inode too many is a panic, and what panics takes no step, `Room`: with 50 slots
and 64 processes of 16 descriptors the code can reach that); a path has a name at least, or is "/"; at most two or three calls commit together (`MaxGroup`, as the log's size does).
Nobody calls link() while an inode has `MaxLinks` = 3 links: the root with a subdirectory has two, so
that each file can be linked twice more than the first time. `NothingLeaks` allows for `lost`: the
inodes that a crash left without a link but allocated (nothing reclaims them at boot), and
those of the finding; "without a link" is nlink = 0. Deadlock is not checked: a behaviour may end at a
bound, and what panics stops. sys_link()'s undo, unlink() of "." and of a directory that is not empty, and
every other early return are in the run.

A directory that was removed goes on as long as a process stands in it or is on the way through it,
and the code does not treat it in any other way than the others:

- Its ".." still names the inode that was its parent, without a reference to it. When that one was
  removed too and is freed, chdir("..") or any look-up through ".." panics in ilock() ("ilock: no
  type", fs.c:321), or finds whatever inode has got the number since. `NoPanic` therefore says that a
  process meets an inode without a type behind ".." only (`CameBy`); without that clause TLC finds
  the panic: a process stands in a/a, another removes a/a and then a, and the first does chdir("..").
- A name can still be made in it: link(b, "a/b") is past the look-up of a when another process removes a
  (sysfile.c:153-161), or a process whose current directory was removed calls mkdir(). The call succeeds; when
  the directory is freed the name is gone, nobody decrements the nlink it stands for, and the inode keeps
  a count that is too high, or one that no name of the tree accounts for, also after a crash. `astray`
  holds the inodes to which this has happened, and `Consistent` lets these, and no others, have a count above the
  number of their links in the tree. `NothingLeaks` does not see them: their nlink is not 0.

Both are reached in the run. usertests.c and the comments promise nothing of them, so they are not findings.

The finding: iput() drops itable.lock to free an inode (fs.c:354) and takes it again only to
decrement ref. In between the number can be allocated, named and unlinked by another process,
whose own iput() sees ref 2; the first iput() then drops the last reference to an inode
with nlink 0 and does not look again.

Proved (`FileSysProofs`, any number of processes, inodes and blocks, any sizes of a block, of the inode
table, the file table and the descriptors, any calls, with crashes at every step): `RefsExact` and
`NothingLeaks`. Assumed are the sizes of `FsDisk` (a block has an entry, the image of mkfs fits on the
disk), that Proc is finite, and of the calls that a path has a name and is given to the calls that
take one (`CallsAssumption`). Neither property is inductive. What iput() may free depends on the
references of the others; that these are exact needs the entries of directories to be inode numbers,
which needs the blocks of inodes to be disjoint (a write to a file must not reach a directory); and
that needs the inode in a slot to be the one on the disk, which holds because of who has the locks.
`IInv` carries all of it at once:

| Part | Says | Needed because |
|---|---|---|
| `Sound`, of `disk` and of `durable` | an address names a block of its own that the bitmap marks, a free inode names none, a directory has a block and an inode number for each entry | a crash makes the durable image the current one, and iget() of an entry must find an inode |
| `Local` | what a process has locked, holds and refers to at its place of a call, and that it gives up each slot after it has unlocked it | a step uses what an earlier step has found, with the locks given up in between or not |
| `FilesTyped` | no directory is open for writing | filewrite() must not reach the entries |
| `Counted`, `FilesOK` | ref is the number of references, of slots and of files | this is `RefsExact`; without it a slot in use could be recycled |
| `Named2`, `Agree` | no inode has two slots, and a valid copy is what the disk has, but while its last user frees it | iupdate() and itrunc() write the copy back |
| `Kept` | an inode without a link has a slot in use, loaded or about to be by create() | this is `NothingLeaks`; somebody's last iput() finds nlink 0 |

The lemmas on the image say for each function of `FsDisk` (bmap, writei, itrunc, ialloc, dirlink, ...) what
it does to its own inode and that it leaves the blocks of the others alone (`MapsFor`,
`SoundBlocks`). Sums over processes are cardinalities of sets of pairs (`Total`), so that a step
that changes one summand needs no induction. A step of p changes only inodes that p has locked
and counts that p has a part in (`Keeps`); that the `Local` of the others survives it is
proved once (`KeepsLocal`). The proof asked for changes of the model, each towards the code: ilock() of an
inode without a type and iget() with a full table are panics (`Ilock`, `Room`), sys_unlink() remembers
where the entry was (`off`) from dirlookup() to writei(), and a failing writei() there is a panic.
Only model-checked: `NoPanic`, whose absence of circles of waiting comes from the shape of the tree,
and `CrashConsistent`: both need a count of the names of each inode on top of `IInv`, and that
".." is right as long as its directory is in the tree.

## 10. Vm and Memory: page tables, exec, alarms

`Vm` has walk, mappages, uvmunmap, uvmalloc, uvmdealloc, uvmcopy, freewalk, walkaddr and the
copies of `kernel/vm.c`, and kalloc()/kfree(), on a table of two-way levels (eight virtual
pages). `Memory` has fork(), exec() (with sys_exec()'s argument pages), sbrk(), exit(), wait(),
sigalarm(), the timer tick that starts a handler, and sigreturn(). A call is one action: it
works on tables nobody else sees, and kalloc() may fail at any page of it.

| Run | Instance | Shows |
|---|---|---|
| `memory` | 2 processes, 16 pages, pages of 2 bytes, 3 programs, sbrk(-3, 1, 3), up to one argument | a page has one use or is free; the table is what p->sz says; page-table functions never panic; a failed call changes nothing; copies go by the table |

Bounds: sixteen pages are less than two processes want, so that every kalloc() of every call
fails in some state; sizes of one and a half pages give each rounding; a program loads its
segments out of order. `VIEW Shape` leaves out the numbers of the pages: no action depends
on them but through which are free, so states that differ in those only have the same
successors up to the numbers, and the properties count pages but never name one.
`CopiesAgree` compares Copy and Copyinstr with a byte-by-byte definition for every
address and length up to two pages and a byte.

What alarms do to memory is in the model as it is in the code: sigreturn() frees the page of the
saved trapframe (sysproc.c:119), but a second sigalarm() inside the handler allows the next tick to
put another page in its place (trap.c:93), which `dropped` records; when there is no page the tick panics on a null pointer, and so does a sigreturn()
without a handler. `OnlyAlarmsPanic` says that nothing else does.

## 11. Tty and Console

consoleread(), consolewrite(), the line editor consoleintr(), the UART's transmit buffer and
its interrupt. cons.lock is held from one byte to the next of a read and through the echo;
uartputc() and uartstart() are one step each under their lock. `Tty` is the promise: a line
can be edited until it is committed, what is committed is read in order. With one CPU a
kill() cannot come between a reader's check of killed and its sleep. A byte whose copyout()
fails is gone (`ReadFault`), and the three characters that rub one out stand as one.

Proved (`PartsProofs`, any readers and writers, any buffers whose sizes divide the range of the
indices, as 128 and 32 divide 2^32): the refinement `ConsoleIsTty`, and `NobodyStalls`. The invariant
`ConsoleInv` says that the line w..e lies behind the committed part r..w and both fit in the
ring (`RingInv`), that no newline and no ^D is in the line (`LineInv`), and what `NobodyStalls` says.
From the first follows that what is stored overwrites nothing, also when an index has wrapped
around; from the second that ^U takes the whole line, as the loop of the code stops at a newline
that is never there.

## 12. Fcfs: the clock and first come, first served

The FCFS build on its one CPU: scheduler() slot by slot with the clock striking in
between, clockintr() with update_time() and the wakeup of sleepers, sys_sleep(), fork(),
kill(), exit(), waitx(). Slot 0 is a program like `user/time.c`: it forks, kills and waits.
All times are unsigned and wrap around at WORD. `age`, `scan.first` and `slept`, the ticks since
sys_sleep() read the clock, are history for the properties. `TimesAgree` says that a sleep of a process that is
not killed never ends before its n ticks have passed (`NapEnds`, a property of the steps), that nobody sleeps on
after them, and that what waitx() reports adds up; "not before" holds whatever the clock does, "not
after" only for a process that gets the CPU within WORD ticks of its call: one that waits longer for the
CPU finds ticks - ticks0 small again (sysproc.c:59) and goes to sleep once more. Naps of 2
and WORD 3 show that. The times add up for a process younger than WORD. Assumed, and worth knowing: on two CPUs scheduler() would pick without p->lock and switch
without a second look (proc.c:517), and a tick counted between ticks++ and update_time()'s
visit could make rtime one more than the lifetime; a waitx() that fails leaves the two
times uninitialised (sysproc.c:132); sleep(-1) waits for 2^32 ticks; the order goes by ctime as a
number, also after it has wrapped around.

Proved (`PartsProofs`, any number of slots, any width of the times, any naps): `OldestFirst` and
`TimesAgree`. The invariant `FcfsInv` says that while scheduler() looks around nobody has the CPU
(`CurInv`), so that only the clock changes the table, and it makes processes runnable and never the
contrary; that scan.next was created no later than any slot behind scan.i that was runnable when the
scan began (`ScanInv`); that the parent alone forks and kills and that the child it has just
made is in nobody else's hands (`ForkInv`); that `slept` agrees with ticks - ticks0 up to the width
(`Rests`); and of every child that rtime is at most its age and the difference
of ticks and ctime is that age, as long as the age is below the width (`TimesInv`).

## 13. Shell, Umalloc, Rps

`Shell`: the parser of `user/sh.c` as it is written (recursive descent over tokens), the tree of processes that
runcmd() makes with their pipes, the two waits of a pipeline, and init, which reaps orphans and starts
the shell again. The built-in cd is done without a fork. A line is typed only when nothing else runs: a
background job of an earlier line and the wait for a later one do not meet. Programs are external and in the worst case read their input to its end.
`ParsesCommands` compares the parser with a definition of the commands that has no
grammar: `a & b` is refused, as in the code ("leftovers"). A pipeline whose second fork()
fails leaves its left half running and unwaited (`loose`).

`Umalloc`: malloc(), morecore() and free() of `user/umalloc.c`, memory counted in headers; other
users of sbrk() are not modelled. Sizes stay within the int that sbrk() takes.

`Rps`: server and clients of `networks/PartA/rpc` over streams without frames. Which choice wins is
left out; a choice stands for the game that it was made for. Assumed: an item (an int or a
character) does not arrive in pieces, and players type numbers when asked for one. A client goes on with every
answer but n or N (client.c:68), the server with y or Y only (server.c:135), so a client may be
waiting for a game that the server does not play. The server reads both answers into
one variable (server.c:132-133), so the second client decides alone. Nobody looks at what recv() returns: of a
client that has left, the server goes on to use the choice that it read last (server.c:106-107), and with a "y" of
the second client it judges a whole game in the name of a first who is gone. networks/README.md:37 asks that
"The next game starts only if both clients agree (handle this using the server)"; the server
does not do that. A client may take the server's play_again byte for its next result.
`GamesInStep` says what holds all the same: what the server reads as a choice or as an answer is one,
and the choices that it judges were made for this game, but for those of a player who has left.
`PartsProofs` proves it for any number of games: a client sends one numbered list of choices and
answers, the places of client and server say how much of it is sent and taken, and the stream is
what lies between (`InStep`); a stream in which something is missing is that of a client that is gone.

| Run | Instance | Shows |
|---|---|---|
| `parts` | two readers, a writer, input of 2, transmit buffer of 1, indices modulo 4; three slots, times modulo 3; lines of up to 5 tokens, 5 processes, up to 2 arguments; heap of 8 units; three games | the eight properties of these modules, and that none of them deadlocks |

The five have nothing in common. `Parts` declares the console, the FCFS build and the game server side by
side, for the proofs; `MCParts` adds the other two, whose recursive operators only TLC evaluates. It picks one in its initial state and leaves the others
as they are, so the run explores each completely. `VIEW Shape` leaves out
what is never looked at again (stale bytes of the ring, times of a zombie but their
difference, headers that are none); readers are symmetric: no property names one.
Bounds: the indices wrap around in a handful of steps, also between the two tests of a full
buffer; five tokens make every pair of constructs meet, with brackets, and a pipeline in a
list; three processes and a parent fill the slots so that a fork() fails in each place; eight
units hold three blocks, which meet every order of free().

## 14. Findings

The runs with `"expect": "violation"` show where the code departs from what its comments
say: `mlfq_timer`, `fs_iput_race`. `PROJECT.json` ("findings") quotes the lines. Other
disagreements that a run does not list are described in sections 3 (kill), 5 (kill on two
CPUs), 10 (alarms), 12 and 13.

## 15. What is not shown

Not modelled: boot, PLIC, trampoline and the assembly of the context switch (no states to
explore); printf and the string helpers (formatting); sys_pipe() and sys_fstat(); the nesting
of push_off()/pop_off(); the kernel's own page table; virtio's negotiation; the user programs that
only call the kernel and the tests; the UDP client and server (the client sends each piece once and
receives nothing, the server echoes: there is no acknowledgement or retransmission to check);
the greeting examples.

Liveness and the mutual fairness of the CPUs are checked on small instances only; so is
what the recursive operators compute (the parser, malloc(), the page tables).
So are `NoPanic` and `CrashConsistent` of the file system (section 9), the three properties of
`Memory`, whose operators on page tables are recursive, and what `MCParts` says of the shell and of
malloc(), for the same reason.
Refinements are proved for `Log`, `Bcache`, `Pipe`, `VirtioDisk` and `Console`.
Memory ordering is that of the locks: the driver's __sync_synchronize() is taken to do what
its comment says. The modules are checked each over the promise of the next one, not
composed in one state space.

What the sizes of the runs leave out: with two processes it is always the commit that wakes a sleeper of
begin_op(), never an end_op() that leaves other calls open (log.c:173), and no two processes sleep on
one buffer (sleeplock.c:37), so that a wakeup() that woke one sleeper only would not be noticed there; the
console has one writer; the pipe's only victim of kill() is a writer. The theorems on safety cover all numbers of processes; `SleeperWakes`, `BlockIsHad` and
`Returns` are liveness and are checked at these sizes only.
