-------------------------------- MODULE Proc --------------------------------
(***************************************************************************)
(* The process table of the kernel: process lifecycle (fork, exit, wait,   *)
(* kill), sleep/wakeup, and the per-CPU round-robin scheduler, on any      *)
(* number of CPUs.  Source: kernel/proc.c and the trap paths of            *)
(* kernel/trap.c that call it.                                             *)
(*                                                                         *)
(* A process is named by its slot in proc[].  A spinlock is owned by a     *)
(* CPU (spinlock.c: lk->cpu), so a p->lock acquired by a process survives  *)
(* the swtch() to the scheduler of the same CPU, which releases it.        *)
(*                                                                         *)
(* Granularity.  A stretch of code that only touches fields guarded by the *)
(* locks it holds is one action, enabled while the lock it takes is free.  *)
(* Where the code holds one lock while it takes another, or hands a lock   *)
(* to another thread by swtch(), the steps are separate actions and the    *)
(* holder is recorded.  The loops over proc[] that look for children skip  *)
(* the other slots: parent fields cannot change while wait_lock is held.   *)
(***************************************************************************)
EXTENDS Integers

CONSTANTS NPROC,     \* slots of the process table
          CPU,       \* the CPUs that run scheduler()
          NoCPU,     \* the holder of a free lock
          MaxPid,    \* bound: no fork is attempted once nextpid exceeds it
          KillPids   \* the pids that sys_kill is called with

ASSUME NPROCAssumption == NPROC \in Nat \ {0}
ASSUME NoCPUAssumption == NoCPU \notin CPU
ASSUME PidAssumption   == MaxPid \in Nat /\ KillPids \subseteq Nat

Slots    == 0 .. NPROC - 1
NoProc   == -1              \* a null struct proc pointer, or a null channel
initproc == 0               \* allocproc() gives userinit() the first slot

VARIABLES
  proc,       \* struct proc proc[NPROC]
  nextpid,    \* the next pid to hand out
  wait_lock,  \* the CPU that holds wait_lock
  cpu,        \* each CPU: c->proc, and scheduler()'s position and variable p
  thr         \* each process's kernel thread: position, loop index, argument
              \* (a pid for kill, the child for fork), and where to resume
              \* after a preemption

vars == <<proc, nextpid, wait_lock, cpu, thr>>

States == {"UNUSED", "USED", "SLEEPING", "RUNNABLE", "RUNNING", "ZOMBIE"}

\* Where a thread holds no lock and interrupts are on: the timer can preempt it.
Preemptible == {"user", "alloc", "fork_parent", "fork_runnable", "kill",
                "exit", "wait", "trap_return"}
\* Inside the critical section of wait_lock.
InWaitLock  == {"reparent", "reparent_wakeup", "wake_parent", "zombie",
                "scan", "sleep", "sleep_switch"}
\* Where swtch() left a thread, with p->lock held when it runs again.
Parked      == {"forkret", "yielded", "slept", "dead"}
Labels      == Preemptible \cup InWaitLock \cup Parked \cup {"unused", "panic"}

AtWith(l, a) == [pc |-> l, idx |-> 0, arg |-> a, saved |-> "user"]
At(l) == AtWith(l, 0)

\* A slot as procinit() or freeproc() leaves it, and the holder of its lock.
FreeSlot(holder) == [state |-> "UNUSED", lock |-> holder, pid |-> 0,
                     parent |-> NoProc, chan |-> NoProc, killed |-> FALSE]

\* freeproc() of slot q, whose lock ends up free.
freeproc(q) == [proc EXCEPT ![q] = FreeSlot(NoCPU)]

\* What allocproc() does to the slot it finds; p->killed stays as it is.
allocprocUnused(q) == [proc EXCEPT ![q].pid = nextpid]   \* mutant: state not set
allocproc(q) == [proc EXCEPT ![q].pid = nextpid, ![q].state = "USED"]

\* procinit() and userinit(): all is free but the runnable init process, pid 1.
Init ==
  /\ proc = [p \in Slots |->
               IF p = initproc
               THEN [FreeSlot(NoCPU) EXCEPT !.state = "RUNNABLE", !.pid = 1]
               ELSE FreeSlot(NoCPU)]
  /\ nextpid = 2
  /\ wait_lock = NoCPU
  /\ cpu = [c \in CPU |-> [proc |-> NoProc, pc |-> "scan", p |-> 0]]
  /\ thr = [p \in Slots |-> At(IF p = initproc THEN "forkret" ELSE "unused")]

-----------------------------------------------------------------------------
\* The process that CPU c executes, when it is at l.
Cur(c)   == cpu[c].proc
On(c, l) == cpu[c].pc = "run" /\ thr[Cur(c)].pc = l
Free(p)  == proc[p].lock = NoCPU

Children(p) == {q \in Slots : proc[q].parent = p}

Goto(p, l) == thr' = [thr EXCEPT ![p].pc = l]

\* sched(): the thread of p, which holds p->lock, is left at l, and its CPU
\* continues in scheduler().
Sched(c, p, l) == Goto(p, l) /\ cpu' = [cpu EXCEPT ![c].pc = "back"]

\* p's system call is over, and usertrap() goes on.
Return(p) == thr' = [thr EXCEPT ![p] = At("trap_return")]

-----------------------------------------------------------------------------
\* scheduler(), the RR build.  Its endless loop over proc[]:
NextSlotNotLast(p) == IF p + 2 >= NPROC THEN 0 ELSE p + 1  \* mutant: misses the last
NextSlot(p) == IF p = NPROC - 1 THEN 0 ELSE p + 1

\* The state is looked at under p->lock.
RunnableUnlocked(p) == proc[p].state = "RUNNABLE"   \* mutant: without the lock
Runnable(p) == Free(p) /\ proc[p].state = "RUNNABLE"

SchedSkip(c) ==
  LET p == cpu[c].p IN
  /\ cpu[c].pc = "scan"
  /\ Free(p)
  /\ proc[p].state # "RUNNABLE"
  /\ cpu' = [cpu EXCEPT ![c].p = NextSlot(p)]
  /\ UNCHANGED <<proc, nextpid, wait_lock, thr>>

\* Take the lock of a RUNNABLE process, mark it RUNNING, and swtch() to it.
SchedRun(c) ==
  LET p == cpu[c].p IN
  /\ cpu[c].pc = "scan"
  /\ Runnable(p)
  /\ proc' = [proc EXCEPT ![p].lock = c, ![p].state = "RUNNING"]
  /\ cpu'  = [cpu EXCEPT ![c].proc = p, ![c].pc = "run"]
  /\ UNCHANGED <<nextpid, wait_lock, thr>>

\* The process has switched back: forget it and release its lock.
SchedBack(c) ==
  /\ cpu[c].pc = "back"
  /\ proc' = [proc EXCEPT ![Cur(c)].lock = NoCPU]
  /\ cpu'  = [cpu EXCEPT ![c] = [proc |-> NoProc, pc |-> "scan", p |-> NextSlot(@.p)]]
  /\ UNCHANGED <<nextpid, wait_lock, thr>>

\* The process runs again, and first releases the lock the scheduler took.
\* forkret() goes to user space, yield() back to where the timer struck, and
\* sleep() clears p->chan and goes for wait_lock again.
Resume(c) ==
  LET p == Cur(c) IN
  /\ \/ On(c, "forkret") /\ Goto(p, "user")
     \/ On(c, "yielded") /\ thr' = [thr EXCEPT ![p].pc = thr[p].saved, ![p].saved = "user"]
     \/ On(c, "slept")   /\ Goto(p, "wait")
  /\ proc' = [proc EXCEPT ![p].lock = NoCPU,
                          ![p].chan = IF On(c, "slept") THEN NoProc ELSE @]
  /\ UNCHANGED <<nextpid, wait_lock, cpu>>

-----------------------------------------------------------------------------
\* usertrap() with a system call: a killed process exits instead of making it.
\* The init program only forks and waits (user/init.c), and does not fault.
Syscall(c) ==
  LET p == Cur(c) IN
  /\ On(c, "user")
  /\ Free(p)
  /\ IF proc[p].killed THEN Goto(p, "exit")
     ELSE \/ Goto(p, "wait")
          \/ nextpid <= MaxPid /\ Goto(p, "alloc")
          \/ p # initproc /\ Goto(p, "exit")
          \/ /\ p # initproc
             /\ \E k \in KillPids :
                  thr' = [thr EXCEPT ![p].pc = "kill", ![p].arg = k]
  /\ UNCHANGED <<proc, nextpid, wait_lock, cpu>>

\* usertrap() after the system call: a killed process exits, another returns
\* to user space.
TrapReturn(c) ==
  LET p == Cur(c) IN
  /\ On(c, "trap_return")
  /\ Free(p)
  /\ Goto(p, IF proc[p].killed THEN "exit" ELSE "user")
  /\ UNCHANGED <<proc, nextpid, wait_lock, cpu>>

\* usertrap() with an exception: setkilled(), and the process exits.
Fault(c) ==
  LET p == Cur(c) IN
  /\ On(c, "user")
  /\ p # initproc
  /\ Free(p)
  /\ proc' = [proc EXCEPT ![p].killed = TRUE]
  /\ Goto(p, "exit")
  /\ UNCHANGED <<nextpid, wait_lock, cpu>>

\* A timer interrupt in user mode finds the process killed ...
TimerKilled(c) ==
  LET p == Cur(c) IN
  /\ On(c, "user")
  /\ Free(p)
  /\ proc[p].killed
  /\ Goto(p, "exit")
  /\ UNCHANGED <<proc, nextpid, wait_lock, cpu>>

\* ... or makes it yield(), from usertrap() or, in the kernel, from kerneltrap().
TimerYield(c) ==
  LET p == Cur(c) IN
  /\ cpu[c].pc = "run"
  /\ thr[p].pc \in Preemptible
  /\ thr[p].pc = "user" => ~ proc[p].killed
  /\ Free(p)
  /\ proc' = [proc EXCEPT ![p].lock = c, ![p].state = "RUNNABLE"]
  /\ thr'  = [thr EXCEPT ![p].pc = "yielded", ![p].saved = thr[p].pc]
  /\ cpu'  = [cpu EXCEPT ![c].pc = "back"]
  /\ UNCHANGED <<nextpid, wait_lock>>

-----------------------------------------------------------------------------
\* fork(): allocproc() scans for an UNUSED slot; with none, fork() returns -1.
AllocSkip(c) ==
  LET p == Cur(c)  i == thr[p].idx IN
  /\ On(c, "alloc")
  /\ \/ /\ i < NPROC
        /\ Free(i)
        /\ proc[i].state # "UNUSED"
        /\ thr' = [thr EXCEPT ![p].idx = i + 1]
     \/ i = NPROC /\ Return(p)
  /\ UNCHANGED <<proc, nextpid, wait_lock, cpu>>

\* Found: the slot np is taken, with the next pid.  The parent's memory and
\* files are copied under the same lock.
Alloc(c) ==
  LET p == Cur(c)  np == thr[p].idx IN
  /\ On(c, "alloc")
  /\ np < NPROC
  /\ Free(np)
  /\ proc[np].state = "UNUSED"
  /\ nextpid' = nextpid + 1
  /\ proc' = allocproc(np)
  /\ thr'  = [thr EXCEPT ![p] = AtWith("fork_parent", np), ![np] = At("forkret")]
  /\ UNCHANGED <<wait_lock, cpu>>

\* Found, but memory runs out (trapframe, page table or uvmcopy): freeproc(),
\* and fork() returns -1.  The pid is spent.
AllocNoMemory(c) ==
  LET p == Cur(c)  np == thr[p].idx IN
  /\ On(c, "alloc")
  /\ np < NPROC
  /\ Free(np)
  /\ proc[np].state = "UNUSED"
  /\ nextpid' = nextpid + 1
  /\ proc' = freeproc(np)
  /\ Return(p)
  /\ UNCHANGED <<wait_lock, cpu>>

\* np->parent = p, under wait_lock.
ForkParent(c) ==
  LET p == Cur(c) IN
  /\ On(c, "fork_parent")
  /\ wait_lock = NoCPU
  /\ proc' = [proc EXCEPT ![thr[p].arg].parent = p]
  /\ Goto(p, "fork_runnable")
  /\ UNCHANGED <<nextpid, wait_lock, cpu>>

\* np->state = RUNNABLE, under np->lock.
ForkRunnable(c) ==
  LET p == Cur(c) IN
  /\ On(c, "fork_runnable")
  /\ Free(thr[p].arg)
  /\ proc' = [proc EXCEPT ![thr[p].arg].state = "RUNNABLE"]
  /\ Return(p)
  /\ UNCHANGED <<nextpid, wait_lock, cpu>>

-----------------------------------------------------------------------------
\* kill(): pass over the slots that do not hold the pid; past the last, -1.
KillSkip(c) ==
  LET p == Cur(c)  i == thr[p].idx IN
  /\ On(c, "kill")
  /\ \/ /\ i < NPROC
        /\ Free(i)
        /\ proc[i].pid # thr[p].arg
        /\ thr' = [thr EXCEPT ![p].idx = i + 1]
     \/ i = NPROC /\ Return(p)
  /\ UNCHANGED <<proc, nextpid, wait_lock, cpu>>

\* The victim is marked, and woken from sleep().
StaysAsleep(q) == proc[q].state   \* mutant: a sleeping victim is not woken
Awake(q) == IF proc[q].state = "SLEEPING" THEN "RUNNABLE" ELSE proc[q].state

KillHit(c) ==
  LET p == Cur(c)  i == thr[p].idx IN
  /\ On(c, "kill")
  /\ i < NPROC
  /\ Free(i)
  /\ proc[i].pid = thr[p].arg
  /\ proc' = [proc EXCEPT ![i].killed = TRUE, ![i].state = Awake(i)]
  /\ Return(p)
  /\ UNCHANGED <<nextpid, wait_lock, cpu>>

-----------------------------------------------------------------------------
\* wakeup(ch) called by p, one slot at a time: a process other than p that
\* sleeps on ch becomes RUNNABLE.  After the last slot p goes to l.
Wakeup(p, ch, l) ==
  LET w == thr[p].idx IN
  \/ /\ w < NPROC
     /\ w # p => Free(w)
     /\ proc' = [proc EXCEPT ![w].state =
                   IF w # p /\ @ = "SLEEPING" /\ proc[w].chan = ch
                   THEN "RUNNABLE" ELSE @]
     /\ thr' = [thr EXCEPT ![p].idx = w + 1]
  \/ w = NPROC /\ thr' = [thr EXCEPT ![p] = At(l)] /\ UNCHANGED proc

\* Mutant: the children are not handed to init.
ExitLockNoReparent(c) ==
  LET p == Cur(c) IN
  /\ On(c, "exit")
  /\ p # initproc /\ wait_lock = NoCPU /\ wait_lock' = c /\ Goto(p, "wake_parent")
  /\ UNCHANGED <<proc, nextpid, cpu>>

\* exit(): init panics; another process closes its files and takes wait_lock.
ExitLock(c) ==
  LET p == Cur(c) IN
  /\ On(c, "exit")
  /\ \/ p = initproc /\ Goto(p, "panic") /\ UNCHANGED wait_lock
     \/ p # initproc /\ wait_lock = NoCPU /\ wait_lock' = c /\ Goto(p, "reparent")
  /\ UNCHANGED <<proc, nextpid, cpu>>

\* reparent(): init adopts the next child, and is woken for each.
Reparent(c) ==
  LET p == Cur(c) IN
  /\ On(c, "reparent")
  /\ \/ \E i \in Children(p) :
          /\ \A j \in Children(p) : i <= j
          /\ proc' = [proc EXCEPT ![i].parent = initproc]
          /\ Goto(p, "reparent_wakeup")
     \/ Children(p) = {} /\ Goto(p, "wake_parent") /\ UNCHANGED proc
  /\ UNCHANGED <<nextpid, wait_lock, cpu>>

ReparentWakeup(c) ==
  /\ On(c, "reparent_wakeup")
  /\ Wakeup(Cur(c), initproc, "reparent")
  /\ UNCHANGED <<nextpid, wait_lock, cpu>>

\* Mutant: init is woken in place of the parent.
WakeInit(c) ==
  /\ On(c, "wake_parent")
  /\ Wakeup(Cur(c), initproc, "zombie")
  /\ UNCHANGED <<nextpid, wait_lock, cpu>>

\* The parent might be sleeping in wait().
WakeParent(c) ==
  /\ On(c, "wake_parent")
  /\ Wakeup(Cur(c), proc[Cur(c)].parent, "zombie")
  /\ UNCHANGED <<nextpid, wait_lock, cpu>>

\* Take p->lock, become a ZOMBIE, release wait_lock, never run again.
ExitZombie(c) ==
  LET p == Cur(c) IN
  /\ On(c, "zombie")
  /\ Free(p)
  /\ proc' = [proc EXCEPT ![p].lock = c, ![p].state = "ZOMBIE"]
  /\ wait_lock' = NoCPU
  /\ Sched(c, p, "dead")
  /\ UNCHANGED nextpid

-----------------------------------------------------------------------------
\* wait(): take wait_lock, at the start and after each sleep.
WaitLock(c) ==
  /\ On(c, "wait")
  /\ wait_lock = NoCPU
  /\ wait_lock' = c
  /\ Goto(Cur(c), "scan")
  /\ UNCHANGED <<proc, nextpid, cpu>>

\* i is the child that the scan of proc[] meets next.
IsNextChild(p, i) ==
  /\ i \in Children(p) /\ i >= thr[p].idx
  /\ \A j \in Children(p) : j >= thr[p].idx => i <= j

\* A child that is still alive.
ScanAlive(c) ==
  LET p == Cur(c) IN
  /\ On(c, "scan")
  /\ \E i \in Slots : /\ IsNextChild(p, i)
                      /\ Free(i)
                      /\ proc[i].state # "ZOMBIE"
                      /\ thr' = [thr EXCEPT ![p].idx = i + 1]
  /\ UNCHANGED <<proc, nextpid, wait_lock, cpu>>

\* A zombie child is only touched under its p->lock: its CPU may still be on its
\* kernel stack, in exit() or swtch().
ReapableUnlocked(i) == proc[i].state = "ZOMBIE"   \* mutant: without the lock
Reapable(i) == Free(i) /\ proc[i].state = "ZOMBIE"

\* A child that has exited: freeproc() it and return its pid; or, when the
\* status cannot be copied to the caller's address, leave it and return -1.
Reap(c) ==
  LET p == Cur(c) IN
  /\ On(c, "scan")
  /\ \E i \in Slots :
       /\ IsNextChild(p, i)
       /\ Reapable(i)
       /\ \/ /\ proc' = freeproc(i)
             /\ thr'  = [thr EXCEPT ![p] = At("trap_return"), ![i] = At("unused")]
          \/ UNCHANGED proc /\ Return(p)
  /\ wait_lock' = NoCPU
  /\ UNCHANGED <<nextpid, cpu>>

\* The scan is over without a zombie: give up if there is no child or p was
\* killed, else sleep.
GivesUp(p) == Children(p) = {} \/ proc[p].killed

WaitDecide(c) ==
  LET p == Cur(c) IN
  /\ On(c, "scan")
  /\ \A j \in Children(p) : j < thr[p].idx
  /\ Children(p) # {} => Free(p)
  /\ IF GivesUp(p)
     THEN wait_lock' = NoCPU /\ Return(p)
     ELSE UNCHANGED wait_lock /\ thr' = [thr EXCEPT ![p] = At("sleep")]
  /\ UNCHANGED <<proc, nextpid, cpu>>

\* Mutant: sleep() releases wait_lock before it takes p->lock.
SleepUnlockFirst(c) ==
  LET p == Cur(c) IN
  /\ On(c, "sleep")
  /\ wait_lock' = NoCPU
  /\ Goto(p, "sleep_switch")
  /\ UNCHANGED <<proc, nextpid, cpu>>

\* sleep(p, &wait_lock): first p->lock, so that no wakeup() is missed ...
SleepLock(c) ==
  LET p == Cur(c) IN
  /\ On(c, "sleep")
  /\ Free(p)
  /\ proc' = [proc EXCEPT ![p].lock = c]
  /\ Goto(p, "sleep_switch")
  /\ UNCHANGED <<nextpid, wait_lock, cpu>>

\* Mutant: wait_lock is not released.
SleepSwitchKeepsLock(c) ==
  LET p == Cur(c) IN
  /\ On(c, "sleep_switch")
  /\ proc' = [proc EXCEPT ![p].chan = p, ![p].state = "SLEEPING"]
  /\ Sched(c, p, "slept")
  /\ UNCHANGED <<nextpid, wait_lock>>

\* ... then release wait_lock, become SLEEPING and switch away.
SleepSwitch(c) ==
  LET p == Cur(c) IN
  /\ On(c, "sleep_switch")
  /\ wait_lock' = NoCPU
  /\ proc' = [proc EXCEPT ![p].chan = p, ![p].state = "SLEEPING"]
  /\ Sched(c, p, "slept")
  /\ UNCHANGED nextpid

-----------------------------------------------------------------------------
SchedStep(c) == SchedSkip(c) \/ SchedRun(c) \/ SchedBack(c)
TimerStep(c) == TimerKilled(c) \/ TimerYield(c)
ForkStep(c)  == AllocSkip(c) \/ Alloc(c) \/ AllocNoMemory(c)
                \/ ForkParent(c) \/ ForkRunnable(c)
KillStep(c)  == KillSkip(c) \/ KillHit(c)
ExitStep(c)  == ExitLock(c) \/ Reparent(c) \/ ReparentWakeup(c)
                \/ WakeParent(c) \/ ExitZombie(c)
WaitStep(c)  == WaitLock(c) \/ ScanAlive(c) \/ Reap(c) \/ WaitDecide(c)
                \/ SleepLock(c) \/ SleepSwitch(c)

\* What the kernel does of its own accord for the process on c.
KernelStep(c) == TrapReturn(c) \/ ForkStep(c) \/ KillStep(c) \/ ExitStep(c) \/ WaitStep(c)

\* What the threads on c do, whichever scheduler put them there.
ThreadStep(c) == Resume(c) \/ Syscall(c) \/ Fault(c) \/ TimerStep(c) \/ KernelStep(c)

Next == \E c \in CPU : SchedStep(c) \/ ThreadStep(c)

Spec == Init /\ [][Next]_vars

(***************************************************************************)
(* Fairness.  scheduler() never stops scanning.  A timer interrupt that    *)
(* arrives while interrupts are off stays pending (sip.SSIP), so a CPU     *)
(* whose thread is preemptible again and again is interrupted: SF.  A      *)
(* process that runs again and again makes progress in the kernel between  *)
(* two ticks: SF for each process.  What user code does is not fair.       *)
(***************************************************************************)
Fairness ==
  /\ \A c \in CPU : WF_vars(SchedStep(c) \/ Resume(c)) /\ SF_vars(TimerStep(c))
  /\ \A p \in Slots : SF_vars(\E c \in CPU : Cur(c) = p /\ KernelStep(c))

FairSpec == Spec /\ Fairness

-----------------------------------------------------------------------------
ProcType == [state : States, lock : CPU \cup {NoCPU}, pid : Nat,
             parent : Slots \cup {NoProc}, chan : Slots \cup {NoProc}, killed : BOOLEAN]
CPUType  == [proc : Slots \cup {NoProc}, pc : {"scan", "run", "back"}, p : Slots]
ThrType  == [pc : Labels, idx : 0 .. NPROC, arg : Nat, saved : Preemptible]

\* The type of the state.
TypeOK ==
  /\ proc \in [Slots -> ProcType]
  /\ nextpid \in Nat
  /\ wait_lock \in CPU \cup {NoCPU}
  /\ cpu \in [CPU -> CPUType]
  /\ thr \in [Slots -> ThrType]

\* The panics of sched(): whenever a process has switched to the scheduler, its
\* CPU holds p->lock and no other spinlock, and p is no longer RUNNING.
SchedAsserts ==
  \A c \in CPU : cpu[c].pc = "back" =>
    /\ proc[Cur(c)].lock = c
    /\ proc[Cur(c)].state # "RUNNING"
    /\ wait_lock # c
    /\ \A q \in Slots : proc[q].lock = c => q = Cur(c)

\* A process never runs on two CPUs, not even on one while another is still
\* saving its registers in swtch(); and it is RUNNING exactly while it executes.
RunsOnOneCPU ==
  /\ \A c, d \in CPU : Cur(c) = Cur(d) /\ Cur(c) # NoProc => c = d
  /\ \A p \in Slots : proc[p].state = "RUNNING"
                        <=> \E c \in CPU : cpu[c].pc = "run" /\ Cur(c) = p

\* A slot that allocproc() has handed out belongs to one fork() until that fork
\* makes it RUNNABLE, although its lock is free in between.
ForkOwnsSlot ==
  LET Forking(p, np) ==
        /\ {thr[p].pc, thr[p].saved} \cap {"fork_parent", "fork_runnable"} # {}
        /\ thr[p].arg = np
  IN  \A p \in Slots : \A np \in Slots :
        Forking(p, np) => /\ proc[np].state = "USED"
                          /\ \A q \in Slots : Forking(q, np) => q = p

\* Nobody loses its parent: a process that has started, or is a zombie, has a
\* parent that has not exited, which is init once its own parent is gone.
LiveParent ==
  \A q \in Slots \ {initproc} :
    proc[q].state \in {"SLEEPING", "RUNNABLE", "RUNNING", "ZOMBIE"} =>
      /\ proc[q].parent # NoProc
      /\ proc[proc[q].parent].state \notin {"UNUSED", "USED", "ZOMBIE"}

\* No lost wakeup: a parent does not sleep in wait() while it has a zombie
\* child, except init between the adoption of a zombie and its own wakeup.
NoLostWakeup ==
  \A q \in Slots :
    LET p == proc[q].parent IN
    proc[q].state = "ZOMBIE" /\ p # NoProc =>
      \/ ~ (proc[p].state = "SLEEPING" /\ proc[p].chan = p)
      \/ /\ p = initproc
         /\ \E c \in CPU : /\ On(c, "reparent_wakeup")
                           /\ thr[Cur(c)].idx <= p

\* wait() frees a child only when no CPU is still in its exit() or swtch(), that
\* is, still on its kernel stack.
ReapOffCPU ==
  [][\A q \in Slots : proc[q].state = "ZOMBIE" /\ proc'[q].state = "UNUSED"
                        => \A c \in CPU : Cur(c) # q]_vars

\* kill() "wakes process from sleep()": a killed process is not asleep in wait().  True of
\* one CPU only: on two, kill() can fall between wait()'s look at killed and its sleep().
KilledNotAsleep ==
  \A p \in Slots : ~ (proc[p].killed /\ proc[p].state = "SLEEPING")

\* kill() kills the process with the given pid: a new process is not born killed.  True
\* unless 0 is in KillPids: kill(0) finds a slot that is free.
BornUnkilled ==
  [][\A p \in Slots : proc[p].state = "UNUSED" /\ proc'[p].state = "USED"
                        => ~ proc'[p].killed]_vars

\* A killed process exits, wherever it was when kill() found it.
KilledExits ==
  \A p \in Slots : proc[p].killed ~> proc[p].state \in {"ZOMBIE", "UNUSED"}

\* A process in wait() that has a zombie child returns from wait().
WaitReturns ==
  LET Waiting(p) == {thr[p].pc, thr[p].saved}
                      \cap {"wait", "scan", "sleep", "sleep_switch", "slept"} # {}
  IN  \A p \in Slots :
        (Waiting(p) /\ \E q \in Children(p) : proc[q].state = "ZOMBIE") ~> ~ Waiting(p)

\* Round robin: every runnable process runs.
RunnableRuns ==
  \A p \in Slots : proc[p].state = "RUNNABLE" ~> proc[p].state = "RUNNING"
=============================================================================
