----------------------------- MODULE ProcProofs -----------------------------
(***************************************************************************)
(* Proofs about Proc for every number of slots, CPUs and pids.             *)
(*                                                                         *)
(* The argument, in three parts, each inductive on top of the one before.  *)
(* IInv: PlaceInv ties each process's state to where its thread stands: a  *)
(* process off its CPU is where swtch() left it.  LockInv says who holds   *)
(* each p->lock and wait_lock, and follows the lock through the switch to  *)
(* the scheduler and back.  With TypeOK they give the assertions of        *)
(* sched(), RunsOnOneCPU, ForkOwnsSlot and ReapOffCPU.                     *)
(* FamilyInv: who is whose parent, and how far exit() and wait() have      *)
(* come; it gives LiveParent and NoLostWakeup.                             *)
(* MarkInv: whom kill() has marked; it gives BornUnkilled as long as       *)
(* nobody calls kill(0), and KilledNotAsleep on one CPU.                   *)
(***************************************************************************)
EXTENDS Proc, TLAPS

\* Where a thread runs with its own p->lock held.
OwnLocked == Parked \cup {"sleep_switch"}

\* The state of a process and the position of its thread agree.
PlaceInv ==
  \A p \in Slots :
    /\ proc[p].state = "UNUSED"   => thr[p].pc = "unused"
    /\ proc[p].state = "USED"     => thr[p].pc = "forkret"
    /\ proc[p].state = "SLEEPING" => thr[p].pc = "slept"
    /\ proc[p].state = "RUNNABLE" => thr[p].pc \in {"forkret", "yielded", "slept"}
    /\ proc[p].state = "ZOMBIE"   => thr[p].pc = "dead"
    /\ proc[p].state = "RUNNING"  => thr[p].pc \notin {"unused", "dead"}
    /\ thr[p].pc # "yielded"      => thr[p].saved = "user"

\* A CPU and the process it runs.
CPUInv ==
  /\ \A c \in CPU : cpu[c].pc = "scan" <=> Cur(c) = NoProc
  /\ \A c, d \in CPU : Cur(c) = Cur(d) /\ Cur(c) # NoProc => c = d
  /\ \A c \in CPU : cpu[c].pc = "run"  => proc[Cur(c)].state = "RUNNING"
  /\ \A c \in CPU : cpu[c].pc = "back" => proc[Cur(c)].state # "RUNNING"
  /\ \A p \in Slots : proc[p].state = "RUNNING" =>
                        \E c \in CPU : cpu[c].pc = "run" /\ Cur(c) = p

\* Who holds which lock.
LockInv ==
  /\ \A p \in Slots : proc[p].lock # NoCPU =>
       /\ Cur(proc[p].lock) = p
       /\ cpu[proc[p].lock].pc = "run" => thr[p].pc \in OwnLocked
  /\ \A c \in CPU : cpu[c].pc = "back" => proc[Cur(c)].lock = c
  /\ \A c \in CPU : cpu[c].pc = "run" /\ thr[Cur(c)].pc \in OwnLocked
                      => proc[Cur(c)].lock = c
  /\ \A c \in CPU : wait_lock = c <=> cpu[c].pc = "run" /\ thr[Cur(c)].pc \in InWaitLock

\* A thread between allocproc() and the last step of fork(), perhaps preempted.
ForkLabels == {"fork_parent", "fork_runnable"}
InFork(p)  == thr[p].pc \in ForkLabels \/ thr[p].saved \in ForkLabels

\* A slot being forked is one fork()'s own.
ForkInv ==
  \A p \in Slots : InFork(p) =>
    /\ thr[p].arg \in Slots
    /\ proc[thr[p].arg].state = "USED"
    /\ \A q \in Slots : InFork(q) /\ thr[q].arg = thr[p].arg => q = p

IInv == TypeOK /\ PlaceInv /\ CPUInv /\ LockInv /\ ForkInv

\* A CPU that is not scanning runs a process of the table.
LEMMA CurIsSlot == 
  ASSUME TypeOK, CPUInv, NEW c \in CPU, cpu[c].pc # "scan"
  PROVE  Cur(c) \in Slots /\ Cur(c) # NoProc
  BY DEF TypeOK, CPUType, CPUInv, Cur

\* A step within one thread, which ends with the record r: the thread keeps its
\* CPU and its own p->lock free, wait_lock follows its position, and at most
\* sleeping processes become RUNNABLE.
LocalStep(c, r) ==
  /\ cpu[c].pc = "run"
  /\ thr[Cur(c)].pc \notin OwnLocked
  /\ r \in ThrType
  /\ r.pc \notin OwnLocked \cup {"unused"}
  /\ r.saved = "user"
  /\ r.pc \in ForkLabels => thr[Cur(c)].pc \in ForkLabels /\ r.arg = thr[Cur(c)].arg
  /\ IF r.pc \in InWaitLock THEN wait_lock \in {NoCPU, c} /\ wait_lock' = c
     ELSE wait_lock' = IF wait_lock = c THEN NoCPU ELSE wait_lock
  /\ thr' = [thr EXCEPT ![Cur(c)] = r]
  /\ cpu' = cpu
  /\ proc' \in [Slots -> ProcType]
  /\ \A q \in Slots :
       /\ proc'[q].lock = proc[q].lock
       /\ \/ proc'[q].state = proc[q].state
          \/ proc[q].state = "SLEEPING" /\ proc'[q].state = "RUNNABLE"
  /\ nextpid' \in Nat

\* A local step preserves the inductive invariant.
LEMMA LocalStepInv == 
  ASSUME IInv, NEW c \in CPU, NEW r, LocalStep(c, r)
  PROVE  IInv'
  <1> DEFINE p == Cur(c)
  <1>0. TypeOK /\ PlaceInv /\ CPUInv /\ LockInv /\ ForkInv
    BY DEF IInv
  <1>1. p \in Slots /\ cpu[c] \in CPUType /\ proc[p].state = "RUNNING"
    BY <1>0, CurIsSlot DEF LocalStep, TypeOK, CPUInv
  <1>2. TypeOK'
    BY <1>0, <1>1 DEF LocalStep, TypeOK
  <1>3. PlaceInv'
    BY <1>0, <1>1 DEF LocalStep, TypeOK, PlaceInv, OwnLocked, Parked
  <1>3a. \A d \in CPU : cpu[d].pc # "scan" => Cur(d) \in Slots
    BY <1>0, CurIsSlot
  <1>3b. \A q \in Slots : proc'[q].state = "RUNNING" <=> proc[q].state = "RUNNING"
    BY DEF LocalStep
  <1>3c. cpu' = cpu
    BY DEF LocalStep
  <1>4. CPUInv'
    BY <1>0, <1>3a, <1>3b, <1>3c DEF TypeOK, CPUType, CPUInv, Cur
  <1>5. \A d \in CPU : cpu[d].pc = "run" /\ d # c => thr'[Cur(d)] = thr[Cur(d)]
    BY <1>0, <1>1, CurIsSlot DEF LocalStep, TypeOK, CPUInv
  <1>6. LockInv'
    <2>1. \A q \in Slots : proc'[q].lock = proc[q].lock
      BY DEF LocalStep
    <2>2. thr' = [thr EXCEPT ![p] = r] /\ r.pc \notin OwnLocked /\ thr[p].pc \notin OwnLocked
      BY DEF LocalStep
    <2>2a. thr \in [Slots -> ThrType]
      BY <1>0 DEF TypeOK
    <2>3. \A q \in Slots : thr'[q].pc \in OwnLocked <=> thr[q].pc \in OwnLocked
      BY <2>2, <2>2a
    <2>4. \A q \in Slots : proc'[q].lock # NoCPU =>
             /\ cpu'[proc'[q].lock].proc = q
             /\ cpu'[proc'[q].lock].pc = "run" => thr'[q].pc \in OwnLocked
      BY <1>0, <1>3c, <2>1, <2>3 DEF LockInv, Cur
    <2>5. \A d \in CPU : cpu'[d].pc = "back" => proc'[cpu'[d].proc].lock = d
      BY <1>0, <1>3a, <1>3c, <2>1, <2>3 DEF LockInv, Cur, TypeOK, CPUType
    <2>6. \A d \in CPU : cpu'[d].pc = "run" /\ thr'[cpu'[d].proc].pc \in OwnLocked
                            => proc'[cpu'[d].proc].lock = d
      BY <1>0, <1>3a, <1>3c, <2>1, <2>3 DEF LockInv, Cur, TypeOK, CPUType
    <2>7. \A d \in CPU : wait_lock' = d <=> cpu'[d].pc = "run" /\ thr'[cpu'[d].proc].pc \in InWaitLock
      <3>1. thr'[p].pc = r.pc
        BY <1>1, <2>2, <2>2a
      <3>2. ASSUME NEW d \in CPU, d # c
            PROVE  wait_lock' = d <=> wait_lock = d
        BY <3>2, NoCPUAssumption DEF LocalStep
      <3>3. wait_lock' = c <=> r.pc \in InWaitLock
        BY <3>2, NoCPUAssumption DEF LocalStep
      <3>4. cpu[c].pc = "run"
        BY DEF LocalStep
      <3>5. QED
        BY <1>0, <1>3c, <1>5, <3>1, <3>2, <3>3, <3>4 DEF LockInv, Cur
    <2>8. QED
      BY <2>4, <2>5, <2>6, <2>7 DEF LockInv, Cur
  <1>7. ForkInv'
    <2>1. thr[p].saved = "user"
      BY <1>0, <1>1 DEF LocalStep, PlaceInv, OwnLocked, Parked
    <2>2. \A q \in Slots : InFork(q)' => InFork(q) /\ thr'[q].arg = thr[q].arg
      BY <1>0, <1>1, <2>1 DEF LocalStep, InFork, TypeOK, ForkLabels
    <2>3. QED
      BY <1>0, <2>2 DEF LocalStep, ForkInv
  <1>8. QED
    BY <1>2, <1>3, <1>4, <1>6, <1>7 DEF IInv

-----------------------------------------------------------------------------
\* What holds of a CPU c whose process is at l.
LEMMA CurOn ==
  ASSUME IInv, NEW c \in CPU, NEW l, On(c, l)
  PROVE  /\ Cur(c) \in Slots /\ thr[Cur(c)] \in ThrType /\ proc[Cur(c)] \in ProcType
         /\ thr \in [Slots -> ThrType] /\ proc \in [Slots -> ProcType] /\ nextpid \in Nat
         /\ cpu[c].pc = "run" /\ thr[Cur(c)].pc = l
         /\ wait_lock = c <=> l \in InWaitLock
         /\ l # "yielded" => thr[Cur(c)].saved = "user"
  BY CurIsSlot DEF IInv, On, TypeOK, PlaceInv, LockInv, Cur

\* A thread that starts at a label.
LEMMA AtType ==
  ASSUME NEW l \in Labels, NEW a \in Nat
  PROVE  At(l) \in ThrType /\ AtWith(l, a) \in ThrType
  BY NPROCAssumption DEF At, AtWith, ThrType, Preemptible

\* One step of wakeup(): at most one sleeping process becomes runnable.
LEMMA WakeupStep ==
  ASSUME NEW p \in Slots, NEW ch, NEW l \in Labels, Wakeup(p, ch, l),
         thr \in [Slots -> ThrType], proc \in [Slots -> ProcType],
         thr[p].saved = "user"
  PROVE  /\ thr' = [thr EXCEPT ![p] = thr'[p]]
         /\ thr'[p] \in ThrType /\ thr'[p].saved = "user"
         /\ thr'[p].pc \in {thr[p].pc, l}
         /\ proc' \in [Slots -> ProcType]
         /\ \A q \in Slots :
              /\ proc'[q].lock = proc[q].lock
              /\ \/ proc'[q].state = proc[q].state
                 \/ proc[q].state = "SLEEPING" /\ proc'[q].state = "RUNNABLE"
  <1> DEFINE w == thr[p].idx
  <1>0. w \in 0 .. NPROC /\ thr[p] \in ThrType
    BY DEF ThrType
  <1>1. CASE w = NPROC /\ thr' = [thr EXCEPT ![p] = At(l)] /\ UNCHANGED proc
    <2>1. thr'[p] = At(l)
      BY <1>1
    <2>2. QED
      BY <1>1, <2>1, AtType DEF At, AtWith
  <1>2. CASE w < NPROC /\ w \in Slots /\ thr' = [thr EXCEPT ![p].idx = w + 1]
             /\ proc' = [proc EXCEPT ![w].state =
                           IF w # p /\ @ = "SLEEPING" /\ proc[w].chan = ch
                           THEN "RUNNABLE" ELSE @]
    <2>1. w + 1 \in 0 .. NPROC
      BY <1>0, <1>2, NPROCAssumption
    <2>2. thr'[p] = [thr[p] EXCEPT !.idx = w + 1]
      BY <1>2
    <2>3. thr'[p] \in ThrType /\ thr'[p].saved = "user" /\ thr'[p].pc = thr[p].pc
      BY <1>0, <2>1, <2>2 DEF ThrType
    <2>4. thr' = [thr EXCEPT ![p] = thr'[p]]
      BY <1>2
    <2>5. proc' \in [Slots -> ProcType]
      BY <1>2 DEF ProcType, States
    <2>6. \A q \in Slots :
            /\ proc'[q].lock = proc[q].lock
            /\ \/ proc'[q].state = proc[q].state
               \/ proc[q].state = "SLEEPING" /\ proc'[q].state = "RUNNABLE"
      BY <1>2 DEF ProcType
    <2>7. QED
      BY <2>3, <2>4, <2>5, <2>6
  <1>3. QED
    BY <1>0, <1>1, <1>2, NPROCAssumption DEF Wakeup, Slots

\* Syscall() is a step within one thread.
LEMMA SyscallLocal ==
  ASSUME IInv, NEW c \in CPU, Syscall(c)
  PROVE  LocalStep(c, thr'[Cur(c)])
  <1> DEFINE p == Cur(c)
  <1>1. /\ p \in Slots /\ thr[p] \in ThrType /\ proc[p] \in ProcType
        /\ thr \in [Slots -> ThrType] /\ proc \in [Slots -> ProcType] /\ nextpid \in Nat
        /\ cpu[c].pc = "run" /\ thr[p].pc = "user" /\ thr[p].saved = "user"
        /\ wait_lock = c <=> thr[p].pc \in InWaitLock
    BY CurOn DEF Syscall
  <1>2. thr'[p].pc \in {"exit", "wait", "alloc", "kill"} /\ wait_lock' = wait_lock
    BY <1>1 DEF Syscall, Goto, At, AtWith, ThrType
  <1>3. thr' = [thr EXCEPT ![p] = thr'[p]] /\ cpu' = cpu /\ nextpid' \in Nat
    BY <1>1 DEF Syscall, Goto, At, AtWith
  <1>4. thr'[p] \in ThrType /\ thr'[p].saved = "user"
    BY <1>1, <1>2, NPROCAssumption, PidAssumption DEF Syscall, Goto, At, AtWith, ThrType, Labels, Preemptible, InWaitLock, Slots, initproc
  <1>5. proc' \in [Slots -> ProcType]
    BY <1>1, NPROCAssumption DEF Syscall, Goto, At, AtWith, ProcType, States, ThrType, Slots, initproc, NoProc
  <1>6. \A q \in Slots :
          /\ proc'[q].lock = proc[q].lock
          /\ \/ proc'[q].state = proc[q].state
             \/ proc[q].state = "SLEEPING" /\ proc'[q].state = "RUNNABLE"
    BY <1>1 DEF Syscall, Goto, At, AtWith, ProcType
  <1>7. QED
    BY <1>1, <1>2, <1>3, <1>4, <1>5, <1>6, NoCPUAssumption
    DEF LocalStep, OwnLocked, Parked, InWaitLock, ForkLabels

\* TrapReturn() is a step within one thread.
LEMMA TrapReturnLocal ==
  ASSUME IInv, NEW c \in CPU, TrapReturn(c)
  PROVE  LocalStep(c, thr'[Cur(c)])
  <1> DEFINE p == Cur(c)
  <1>1. /\ p \in Slots /\ thr[p] \in ThrType /\ proc[p] \in ProcType
        /\ thr \in [Slots -> ThrType] /\ proc \in [Slots -> ProcType] /\ nextpid \in Nat
        /\ cpu[c].pc = "run" /\ thr[p].pc = "trap_return" /\ thr[p].saved = "user"
        /\ wait_lock = c <=> thr[p].pc \in InWaitLock
    BY CurOn DEF TrapReturn
  <1>2. thr'[p].pc \in {"exit", "user"} /\ wait_lock' = wait_lock
    BY <1>1 DEF TrapReturn, Goto, At, AtWith, ThrType
  <1>3. thr' = [thr EXCEPT ![p] = thr'[p]] /\ cpu' = cpu /\ nextpid' \in Nat
    BY <1>1 DEF TrapReturn, Goto, At, AtWith
  <1>4. thr'[p] \in ThrType /\ thr'[p].saved = "user"
    BY <1>1, <1>2, NPROCAssumption, PidAssumption DEF TrapReturn, Goto, At, AtWith, ThrType, Labels, Preemptible, InWaitLock, Slots, initproc
  <1>5. proc' \in [Slots -> ProcType]
    BY <1>1, NPROCAssumption DEF TrapReturn, Goto, At, AtWith, ProcType, States, ThrType, Slots, initproc, NoProc
  <1>6. \A q \in Slots :
          /\ proc'[q].lock = proc[q].lock
          /\ \/ proc'[q].state = proc[q].state
             \/ proc[q].state = "SLEEPING" /\ proc'[q].state = "RUNNABLE"
    BY <1>1 DEF TrapReturn, Goto, At, AtWith, ProcType
  <1>7. QED
    BY <1>1, <1>2, <1>3, <1>4, <1>5, <1>6, NoCPUAssumption
    DEF LocalStep, OwnLocked, Parked, InWaitLock, ForkLabels

\* TimerKilled() is a step within one thread.
LEMMA TimerKilledLocal ==
  ASSUME IInv, NEW c \in CPU, TimerKilled(c)
  PROVE  LocalStep(c, thr'[Cur(c)])
  <1> DEFINE p == Cur(c)
  <1>1. /\ p \in Slots /\ thr[p] \in ThrType /\ proc[p] \in ProcType
        /\ thr \in [Slots -> ThrType] /\ proc \in [Slots -> ProcType] /\ nextpid \in Nat
        /\ cpu[c].pc = "run" /\ thr[p].pc = "user" /\ thr[p].saved = "user"
        /\ wait_lock = c <=> thr[p].pc \in InWaitLock
    BY CurOn DEF TimerKilled
  <1>2. thr'[p].pc = "exit" /\ wait_lock' = wait_lock
    BY <1>1 DEF TimerKilled, Goto, At, AtWith, ThrType
  <1>3. thr' = [thr EXCEPT ![p] = thr'[p]] /\ cpu' = cpu /\ nextpid' \in Nat
    BY <1>1 DEF TimerKilled, Goto, At, AtWith
  <1>4. thr'[p] \in ThrType /\ thr'[p].saved = "user"
    BY <1>1, <1>2, NPROCAssumption, PidAssumption DEF TimerKilled, Goto, At, AtWith, ThrType, Labels, Preemptible, InWaitLock, Slots, initproc
  <1>5. proc' \in [Slots -> ProcType]
    BY <1>1, NPROCAssumption DEF TimerKilled, Goto, At, AtWith, ProcType, States, ThrType, Slots, initproc, NoProc
  <1>6. \A q \in Slots :
          /\ proc'[q].lock = proc[q].lock
          /\ \/ proc'[q].state = proc[q].state
             \/ proc[q].state = "SLEEPING" /\ proc'[q].state = "RUNNABLE"
    BY <1>1 DEF TimerKilled, Goto, At, AtWith, ProcType
  <1>7. QED
    BY <1>1, <1>2, <1>3, <1>4, <1>5, <1>6, NoCPUAssumption
    DEF LocalStep, OwnLocked, Parked, InWaitLock, ForkLabels

\* Fault() is a step within one thread.
LEMMA FaultLocal ==
  ASSUME IInv, NEW c \in CPU, Fault(c)
  PROVE  LocalStep(c, thr'[Cur(c)])
  <1> DEFINE p == Cur(c)
  <1>1. /\ p \in Slots /\ thr[p] \in ThrType /\ proc[p] \in ProcType
        /\ thr \in [Slots -> ThrType] /\ proc \in [Slots -> ProcType] /\ nextpid \in Nat
        /\ cpu[c].pc = "run" /\ thr[p].pc = "user" /\ thr[p].saved = "user"
        /\ wait_lock = c <=> thr[p].pc \in InWaitLock
    BY CurOn DEF Fault
  <1>2. thr'[p].pc = "exit" /\ wait_lock' = wait_lock
    BY <1>1 DEF Fault, Goto, At, AtWith, ThrType
  <1>3. thr' = [thr EXCEPT ![p] = thr'[p]] /\ cpu' = cpu /\ nextpid' \in Nat
    BY <1>1 DEF Fault, Goto, At, AtWith
  <1>4. thr'[p] \in ThrType /\ thr'[p].saved = "user"
    BY <1>1, <1>2, NPROCAssumption, PidAssumption DEF Fault, Goto, At, AtWith, ThrType, Labels, Preemptible, InWaitLock, Slots, initproc
  <1>5. proc' \in [Slots -> ProcType]
    BY <1>1, NPROCAssumption DEF Fault, Goto, At, AtWith, ProcType, States, ThrType, Slots, initproc, NoProc
  <1>6. \A q \in Slots :
          /\ proc'[q].lock = proc[q].lock
          /\ \/ proc'[q].state = proc[q].state
             \/ proc[q].state = "SLEEPING" /\ proc'[q].state = "RUNNABLE"
    BY <1>1 DEF Fault, Goto, At, AtWith, ProcType
  <1>7. QED
    BY <1>1, <1>2, <1>3, <1>4, <1>5, <1>6, NoCPUAssumption
    DEF LocalStep, OwnLocked, Parked, InWaitLock, ForkLabels

\* AllocSkip() is a step within one thread.
LEMMA AllocSkipLocal ==
  ASSUME IInv, NEW c \in CPU, AllocSkip(c)
  PROVE  LocalStep(c, thr'[Cur(c)])
  <1> DEFINE p == Cur(c)
  <1>1. /\ p \in Slots /\ thr[p] \in ThrType /\ proc[p] \in ProcType
        /\ thr \in [Slots -> ThrType] /\ proc \in [Slots -> ProcType] /\ nextpid \in Nat
        /\ cpu[c].pc = "run" /\ thr[p].pc = "alloc" /\ thr[p].saved = "user"
        /\ wait_lock = c <=> thr[p].pc \in InWaitLock
    BY CurOn DEF AllocSkip
  <1>2. thr'[p].pc \in {"alloc", "trap_return"} /\ wait_lock' = wait_lock
    BY <1>1 DEF AllocSkip, Goto, At, AtWith, Return, ThrType
  <1>3. thr' = [thr EXCEPT ![p] = thr'[p]] /\ cpu' = cpu /\ nextpid' \in Nat
    BY <1>1 DEF AllocSkip, Goto, At, AtWith, Return
  <1>4. thr'[p] \in ThrType /\ thr'[p].saved = "user"
    BY <1>1, <1>2, NPROCAssumption, PidAssumption DEF AllocSkip, Goto, At, AtWith, Return, ThrType, Labels, Preemptible, InWaitLock, Slots, initproc
  <1>5. proc' \in [Slots -> ProcType]
    BY <1>1, NPROCAssumption DEF AllocSkip, Goto, At, AtWith, Return, ProcType, States, ThrType, Slots, initproc, NoProc
  <1>6. \A q \in Slots :
          /\ proc'[q].lock = proc[q].lock
          /\ \/ proc'[q].state = proc[q].state
             \/ proc[q].state = "SLEEPING" /\ proc'[q].state = "RUNNABLE"
    BY <1>1 DEF AllocSkip, Goto, At, AtWith, Return, ProcType
  <1>7. QED
    BY <1>1, <1>2, <1>3, <1>4, <1>5, <1>6, NoCPUAssumption
    DEF LocalStep, OwnLocked, Parked, InWaitLock, ForkLabels

\* AllocNoMemory() is a step within one thread.
LEMMA AllocNoMemoryLocal ==
  ASSUME IInv, NEW c \in CPU, AllocNoMemory(c)
  PROVE  LocalStep(c, thr'[Cur(c)])
  <1> DEFINE p == Cur(c)
  <1>1. /\ p \in Slots /\ thr[p] \in ThrType /\ proc[p] \in ProcType
        /\ thr \in [Slots -> ThrType] /\ proc \in [Slots -> ProcType] /\ nextpid \in Nat
        /\ cpu[c].pc = "run" /\ thr[p].pc = "alloc" /\ thr[p].saved = "user"
        /\ wait_lock = c <=> thr[p].pc \in InWaitLock
    BY CurOn DEF AllocNoMemory
  <1>2. thr'[p].pc = "trap_return" /\ wait_lock' = wait_lock
    BY <1>1 DEF AllocNoMemory, Goto, At, AtWith, freeproc, FreeSlot, Return, ThrType
  <1>3. thr' = [thr EXCEPT ![p] = thr'[p]] /\ cpu' = cpu /\ nextpid' \in Nat
    BY <1>1 DEF AllocNoMemory, Goto, At, AtWith, freeproc, FreeSlot, Return
  <1>4. thr'[p] \in ThrType /\ thr'[p].saved = "user"
    BY <1>1, <1>2, NPROCAssumption, PidAssumption DEF AllocNoMemory, Goto, At, AtWith, freeproc, FreeSlot, Return, ThrType, Labels, Preemptible, InWaitLock, Slots, initproc
  <1>5. proc' \in [Slots -> ProcType]
    BY <1>1, NPROCAssumption DEF AllocNoMemory, Goto, At, AtWith, freeproc, FreeSlot, Return, ProcType, States, ThrType, Slots, initproc, NoProc
  <1>6. \A q \in Slots :
          /\ proc'[q].lock = proc[q].lock
          /\ \/ proc'[q].state = proc[q].state
             \/ proc[q].state = "SLEEPING" /\ proc'[q].state = "RUNNABLE"
    BY <1>1 DEF AllocNoMemory, freeproc, FreeSlot, Free, ProcType
  <1>7. QED
    BY <1>1, <1>2, <1>3, <1>4, <1>5, <1>6, NoCPUAssumption
    DEF LocalStep, OwnLocked, Parked, InWaitLock, ForkLabels

\* ForkParent() is a step within one thread.
LEMMA ForkParentLocal ==
  ASSUME IInv, NEW c \in CPU, ForkParent(c)
  PROVE  LocalStep(c, thr'[Cur(c)])
  <1> DEFINE p == Cur(c)
  <1>1. /\ p \in Slots /\ thr[p] \in ThrType /\ proc[p] \in ProcType
        /\ thr \in [Slots -> ThrType] /\ proc \in [Slots -> ProcType] /\ nextpid \in Nat
        /\ cpu[c].pc = "run" /\ thr[p].pc = "fork_parent" /\ thr[p].saved = "user"
        /\ wait_lock = c <=> thr[p].pc \in InWaitLock
    BY CurOn DEF ForkParent
  <1>2. thr'[p].pc = "fork_runnable" /\ thr'[p].arg = thr[p].arg /\ wait_lock' = wait_lock
    BY <1>1 DEF ForkParent, Goto, At, AtWith, ThrType
  <1>3. thr' = [thr EXCEPT ![p] = thr'[p]] /\ cpu' = cpu /\ nextpid' \in Nat
    BY <1>1 DEF ForkParent, Goto, At, AtWith
  <1>4. thr'[p] \in ThrType /\ thr'[p].saved = "user"
    BY <1>1, <1>2, NPROCAssumption, PidAssumption DEF ForkParent, Goto, At, AtWith, ThrType, Labels, Preemptible, InWaitLock, Slots, initproc
  <1>5. proc' \in [Slots -> ProcType]
    <2>1. proc' = [proc EXCEPT ![thr[p].arg].parent = p]
      BY DEF ForkParent
    <2>2. QED
      BY <1>1, <2>1 DEF ProcType
  <1>6. \A q \in Slots :
          /\ proc'[q].lock = proc[q].lock
          /\ \/ proc'[q].state = proc[q].state
             \/ proc[q].state = "SLEEPING" /\ proc'[q].state = "RUNNABLE"
    BY <1>1 DEF ForkParent, Goto, At, AtWith, ProcType
  <1>7. QED
    BY <1>1, <1>2, <1>3, <1>4, <1>5, <1>6, NoCPUAssumption
    DEF LocalStep, OwnLocked, Parked, InWaitLock, ForkLabels

\* KillSkip() is a step within one thread.
LEMMA KillSkipLocal ==
  ASSUME IInv, NEW c \in CPU, KillSkip(c)
  PROVE  LocalStep(c, thr'[Cur(c)])
  <1> DEFINE p == Cur(c)
  <1>1. /\ p \in Slots /\ thr[p] \in ThrType /\ proc[p] \in ProcType
        /\ thr \in [Slots -> ThrType] /\ proc \in [Slots -> ProcType] /\ nextpid \in Nat
        /\ cpu[c].pc = "run" /\ thr[p].pc = "kill" /\ thr[p].saved = "user"
        /\ wait_lock = c <=> thr[p].pc \in InWaitLock
    BY CurOn DEF KillSkip
  <1>2. thr'[p].pc \in {"kill", "trap_return"} /\ wait_lock' = wait_lock
    BY <1>1 DEF KillSkip, Goto, At, AtWith, Return, ThrType
  <1>3. thr' = [thr EXCEPT ![p] = thr'[p]] /\ cpu' = cpu /\ nextpid' \in Nat
    BY <1>1 DEF KillSkip, Goto, At, AtWith, Return
  <1>4. thr'[p] \in ThrType /\ thr'[p].saved = "user"
    BY <1>1, <1>2, NPROCAssumption, PidAssumption DEF KillSkip, Goto, At, AtWith, Return, ThrType, Labels, Preemptible, InWaitLock, Slots, initproc
  <1>5. proc' \in [Slots -> ProcType]
    BY <1>1, NPROCAssumption DEF KillSkip, Goto, At, AtWith, Return, ProcType, States, ThrType, Slots, initproc, NoProc
  <1>6. \A q \in Slots :
          /\ proc'[q].lock = proc[q].lock
          /\ \/ proc'[q].state = proc[q].state
             \/ proc[q].state = "SLEEPING" /\ proc'[q].state = "RUNNABLE"
    BY <1>1 DEF KillSkip, Goto, At, AtWith, Return, ProcType
  <1>7. QED
    BY <1>1, <1>2, <1>3, <1>4, <1>5, <1>6, NoCPUAssumption
    DEF LocalStep, OwnLocked, Parked, InWaitLock, ForkLabels

\* KillHit() is a step within one thread.
LEMMA KillHitLocal ==
  ASSUME IInv, NEW c \in CPU, KillHit(c)
  PROVE  LocalStep(c, thr'[Cur(c)])
  <1> DEFINE p == Cur(c)
  <1>1. /\ p \in Slots /\ thr[p] \in ThrType /\ proc[p] \in ProcType
        /\ thr \in [Slots -> ThrType] /\ proc \in [Slots -> ProcType] /\ nextpid \in Nat
        /\ cpu[c].pc = "run" /\ thr[p].pc = "kill" /\ thr[p].saved = "user"
        /\ wait_lock = c <=> thr[p].pc \in InWaitLock
    BY CurOn DEF KillHit
  <1>2. thr'[p].pc = "trap_return" /\ wait_lock' = wait_lock
    BY <1>1 DEF KillHit, Goto, At, AtWith, Awake, Return, ThrType
  <1>3. thr' = [thr EXCEPT ![p] = thr'[p]] /\ cpu' = cpu /\ nextpid' \in Nat
    BY <1>1 DEF KillHit, Goto, At, AtWith, Awake, Return
  <1>4. thr'[p] \in ThrType /\ thr'[p].saved = "user"
    BY <1>1, <1>2, NPROCAssumption, PidAssumption DEF KillHit, Goto, At, AtWith, Awake, Return, ThrType, Labels, Preemptible, InWaitLock, Slots, initproc
  <1>5. proc' \in [Slots -> ProcType]
    <2>1. thr[p].idx \in Slots
      BY <1>1, NPROCAssumption DEF KillHit, ThrType, Slots
    <2>2. Awake(thr[p].idx) \in States
      BY <1>1, <2>1 DEF Awake, ProcType, States
    <2>3. [proc[thr[p].idx] EXCEPT !.killed = TRUE, !.state = Awake(thr[p].idx)] \in ProcType
      BY <1>1, <2>1, <2>2 DEF ProcType
    <2>4. proc' = [proc EXCEPT ![thr[p].idx] = [proc[thr[p].idx] EXCEPT !.killed = TRUE,
                                                               !.state = Awake(thr[p].idx)]]
      BY <1>1, <2>1 DEF KillHit
    <2>5. QED
      BY <1>1, <2>1, <2>3, <2>4
  <1>6. \A q \in Slots :
          /\ proc'[q].lock = proc[q].lock
          /\ \/ proc'[q].state = proc[q].state
             \/ proc[q].state = "SLEEPING" /\ proc'[q].state = "RUNNABLE"
    BY <1>1 DEF KillHit, Goto, At, AtWith, Awake, Return, ProcType
  <1>7. QED
    BY <1>1, <1>2, <1>3, <1>4, <1>5, <1>6, NoCPUAssumption
    DEF LocalStep, OwnLocked, Parked, InWaitLock, ForkLabels

\* ExitLock() is a step within one thread.
LEMMA ExitLockLocal ==
  ASSUME IInv, NEW c \in CPU, ExitLock(c)
  PROVE  LocalStep(c, thr'[Cur(c)])
  <1> DEFINE p == Cur(c)
  <1>1. /\ p \in Slots /\ thr[p] \in ThrType /\ proc[p] \in ProcType
        /\ thr \in [Slots -> ThrType] /\ proc \in [Slots -> ProcType] /\ nextpid \in Nat
        /\ cpu[c].pc = "run" /\ thr[p].pc = "exit" /\ thr[p].saved = "user"
        /\ wait_lock = c <=> thr[p].pc \in InWaitLock
    BY CurOn DEF ExitLock
  <1>2. \/ thr'[p].pc = "panic" /\ wait_lock' = wait_lock
        \/ thr'[p].pc = "reparent" /\ wait_lock = NoCPU /\ wait_lock' = c
    <2>1. CASE p = initproc
      BY <1>1, <2>1 DEF ExitLock, Goto, ThrType
    <2>2. CASE p # initproc
      BY <1>1, <2>2 DEF ExitLock, Goto, ThrType
    <2>3. QED
      BY <2>1, <2>2
  <1>3. thr' = [thr EXCEPT ![p] = thr'[p]] /\ cpu' = cpu /\ nextpid' \in Nat
    BY <1>1 DEF ExitLock, Goto, At, AtWith
  <1>4. thr'[p] \in ThrType /\ thr'[p].saved = "user"
    BY <1>1, <1>2, NPROCAssumption, PidAssumption DEF ExitLock, Goto, At, AtWith, ThrType, Labels, Preemptible, InWaitLock, Slots, initproc
  <1>5. proc' \in [Slots -> ProcType]
    BY <1>1, NPROCAssumption DEF ExitLock, Goto, At, AtWith, ProcType, States, ThrType, Slots, initproc, NoProc
  <1>6. \A q \in Slots :
          /\ proc'[q].lock = proc[q].lock
          /\ \/ proc'[q].state = proc[q].state
             \/ proc[q].state = "SLEEPING" /\ proc'[q].state = "RUNNABLE"
    BY <1>1 DEF ExitLock, Goto, At, AtWith, ProcType
  <1>7. QED
    BY <1>1, <1>2, <1>3, <1>4, <1>5, <1>6, NoCPUAssumption
    DEF LocalStep, OwnLocked, Parked, InWaitLock, ForkLabels

\* Reparent() is a step within one thread.
LEMMA ReparentLocal ==
  ASSUME IInv, NEW c \in CPU, Reparent(c)
  PROVE  LocalStep(c, thr'[Cur(c)])
  <1> DEFINE p == Cur(c)
  <1>1. /\ p \in Slots /\ thr[p] \in ThrType /\ proc[p] \in ProcType
        /\ thr \in [Slots -> ThrType] /\ proc \in [Slots -> ProcType] /\ nextpid \in Nat
        /\ cpu[c].pc = "run" /\ thr[p].pc = "reparent" /\ thr[p].saved = "user"
        /\ wait_lock = c <=> thr[p].pc \in InWaitLock
    BY CurOn DEF Reparent
  <1>2. thr'[p].pc \in {"reparent_wakeup", "wake_parent"} /\ wait_lock' = wait_lock
    BY <1>1 DEF Reparent, Goto, At, AtWith, Children, ThrType
  <1>3. thr' = [thr EXCEPT ![p] = thr'[p]] /\ cpu' = cpu /\ nextpid' \in Nat
    BY <1>1 DEF Reparent, Goto, At, AtWith, Children
  <1>4. thr'[p] \in ThrType /\ thr'[p].saved = "user"
    BY <1>1, <1>2, NPROCAssumption, PidAssumption DEF Reparent, Goto, At, AtWith, Children, ThrType, Labels, Preemptible, InWaitLock, Slots, initproc
  <1>5. proc' \in [Slots -> ProcType]
    <2>1. initproc \in Slots /\ Children(p) \subseteq Slots
      BY NPROCAssumption DEF initproc, Slots, Children
    <2>2. proc' = proc \/ \E i \in Slots : proc' = [proc EXCEPT ![i].parent = initproc]
      BY <2>1 DEF Reparent
    <2>3. QED
      BY <1>1, <2>1, <2>2 DEF ProcType
  <1>6. \A q \in Slots :
          /\ proc'[q].lock = proc[q].lock
          /\ \/ proc'[q].state = proc[q].state
             \/ proc[q].state = "SLEEPING" /\ proc'[q].state = "RUNNABLE"
    BY <1>1 DEF Reparent, Goto, At, AtWith, Children, ProcType
  <1>7. QED
    BY <1>1, <1>2, <1>3, <1>4, <1>5, <1>6, NoCPUAssumption
    DEF LocalStep, OwnLocked, Parked, InWaitLock, ForkLabels

\* ReparentWakeup() is a step within one thread.
LEMMA ReparentWakeupLocal ==
  ASSUME IInv, NEW c \in CPU, ReparentWakeup(c)
  PROVE  LocalStep(c, thr'[Cur(c)])
  <1> DEFINE p == Cur(c)
  <1>1. /\ p \in Slots /\ thr[p] \in ThrType /\ proc[p] \in ProcType
        /\ thr \in [Slots -> ThrType] /\ proc \in [Slots -> ProcType] /\ nextpid \in Nat
        /\ cpu[c].pc = "run" /\ thr[p].pc = "reparent_wakeup" /\ thr[p].saved = "user"
        /\ wait_lock = c <=> thr[p].pc \in InWaitLock
    BY CurOn DEF ReparentWakeup
  <1>w. /\ thr' = [thr EXCEPT ![p] = thr'[p]]
        /\ thr'[p] \in ThrType /\ thr'[p].saved = "user"
        /\ thr'[p].pc \in {thr[p].pc, "reparent"}
        /\ proc' \in [Slots -> ProcType]
        /\ \A q \in Slots :
             /\ proc'[q].lock = proc[q].lock
             /\ \/ proc'[q].state = proc[q].state
                \/ proc[q].state = "SLEEPING" /\ proc'[q].state = "RUNNABLE"
    <2>1. Wakeup(p, initproc, "reparent") /\ "reparent" \in Labels
      BY DEF ReparentWakeup, Labels, InWaitLock
    <2>2. QED
      BY <1>1, <2>1, WakeupStep
  <1>2. thr'[p].pc \in {"reparent_wakeup", "reparent"} /\ wait_lock' = wait_lock
    BY <1>1, <1>w DEF ReparentWakeup
  <1>3. thr' = [thr EXCEPT ![p] = thr'[p]] /\ cpu' = cpu /\ nextpid' \in Nat
    BY <1>1, <1>w DEF ReparentWakeup
  <1>4. thr'[p] \in ThrType /\ thr'[p].saved = "user"
    BY <1>w
  <1>5. proc' \in [Slots -> ProcType]
    BY <1>w
  <1>6. \A q \in Slots :
          /\ proc'[q].lock = proc[q].lock
          /\ \/ proc'[q].state = proc[q].state
             \/ proc[q].state = "SLEEPING" /\ proc'[q].state = "RUNNABLE"
    BY <1>w
  <1>7. QED
    BY <1>1, <1>2, <1>3, <1>4, <1>5, <1>6, NoCPUAssumption
    DEF LocalStep, OwnLocked, Parked, InWaitLock, ForkLabels

\* WakeParent() is a step within one thread.
LEMMA WakeParentLocal ==
  ASSUME IInv, NEW c \in CPU, WakeParent(c)
  PROVE  LocalStep(c, thr'[Cur(c)])
  <1> DEFINE p == Cur(c)
  <1>1. /\ p \in Slots /\ thr[p] \in ThrType /\ proc[p] \in ProcType
        /\ thr \in [Slots -> ThrType] /\ proc \in [Slots -> ProcType] /\ nextpid \in Nat
        /\ cpu[c].pc = "run" /\ thr[p].pc = "wake_parent" /\ thr[p].saved = "user"
        /\ wait_lock = c <=> thr[p].pc \in InWaitLock
    BY CurOn DEF WakeParent
  <1>w. /\ thr' = [thr EXCEPT ![p] = thr'[p]]
        /\ thr'[p] \in ThrType /\ thr'[p].saved = "user"
        /\ thr'[p].pc \in {thr[p].pc, "zombie"}
        /\ proc' \in [Slots -> ProcType]
        /\ \A q \in Slots :
             /\ proc'[q].lock = proc[q].lock
             /\ \/ proc'[q].state = proc[q].state
                \/ proc[q].state = "SLEEPING" /\ proc'[q].state = "RUNNABLE"
    <2>1. Wakeup(p, proc[p].parent, "zombie") /\ "zombie" \in Labels
      BY DEF WakeParent, Labels, InWaitLock
    <2>2. QED
      BY <1>1, <2>1, WakeupStep
  <1>2. thr'[p].pc \in {"wake_parent", "zombie"} /\ wait_lock' = wait_lock
    BY <1>1, <1>w DEF WakeParent
  <1>3. thr' = [thr EXCEPT ![p] = thr'[p]] /\ cpu' = cpu /\ nextpid' \in Nat
    BY <1>1, <1>w DEF WakeParent
  <1>4. thr'[p] \in ThrType /\ thr'[p].saved = "user"
    BY <1>w
  <1>5. proc' \in [Slots -> ProcType]
    BY <1>w
  <1>6. \A q \in Slots :
          /\ proc'[q].lock = proc[q].lock
          /\ \/ proc'[q].state = proc[q].state
             \/ proc[q].state = "SLEEPING" /\ proc'[q].state = "RUNNABLE"
    BY <1>w
  <1>7. QED
    BY <1>1, <1>2, <1>3, <1>4, <1>5, <1>6, NoCPUAssumption
    DEF LocalStep, OwnLocked, Parked, InWaitLock, ForkLabels

\* WaitLock() is a step within one thread.
LEMMA WaitLockLocal ==
  ASSUME IInv, NEW c \in CPU, WaitLock(c)
  PROVE  LocalStep(c, thr'[Cur(c)])
  <1> DEFINE p == Cur(c)
  <1>1. /\ p \in Slots /\ thr[p] \in ThrType /\ proc[p] \in ProcType
        /\ thr \in [Slots -> ThrType] /\ proc \in [Slots -> ProcType] /\ nextpid \in Nat
        /\ cpu[c].pc = "run" /\ thr[p].pc = "wait" /\ thr[p].saved = "user"
        /\ wait_lock = c <=> thr[p].pc \in InWaitLock
    BY CurOn DEF WaitLock
  <1>2. thr'[p].pc = "scan" /\ wait_lock = NoCPU /\ wait_lock' = c
    BY <1>1 DEF WaitLock, Goto, At, AtWith, ThrType
  <1>3. thr' = [thr EXCEPT ![p] = thr'[p]] /\ cpu' = cpu /\ nextpid' \in Nat
    BY <1>1 DEF WaitLock, Goto, At, AtWith
  <1>4. thr'[p] \in ThrType /\ thr'[p].saved = "user"
    BY <1>1, <1>2, NPROCAssumption, PidAssumption DEF WaitLock, Goto, At, AtWith, ThrType, Labels, Preemptible, InWaitLock, Slots, initproc
  <1>5. proc' \in [Slots -> ProcType]
    BY <1>1, NPROCAssumption DEF WaitLock, Goto, At, AtWith, ProcType, States, ThrType, Slots, initproc, NoProc
  <1>6. \A q \in Slots :
          /\ proc'[q].lock = proc[q].lock
          /\ \/ proc'[q].state = proc[q].state
             \/ proc[q].state = "SLEEPING" /\ proc'[q].state = "RUNNABLE"
    BY <1>1 DEF WaitLock, Goto, At, AtWith, ProcType
  <1>7. QED
    BY <1>1, <1>2, <1>3, <1>4, <1>5, <1>6, NoCPUAssumption
    DEF LocalStep, OwnLocked, Parked, InWaitLock, ForkLabels

\* ScanAlive() is a step within one thread.
LEMMA ScanAliveLocal ==
  ASSUME IInv, NEW c \in CPU, ScanAlive(c)
  PROVE  LocalStep(c, thr'[Cur(c)])
  <1> DEFINE p == Cur(c)
  <1>1. /\ p \in Slots /\ thr[p] \in ThrType /\ proc[p] \in ProcType
        /\ thr \in [Slots -> ThrType] /\ proc \in [Slots -> ProcType] /\ nextpid \in Nat
        /\ cpu[c].pc = "run" /\ thr[p].pc = "scan" /\ thr[p].saved = "user"
        /\ wait_lock = c <=> thr[p].pc \in InWaitLock
    BY CurOn DEF ScanAlive
  <1>2. thr'[p].pc = "scan" /\ wait_lock' = wait_lock
    BY <1>1 DEF ScanAlive, Goto, At, AtWith, IsNextChild, Children, ThrType
  <1>3. thr' = [thr EXCEPT ![p] = thr'[p]] /\ cpu' = cpu /\ nextpid' \in Nat
    BY <1>1 DEF ScanAlive, Goto, At, AtWith, IsNextChild, Children
  <1>4. thr'[p] \in ThrType /\ thr'[p].saved = "user"
    <2>1. PICK i \in Slots : thr' = [thr EXCEPT ![p].idx = i + 1]
      BY DEF ScanAlive
    <2>2. i + 1 \in 0 .. NPROC
      BY NPROCAssumption DEF Slots
    <2>3. QED
      BY <1>1, <2>1, <2>2 DEF ThrType
  <1>5. proc' \in [Slots -> ProcType]
    BY <1>1, NPROCAssumption DEF ScanAlive, Goto, At, AtWith, IsNextChild, Children, ProcType, States, ThrType, Slots, initproc, NoProc
  <1>6. \A q \in Slots :
          /\ proc'[q].lock = proc[q].lock
          /\ \/ proc'[q].state = proc[q].state
             \/ proc[q].state = "SLEEPING" /\ proc'[q].state = "RUNNABLE"
    BY <1>1 DEF ScanAlive, Goto, At, AtWith, IsNextChild, Children, ProcType
  <1>7. QED
    BY <1>1, <1>2, <1>3, <1>4, <1>5, <1>6, NoCPUAssumption
    DEF LocalStep, OwnLocked, Parked, InWaitLock, ForkLabels

\* WaitDecide() is a step within one thread.
LEMMA WaitDecideLocal ==
  ASSUME IInv, NEW c \in CPU, WaitDecide(c)
  PROVE  LocalStep(c, thr'[Cur(c)])
  <1> DEFINE p == Cur(c)
  <1>1. /\ p \in Slots /\ thr[p] \in ThrType /\ proc[p] \in ProcType
        /\ thr \in [Slots -> ThrType] /\ proc \in [Slots -> ProcType] /\ nextpid \in Nat
        /\ cpu[c].pc = "run" /\ thr[p].pc = "scan" /\ thr[p].saved = "user"
        /\ wait_lock = c <=> thr[p].pc \in InWaitLock
    BY CurOn DEF WaitDecide
  <1>2. \/ thr'[p].pc = "trap_return" /\ wait_lock' = NoCPU
        \/ thr'[p].pc = "sleep" /\ wait_lock' = wait_lock
    <2>1. CASE GivesUp(p)
      BY <1>1, <2>1 DEF WaitDecide, Return, At, AtWith
    <2>2. CASE ~ GivesUp(p)
      BY <1>1, <2>2 DEF WaitDecide, At, AtWith
    <2>3. QED
      BY <2>1, <2>2
  <1>3. thr' = [thr EXCEPT ![p] = thr'[p]] /\ cpu' = cpu /\ nextpid' \in Nat
    BY <1>1 DEF WaitDecide, Goto, At, AtWith, Return
  <1>4. thr'[p] \in ThrType /\ thr'[p].saved = "user"
    <2>1. CASE GivesUp(p)
      BY <1>1, <2>1, AtType DEF WaitDecide, Return, Labels, Preemptible, At, AtWith
    <2>2. CASE ~ GivesUp(p)
      BY <1>1, <2>2, AtType DEF WaitDecide, Labels, InWaitLock, At, AtWith
    <2>3. QED
      BY <2>1, <2>2
  <1>5. proc' \in [Slots -> ProcType]
    BY <1>1, NPROCAssumption DEF WaitDecide, Goto, At, AtWith, Return, ProcType, States, ThrType, Slots, initproc, NoProc
  <1>6. \A q \in Slots :
          /\ proc'[q].lock = proc[q].lock
          /\ \/ proc'[q].state = proc[q].state
             \/ proc[q].state = "SLEEPING" /\ proc'[q].state = "RUNNABLE"
    BY <1>1 DEF WaitDecide, Goto, At, AtWith, Return, ProcType
  <1>7. QED
    BY <1>1, <1>2, <1>3, <1>4, <1>5, <1>6, NoCPUAssumption
    DEF LocalStep, OwnLocked, Parked, InWaitLock, ForkLabels

-----------------------------------------------------------------------------
\* The scheduler passes over a process that is not RUNNABLE.
LEMMA SchedSkipInv ==
  ASSUME IInv, NEW c \in CPU, SchedSkip(c)
  PROVE  IInv'
  <1>0. TypeOK /\ PlaceInv /\ CPUInv /\ LockInv /\ ForkInv
    BY DEF IInv
  <1>1. cpu[c] \in CPUType /\ cpu[c].p \in Slots
    BY <1>0 DEF TypeOK, CPUType
  <1>2. NextSlot(cpu[c].p) \in Slots
    BY <1>1, NPROCAssumption DEF NextSlot, Slots
  <1>3. cpu' = [cpu EXCEPT ![c].p = NextSlot(cpu[c].p)] /\ UNCHANGED <<proc, nextpid, wait_lock, thr>>
    BY DEF SchedSkip
  <1>4. TypeOK'
    BY <1>0, <1>1, <1>2, <1>3 DEF TypeOK, CPUType
  <1>5. \A d \in CPU : cpu'[d].pc = cpu[d].pc /\ cpu'[d].proc = cpu[d].proc
    BY <1>0, <1>3 DEF TypeOK, CPUType
  <1>6. PlaceInv' /\ ForkInv'
    BY <1>0, <1>3 DEF PlaceInv, ForkInv, InFork
  <1>7. CPUInv'
    BY <1>0, <1>3, <1>5 DEF CPUInv, Cur
  <1>8. LockInv'
    BY <1>0, <1>3, <1>5 DEF LockInv, Cur, TypeOK, ProcType
  <1>9. QED
    BY <1>4, <1>6, <1>7, <1>8 DEF IInv

\* The scheduler takes p->lock, marks p RUNNING and switches to it: the lock
\* passes to the thread.
LEMMA SchedRunInv ==
  ASSUME IInv, NEW c \in CPU, SchedRun(c)
  PROVE  IInv'
  <1> DEFINE p == cpu[c].p
  <1>0. TypeOK /\ PlaceInv /\ CPUInv /\ LockInv /\ ForkInv
    BY DEF IInv
  <1>1. p \in Slots /\ p # NoProc /\ thr[p].pc \in {"forkret", "yielded", "slept"}
    BY <1>0, NPROCAssumption
    DEF TypeOK, CPUType, PlaceInv, SchedRun, Runnable, Slots, NoProc
  <1>2. TypeOK'
    <2>0. /\ proc \in [Slots -> ProcType]
          /\ proc' = [proc EXCEPT ![p].lock = c, ![p].state = "RUNNING"]
      BY <1>0 DEF SchedRun, TypeOK
    <2>1. [proc[p] EXCEPT !.lock = c, !.state = "RUNNING"] \in ProcType
      <3>1. proc[p] \in ProcType
        BY <1>1, <2>0
      <3> HIDE DEF p
      <3>2. QED
        BY <3>1 DEF ProcType, States
    <2>2. proc' = [proc EXCEPT ![p] = [proc[p] EXCEPT !.lock = c, !.state = "RUNNING"]]
      BY <1>1, <2>0
    <2>3. proc' \in [Slots -> ProcType]
      BY <1>1, <2>0, <2>1, <2>2
    <2>4. cpu' \in [CPU -> CPUType]
      BY <1>0, <1>1 DEF SchedRun, TypeOK, CPUType
    <2>5. QED
      BY <1>0, <2>3, <2>4 DEF SchedRun, TypeOK
  <1>3. PlaceInv'
    <2>1. /\ proc'[p].state = "RUNNING" /\ thr' = thr
          /\ \A q \in Slots \ {p} : proc'[q] = proc[q]
      BY <1>0, <1>1 DEF SchedRun, TypeOK, ProcType
    <2>2. QED
      BY <1>0, <1>1, <2>1 DEF PlaceInv
  <1>4. CPUInv'
    <2>1. /\ cpu[c].pc = "scan" /\ proc[p].state = "RUNNABLE"
          /\ proc'[p].state = "RUNNING" /\ cpu'[c].proc = p /\ cpu'[c].pc = "run"
          /\ \A q \in Slots \ {p} : proc'[q] = proc[q]
          /\ \A d \in CPU \ {c} : cpu'[d] = cpu[d]
      BY <1>0, <1>1 DEF SchedRun, Runnable, TypeOK, ProcType, CPUType
    <2>2. \A d \in CPU \ {c} : Cur(d)' = Cur(d)
      BY <2>1 DEF Cur
    <2>3. Cur(c)' = p
      BY <2>1 DEF Cur
    <2>4. \A d \in CPU \ {c} : cpu[d].pc = "run" => Cur(d) # p
      BY <1>0, <2>1 DEF CPUInv
    <2>5. \A d \in CPU : cpu[d].pc # "scan" => Cur(d) \in Slots
      BY <1>0, CurIsSlot
    <2>6. \A d \in CPU \ {c} : cpu[d].pc = "back" => Cur(d) # p
      BY <1>0, <2>1, NoCPUAssumption DEF CPUInv, LockInv, SchedRun, Runnable, Free
    <2> HIDE DEF p
    <2>7. \A d \in CPU \ {c} : cpu[d].pc \in {"scan", "run", "back"}
      BY <1>0 DEF TypeOK, CPUType
    <2>8. \A q \in Slots : proc'[q].state = "RUNNING" =>
             \E d \in CPU : cpu'[d].pc = "run" /\ Cur(d)' = q
      <3>1. ASSUME NEW q \in Slots \ {p}, proc[q].state = "RUNNING"
            PROVE  \E d \in CPU : cpu'[d].pc = "run" /\ Cur(d)' = q
        <4>1. PICK d \in CPU : cpu[d].pc = "run" /\ Cur(d) = q
          BY <1>0, <3>1 DEF CPUInv
        <4>2. d # c
          BY <2>1, <4>1
        <4>3. QED
          BY <2>1, <2>2, <4>1, <4>2
      <3>2. QED
        BY <2>1, <2>3, <3>1
    <2>9. QED
      BY <1>0, <1>1, <2>1, <2>2, <2>3, <2>4, <2>5, <2>6, <2>7, <2>8 DEF CPUInv
  <1>5. LockInv'
    <2>1. /\ proc' = [proc EXCEPT ![p].lock = c, ![p].state = "RUNNING"]
          /\ cpu'  = [cpu EXCEPT ![c].proc = p, ![c].pc = "run"]
          /\ UNCHANGED <<wait_lock, thr>>
          /\ cpu[c].pc = "scan" /\ proc[p].lock = NoCPU
      BY DEF SchedRun, Runnable, Free
    <2>1a. cpu[c].pc = "scan" /\ thr' = thr /\ wait_lock' = wait_lock
      BY DEF SchedRun
    <2>2. \A d \in CPU \ {c} : cpu[d].pc # "scan" => Cur(d) # p
      BY <1>0, <1>4, <2>1 DEF CPUInv, Cur, TypeOK, CPUType
    <2>3. \A d \in CPU \ {c} : cpu'[d] = cpu[d]
      BY <1>0, <2>1 DEF TypeOK
    <2>4. cpu'[c].proc = p /\ cpu'[c].pc = "run"
      BY <1>0, <2>1 DEF TypeOK, CPUType
    <2>5. /\ proc'[p].lock = c
          /\ \A q \in Slots \ {p} : proc'[q].lock = proc[q].lock
      BY <1>0, <1>1, <2>1 DEF TypeOK, ProcType
    <2>6. thr[p].pc \in OwnLocked /\ thr[p].pc \notin InWaitLock
      BY <1>1 DEF OwnLocked, Parked, InWaitLock
    <2>7. \A d \in CPU : cpu[d].pc # "scan" => Cur(d) \in Slots
      BY <1>0, CurIsSlot
    <2>8. \A q \in Slots : proc'[q].lock # NoCPU =>
            /\ cpu'[proc'[q].lock].proc = q
            /\ cpu'[proc'[q].lock].pc = "run" => thr'[q].pc \in OwnLocked
      <3>1. ASSUME NEW q \in Slots \ {p}, proc[q].lock # NoCPU
            PROVE  proc[q].lock \in CPU \ {c}
        BY <1>0, <3>1, <2>1 DEF LockInv, CPUInv, Cur, TypeOK, ProcType, Slots, NoProc
      <3>2. QED
        BY <1>0, <2>1a, <2>3, <2>4, <2>5, <2>6, <3>1 DEF LockInv, Cur
    <2>9. \A d \in CPU : cpu'[d].pc = "back" => proc'[cpu'[d].proc].lock = d
      BY <1>0, <2>1a, <2>2, <2>3, <2>4, <2>5, <2>7 DEF LockInv, Cur
    <2>10. \A d \in CPU : cpu'[d].pc = "run" /\ thr'[cpu'[d].proc].pc \in OwnLocked
                            => proc'[cpu'[d].proc].lock = d
      BY <1>0, <2>1a, <2>2, <2>3, <2>4, <2>5, <2>7 DEF LockInv, Cur
    <2>11. \A d \in CPU : wait_lock' = d <=>
                            cpu'[d].pc = "run" /\ thr'[cpu'[d].proc].pc \in InWaitLock
      BY <1>0, <2>1a, <2>3, <2>4, <2>6 DEF LockInv, Cur
    <2>12. QED
      BY <2>8, <2>9, <2>10, <2>11 DEF LockInv, Cur
  <1>6. ForkInv'
    BY <1>0, <1>1 DEF SchedRun, Runnable, TypeOK, ProcType, ForkInv, InFork
  <1>7. QED
    BY <1>2, <1>3, <1>4, <1>5, <1>6 DEF IInv

\* The scheduler releases the lock of the process that switched back.
LEMMA SchedBackInv ==
  ASSUME IInv, NEW c \in CPU, SchedBack(c)
  PROVE  IInv'
  <1> DEFINE p == Cur(c)
  <1>0. TypeOK /\ PlaceInv /\ CPUInv /\ LockInv /\ ForkInv
    BY DEF IInv
  <1>1. p \in Slots /\ p # NoProc /\ cpu[c].p \in Slots /\ proc[p].lock = c
    BY <1>0, CurIsSlot DEF TypeOK, CPUType, LockInv, SchedBack
  <1>2. NextSlot(cpu[c].p) \in Slots
    BY <1>1, NPROCAssumption DEF NextSlot, Slots
  <1>3. /\ proc' = [proc EXCEPT ![p].lock = NoCPU]
        /\ cpu'  = [cpu EXCEPT ![c] = [proc |-> NoProc, pc |-> "scan", p |-> NextSlot(cpu[c].p)]]
        /\ UNCHANGED <<nextpid, wait_lock, thr>>
    BY DEF SchedBack
  <1>4. TypeOK'
    BY <1>0, <1>1, <1>2, <1>3 DEF TypeOK, CPUType, ProcType
  <1>5. PlaceInv' /\ ForkInv'
    BY <1>0, <1>1, <1>3 DEF TypeOK, ProcType, PlaceInv, ForkInv, InFork
  <1>6. CPUInv'
    BY <1>0, <1>1, <1>3 DEF SchedBack, TypeOK, ProcType, CPUType, CPUInv, Cur
  <1>7. LockInv'
    BY <1>0, <1>1, <1>3, NoCPUAssumption
    DEF SchedBack, TypeOK, ProcType, CPUType, CPUInv, LockInv, Cur
  <1>8. QED
    BY <1>4, <1>5, <1>6, <1>7 DEF IInv

\* The three ways to resume have this in common: p->lock is released and the
\* thread goes to a label l where it holds no lock.
LEMMA ResumeInv ==
  ASSUME IInv, NEW c \in CPU, Resume(c)
  PROVE  IInv'
  <1> DEFINE p == Cur(c)
             r == thr'[p]
  <1>0. TypeOK /\ PlaceInv /\ CPUInv /\ LockInv /\ ForkInv
    BY DEF IInv
  <1>1. /\ p \in Slots /\ cpu[c].pc = "run" /\ thr[p].pc \in {"forkret", "yielded", "slept"}
        /\ thr[p] \in ThrType
    BY <1>0, CurIsSlot DEF Resume, On, TypeOK
  <1>2. /\ thr' = [thr EXCEPT ![p] = r] /\ r \in ThrType
        /\ r.pc \in Preemptible /\ r.saved = "user"
        /\ r.arg = thr[p].arg
        /\ r.pc \in ForkLabels => thr[p].saved \in ForkLabels
    <2>1. CASE On(c, "forkret")
      BY <1>0, <1>1, <2>1
      DEF Resume, On, Goto, TypeOK, ThrType, PlaceInv, Preemptible, Labels, ForkLabels
    <2>2. CASE On(c, "yielded")
      BY <1>0, <1>1, <2>2 DEF Resume, On, TypeOK, ThrType, Preemptible, Labels
    <2>3. CASE On(c, "slept")
      BY <1>0, <1>1, <2>3
      DEF Resume, On, Goto, TypeOK, ThrType, PlaceInv, Preemptible, Labels, ForkLabels
    <2>4. QED
      BY <2>1, <2>2, <2>3 DEF Resume
  <1>3. /\ proc' \in [Slots -> ProcType]
        /\ proc[p].lock = c /\ proc'[p].lock = NoCPU
        /\ \A q \in Slots : proc'[q].state = proc[q].state
        /\ \A q \in Slots \ {p} : proc'[q].lock = proc[q].lock
        /\ UNCHANGED <<nextpid, wait_lock, cpu>>
    <2>1. proc[p].lock = c
      BY <1>0, <1>1 DEF LockInv, OwnLocked, Parked
    <2>2. \E ch \in Slots \cup {NoProc} : proc' = [proc EXCEPT ![p].lock = NoCPU, ![p].chan = ch]
      BY <1>0, <1>1 DEF Resume, TypeOK, ProcType
    <2>3. PICK ch \in Slots \cup {NoProc} : proc' = [proc EXCEPT ![p].lock = NoCPU, ![p].chan = ch]
      BY <2>2
    <2>4. proc' \in [Slots -> ProcType] /\ proc'[p].lock = NoCPU
      <3>1. /\ [proc[p] EXCEPT !.lock = NoCPU, !.chan = ch] \in ProcType
            /\ [proc[p] EXCEPT !.lock = NoCPU, !.chan = ch].lock = NoCPU
        BY <1>0, <1>1 DEF TypeOK, ProcType
      <3>2. proc' = [proc EXCEPT ![p] = [proc[p] EXCEPT !.lock = NoCPU, !.chan = ch]]
        BY <1>0, <1>1, <2>3 DEF TypeOK
      <3>3. QED
        BY <1>0, <1>1, <3>1, <3>2 DEF TypeOK
    <2>5. /\ \A q \in Slots : proc'[q].state = proc[q].state
          /\ \A q \in Slots \ {p} : proc'[q].lock = proc[q].lock
      BY <1>0, <1>1, <2>3 DEF TypeOK, ProcType
    <2>6. QED
      BY <2>1, <2>4, <2>5 DEF Resume
  <1>4. TypeOK'
    BY <1>0, <1>1, <1>2, <1>3 DEF TypeOK
  <1>5. proc[p].state = "RUNNING"
    BY <1>0, <1>1 DEF CPUInv
  <1>6. PlaceInv'
    BY <1>0, <1>1, <1>2, <1>3, <1>5 DEF TypeOK, PlaceInv, Preemptible
  <1>7. \A d \in CPU : cpu[d].pc # "scan" => Cur(d) \in Slots
    BY <1>0, CurIsSlot
  <1>8. CPUInv'
    BY <1>0, <1>3, <1>7 DEF CPUInv, Cur, TypeOK, CPUType
  <1>9. LockInv'
    <2>1. \A d \in CPU \ {c} : cpu[d].pc # "scan" => Cur(d) # p
      BY <1>0, <1>1, <1>7 DEF CPUInv, NoProc, Slots
    <2>2. \A q \in Slots \ {p} : thr'[q] = thr[q]
      BY <1>0, <1>1, <1>2 DEF TypeOK
    <2>3. r.pc \notin InWaitLock /\ r.pc \notin OwnLocked /\ thr[p].pc \notin InWaitLock
      BY <1>1, <1>2 DEF Preemptible, InWaitLock, OwnLocked, Parked
    <2>4. \A q \in Slots : proc'[q].lock # NoCPU =>
            /\ cpu'[proc'[q].lock].proc = q
            /\ cpu'[proc'[q].lock].pc = "run" => thr'[q].pc \in OwnLocked
      BY <1>0, <1>3, <2>2 DEF LockInv, Cur
    <2>5. \A d \in CPU : cpu'[d].pc = "back" => proc'[cpu'[d].proc].lock = d
      BY <1>0, <1>1, <1>3, <1>7, <2>1 DEF LockInv, Cur
    <2>6. \A d \in CPU : cpu'[d].pc = "run" /\ thr'[cpu'[d].proc].pc \in OwnLocked
                           => proc'[cpu'[d].proc].lock = d
      BY <1>0, <1>1, <1>3, <1>7, <2>1, <2>2, <2>3 DEF LockInv, Cur
    <2>7. \A d \in CPU : wait_lock' = d <=>
                           cpu'[d].pc = "run" /\ thr'[cpu'[d].proc].pc \in InWaitLock
      BY <1>0, <1>1, <1>3, <1>7, <2>1, <2>2, <2>3 DEF LockInv, Cur
    <2>8. QED
      BY <2>4, <2>5, <2>6, <2>7 DEF LockInv, Cur
  <1>10. ForkInv'
    <2>1. \A q \in Slots : InFork(q)' => InFork(q) /\ thr'[q].arg = thr[q].arg
      BY <1>0, <1>1, <1>2 DEF InFork, TypeOK, ForkLabels
    <2>2. QED
      BY <1>0, <1>3, <2>1 DEF ForkInv
  <1>11. QED
    BY <1>4, <1>6, <1>8, <1>9, <1>10 DEF IInv

\* yield() takes p->lock, and the lock passes to the scheduler.
LEMMA TimerYieldInv ==
  ASSUME IInv, NEW c \in CPU, TimerYield(c)
  PROVE  IInv'
  <1> DEFINE p == Cur(c)
  <1>0. TypeOK /\ PlaceInv /\ CPUInv /\ LockInv /\ ForkInv
    BY DEF IInv
  <1>1. /\ p \in Slots /\ p # NoProc /\ thr[p] \in ThrType /\ cpu[c].pc = "run"
        /\ thr[p].saved = "user" /\ thr[p].pc \in Preemptible
    BY <1>0, CurIsSlot DEF TimerYield, On, TypeOK, PlaceInv, Preemptible
  <1>2. /\ proc' \in [Slots -> ProcType]
        /\ proc'[p].lock = c /\ proc'[p].state = "RUNNABLE"
        /\ \A q \in Slots \ {p} : proc'[q] = proc[q]
        /\ proc[p].lock = NoCPU
    <2>1. proc[p].lock = NoCPU
      BY <1>0, <1>1 DEF TimerYield, Free, LockInv, OwnLocked
    <2>2. proc' = [proc EXCEPT ![p].lock = c, ![p].state = "RUNNABLE"]
      BY DEF TimerYield
    <2>0. proc \in [Slots -> ProcType] /\ p \in Slots
      BY <1>0, <1>1 DEF TypeOK
    <2>3. proc' \in [Slots -> ProcType]
      <3>1. [proc[p] EXCEPT !.lock = c, !.state = "RUNNABLE"] \in ProcType
        BY <2>0 DEF ProcType, States
      <3>2. proc' = [proc EXCEPT ![p] = [proc[p] EXCEPT !.lock = c, !.state = "RUNNABLE"]]
        BY <2>0, <2>2
      <3>3. QED
        BY <2>0, <3>1, <3>2
    <2>4. proc'[p].lock = c /\ proc'[p].state = "RUNNABLE"
      BY <1>0, <1>1, <2>1, <2>2 DEF TypeOK, ProcType
    <2>5. \A q \in Slots \ {p} : proc'[q] = proc[q]
      BY <1>0, <1>1, <2>2 DEF TypeOK
    <2>6. QED
      BY <2>1, <2>3, <2>4, <2>5
  <1>3. /\ thr' \in [Slots -> ThrType]
        /\ thr'[p].pc = "yielded" /\ thr'[p].arg = thr[p].arg
        /\ thr'[p].saved = thr[p].pc
        /\ \A q \in Slots \ {p} : thr'[q] = thr[q]
    BY <1>0, <1>1 DEF TimerYield, Sched, Goto, TypeOK, ThrType, Labels, Parked
  <1>4. /\ cpu' \in [CPU -> CPUType]
        /\ cpu'[c].proc = p /\ cpu'[c].pc = "back"
        /\ \A d \in CPU \ {c} : cpu'[d] = cpu[d]
    BY <1>0, <1>1 DEF TimerYield, Sched, TypeOK, CPUType, Cur
  <1>5. TypeOK'
    BY <1>0, <1>2, <1>3, <1>4 DEF TimerYield, TypeOK
  <1>6. PlaceInv'
    BY <1>0, <1>2, <1>3 DEF PlaceInv
  <1>7. \A d \in CPU \ {c} : cpu[d].pc # "scan" => Cur(d) \in Slots \ {p}
    BY <1>0, <1>1, CurIsSlot DEF CPUInv
  <1>8. CPUInv'
    BY <1>0, <1>1, <1>2, <1>4, <1>7 DEF CPUInv, Cur
  <1>9. LockInv'
    <2>1. \A q \in Slots : proc'[q].lock # NoCPU =>
            /\ cpu'[proc'[q].lock].proc = q
            /\ cpu'[proc'[q].lock].pc = "run" => thr'[q].pc \in OwnLocked
      BY <1>0, <1>1, <1>2, <1>3, <1>4 DEF LockInv, Cur, TypeOK, ProcType
    <2>2. \A d \in CPU : cpu'[d].pc = "back" => proc'[cpu'[d].proc].lock = d
      BY <1>0, <1>2, <1>4, <1>7 DEF LockInv, Cur
    <2>3. \A d \in CPU : cpu'[d].pc = "run" /\ thr'[cpu'[d].proc].pc \in OwnLocked
                           => proc'[cpu'[d].proc].lock = d
      BY <1>0, <1>2, <1>3, <1>4, <1>7 DEF LockInv, Cur
    <2>4. wait_lock' = wait_lock /\ wait_lock # c
      BY <1>0, <1>1 DEF TimerYield, LockInv, Cur, InWaitLock, Preemptible
    <2>5. \A d \in CPU : wait_lock' = d <=>
                           cpu'[d].pc = "run" /\ thr'[cpu'[d].proc].pc \in InWaitLock
      BY <1>0, <1>3, <1>4, <1>7, <2>4, NoCPUAssumption DEF LockInv, Cur
    <2>6. QED
      BY <2>1, <2>2, <2>3, <2>5 DEF LockInv, Cur
  <1>10. ForkInv'
    <2>1. \A q \in Slots : InFork(q)' => InFork(q) /\ thr'[q].arg = thr[q].arg
      BY <1>1, <1>3 DEF InFork, ForkLabels
    <2>2. proc[p].state = "RUNNING"
      BY <1>0, <1>1 DEF CPUInv
    <2>3. QED
      BY <1>0, <1>2, <2>1, <2>2 DEF ForkInv
  <1>11. QED
    BY <1>5, <1>6, <1>8, <1>9, <1>10 DEF IInv

\* The last step of exit(): p->lock passes to the scheduler, wait_lock is free.
LEMMA ExitZombieInv ==
  ASSUME IInv, NEW c \in CPU, ExitZombie(c)
  PROVE  IInv'
  <1> DEFINE p == Cur(c)
  <1>0. TypeOK /\ PlaceInv /\ CPUInv /\ LockInv /\ ForkInv
    BY DEF IInv
  <1>1. /\ p \in Slots /\ p # NoProc /\ thr[p] \in ThrType /\ cpu[c].pc = "run"
        /\ thr[p].saved = "user" /\ thr[p].pc = "zombie"
    BY <1>0, CurIsSlot DEF ExitZombie, On, TypeOK, PlaceInv, Preemptible
  <1>2. /\ proc' \in [Slots -> ProcType]
        /\ proc'[p].lock = c /\ proc'[p].state = "ZOMBIE"
        /\ \A q \in Slots \ {p} : proc'[q] = proc[q]
        /\ proc[p].lock = NoCPU
    <2>1. proc[p].lock = NoCPU
      BY <1>0, <1>1 DEF ExitZombie, Free, LockInv, OwnLocked
    <2>2. proc' = [proc EXCEPT ![p].lock = c, ![p].state = "ZOMBIE"]
      BY DEF ExitZombie
    <2>0. proc \in [Slots -> ProcType] /\ p \in Slots
      BY <1>0, <1>1 DEF TypeOK
    <2>3. proc' \in [Slots -> ProcType]
      <3>1. [proc[p] EXCEPT !.lock = c, !.state = "ZOMBIE"] \in ProcType
        BY <2>0 DEF ProcType, States
      <3>2. proc' = [proc EXCEPT ![p] = [proc[p] EXCEPT !.lock = c, !.state = "ZOMBIE"]]
        BY <2>0, <2>2
      <3>3. QED
        BY <2>0, <3>1, <3>2
    <2>4. proc'[p].lock = c /\ proc'[p].state = "ZOMBIE"
      BY <1>0, <1>1, <2>1, <2>2 DEF TypeOK, ProcType
    <2>5. \A q \in Slots \ {p} : proc'[q] = proc[q]
      BY <1>0, <1>1, <2>2 DEF TypeOK
    <2>6. QED
      BY <2>1, <2>3, <2>4, <2>5
  <1>3. /\ thr' \in [Slots -> ThrType]
        /\ thr'[p].pc = "dead" /\ thr'[p].arg = thr[p].arg
        /\ thr'[p].saved = "user"
        /\ \A q \in Slots \ {p} : thr'[q] = thr[q]
    BY <1>0, <1>1 DEF ExitZombie, Sched, Goto, TypeOK, ThrType, Labels, Parked
  <1>4. /\ cpu' \in [CPU -> CPUType]
        /\ cpu'[c].proc = p /\ cpu'[c].pc = "back"
        /\ \A d \in CPU \ {c} : cpu'[d] = cpu[d]
    BY <1>0, <1>1 DEF ExitZombie, Sched, TypeOK, CPUType, Cur
  <1>5. TypeOK'
    BY <1>0, <1>2, <1>3, <1>4 DEF ExitZombie, TypeOK
  <1>6. PlaceInv'
    BY <1>0, <1>2, <1>3 DEF PlaceInv
  <1>7. \A d \in CPU \ {c} : cpu[d].pc # "scan" => Cur(d) \in Slots \ {p}
    BY <1>0, <1>1, CurIsSlot DEF CPUInv
  <1>8. CPUInv'
    BY <1>0, <1>1, <1>2, <1>4, <1>7 DEF CPUInv, Cur
  <1>9. LockInv'
    <2>1. \A q \in Slots : proc'[q].lock # NoCPU =>
            /\ cpu'[proc'[q].lock].proc = q
            /\ cpu'[proc'[q].lock].pc = "run" => thr'[q].pc \in OwnLocked
      BY <1>0, <1>1, <1>2, <1>3, <1>4 DEF LockInv, Cur, TypeOK, ProcType
    <2>2. \A d \in CPU : cpu'[d].pc = "back" => proc'[cpu'[d].proc].lock = d
      BY <1>0, <1>2, <1>4, <1>7 DEF LockInv, Cur
    <2>3. \A d \in CPU : cpu'[d].pc = "run" /\ thr'[cpu'[d].proc].pc \in OwnLocked
                           => proc'[cpu'[d].proc].lock = d
      BY <1>0, <1>2, <1>3, <1>4, <1>7 DEF LockInv, Cur
    <2>4. wait_lock' = NoCPU /\ wait_lock = c
      BY <1>0, <1>1 DEF ExitZombie, LockInv, Cur, InWaitLock, Preemptible
    <2>5. \A d \in CPU : wait_lock' = d <=>
                           cpu'[d].pc = "run" /\ thr'[cpu'[d].proc].pc \in InWaitLock
      BY <1>0, <1>3, <1>4, <1>7, <2>4, NoCPUAssumption DEF LockInv, Cur
    <2>6. QED
      BY <2>1, <2>2, <2>3, <2>5 DEF LockInv, Cur
  <1>10. ForkInv'
    <2>1. \A q \in Slots : InFork(q)' => InFork(q) /\ thr'[q].arg = thr[q].arg
      BY <1>1, <1>3 DEF InFork, ForkLabels
    <2>2. proc[p].state = "RUNNING"
      BY <1>0, <1>1 DEF CPUInv
    <2>3. QED
      BY <1>0, <1>2, <2>1, <2>2 DEF ForkInv
  <1>11. QED
    BY <1>5, <1>6, <1>8, <1>9, <1>10 DEF IInv

\* The switch in sleep(): p->lock passes to the scheduler, wait_lock is free.
LEMMA SleepSwitchInv ==
  ASSUME IInv, NEW c \in CPU, SleepSwitch(c)
  PROVE  IInv'
  <1> DEFINE p == Cur(c)
  <1>0. TypeOK /\ PlaceInv /\ CPUInv /\ LockInv /\ ForkInv
    BY DEF IInv
  <1>1. /\ p \in Slots /\ p # NoProc /\ thr[p] \in ThrType /\ cpu[c].pc = "run"
        /\ thr[p].saved = "user" /\ thr[p].pc = "sleep_switch"
    BY <1>0, CurIsSlot DEF SleepSwitch, On, TypeOK, PlaceInv, Preemptible
  <1>2. /\ proc' \in [Slots -> ProcType]
        /\ proc'[p].lock = c /\ proc'[p].state = "SLEEPING"
        /\ \A q \in Slots \ {p} : proc'[q] = proc[q]
        /\ proc[p].lock = c
    <2>1. proc[p].lock = c
      BY <1>0, <1>1 DEF SleepSwitch, Free, LockInv, OwnLocked
    <2>2. proc' = [proc EXCEPT ![p].chan = p, ![p].state = "SLEEPING"]
      BY DEF SleepSwitch
    <2>0. proc \in [Slots -> ProcType] /\ p \in Slots
      BY <1>0, <1>1 DEF TypeOK
    <2>3. proc' \in [Slots -> ProcType]
      <3>1. proc[p] \in ProcType
        BY <2>0
      <3>2. [proc[p] EXCEPT !.chan = p, !.state = "SLEEPING"] \in ProcType
        BY <2>0, <3>1 DEF ProcType, States
      <3>3. proc' = [proc EXCEPT ![p] = [proc[p] EXCEPT !.chan = p, !.state = "SLEEPING"]]
        BY <2>2
      <3>4. QED
        BY <2>0, <3>2, <3>3
    <2>4. proc'[p].lock = c /\ proc'[p].state = "SLEEPING"
      BY <1>0, <1>1, <2>1, <2>2 DEF TypeOK, ProcType
    <2>5. \A q \in Slots \ {p} : proc'[q] = proc[q]
      BY <1>0, <1>1, <2>2 DEF TypeOK
    <2>6. QED
      BY <2>1, <2>3, <2>4, <2>5
  <1>3. /\ thr' \in [Slots -> ThrType]
        /\ thr'[p].pc = "slept" /\ thr'[p].arg = thr[p].arg
        /\ thr'[p].saved = "user"
        /\ \A q \in Slots \ {p} : thr'[q] = thr[q]
    BY <1>0, <1>1 DEF SleepSwitch, Sched, Goto, TypeOK, ThrType, Labels, Parked
  <1>4. /\ cpu' \in [CPU -> CPUType]
        /\ cpu'[c].proc = p /\ cpu'[c].pc = "back"
        /\ \A d \in CPU \ {c} : cpu'[d] = cpu[d]
    BY <1>0, <1>1 DEF SleepSwitch, Sched, TypeOK, CPUType, Cur
  <1>5. TypeOK'
    BY <1>0, <1>2, <1>3, <1>4 DEF SleepSwitch, TypeOK
  <1>6. PlaceInv'
    BY <1>0, <1>2, <1>3 DEF PlaceInv
  <1>7. \A d \in CPU \ {c} : cpu[d].pc # "scan" => Cur(d) \in Slots \ {p}
    BY <1>0, <1>1, CurIsSlot DEF CPUInv
  <1>8. CPUInv'
    BY <1>0, <1>1, <1>2, <1>4, <1>7 DEF CPUInv, Cur
  <1>9. LockInv'
    <2>1. \A q \in Slots : proc'[q].lock # NoCPU =>
            /\ cpu'[proc'[q].lock].proc = q
            /\ cpu'[proc'[q].lock].pc = "run" => thr'[q].pc \in OwnLocked
      BY <1>0, <1>1, <1>2, <1>3, <1>4 DEF LockInv, Cur, TypeOK, ProcType
    <2>2. \A d \in CPU : cpu'[d].pc = "back" => proc'[cpu'[d].proc].lock = d
      BY <1>0, <1>2, <1>4, <1>7 DEF LockInv, Cur
    <2>3. \A d \in CPU : cpu'[d].pc = "run" /\ thr'[cpu'[d].proc].pc \in OwnLocked
                           => proc'[cpu'[d].proc].lock = d
      BY <1>0, <1>2, <1>3, <1>4, <1>7 DEF LockInv, Cur
    <2>4. wait_lock' = NoCPU /\ wait_lock = c
      BY <1>0, <1>1 DEF SleepSwitch, LockInv, Cur, InWaitLock, Preemptible
    <2>5. \A d \in CPU : wait_lock' = d <=>
                           cpu'[d].pc = "run" /\ thr'[cpu'[d].proc].pc \in InWaitLock
      BY <1>0, <1>3, <1>4, <1>7, <2>4, NoCPUAssumption DEF LockInv, Cur
    <2>6. QED
      BY <2>1, <2>2, <2>3, <2>5 DEF LockInv, Cur
  <1>10. ForkInv'
    <2>1. \A q \in Slots : InFork(q)' => InFork(q) /\ thr'[q].arg = thr[q].arg
      BY <1>1, <1>3 DEF InFork, ForkLabels
    <2>2. proc[p].state = "RUNNING"
      BY <1>0, <1>1 DEF CPUInv
    <2>3. QED
      BY <1>0, <1>2, <2>1, <2>2 DEF ForkInv
  <1>11. QED
    BY <1>5, <1>6, <1>8, <1>9, <1>10 DEF IInv

\* sleep() takes p->lock while it holds wait_lock.
LEMMA SleepLockInv ==
  ASSUME IInv, NEW c \in CPU, SleepLock(c)
  PROVE  IInv'
  <1> DEFINE p == Cur(c)
  <1>0. TypeOK /\ PlaceInv /\ CPUInv /\ LockInv /\ ForkInv
    BY DEF IInv
  <1>1. /\ p \in Slots /\ p # NoProc /\ thr[p] \in ThrType /\ cpu[c].pc = "run"
        /\ thr[p].pc = "sleep" /\ thr[p].saved = "user" /\ wait_lock = c
    BY <1>0, CurIsSlot DEF SleepLock, On, TypeOK, PlaceInv, LockInv, Cur, InWaitLock
  <1>2. /\ proc' \in [Slots -> ProcType]
        /\ proc'[p].lock = c /\ proc'[p].state = proc[p].state
        /\ \A q \in Slots \ {p} : proc'[q] = proc[q]
        /\ proc[p].lock = NoCPU
    BY <1>0, <1>1 DEF SleepLock, Free, TypeOK, ProcType
  <1>3. /\ thr' \in [Slots -> ThrType]
        /\ thr'[p].pc = "sleep_switch" /\ thr'[p].saved = "user"
        /\ \A q \in Slots \ {p} : thr'[q] = thr[q]
    BY <1>0, <1>1 DEF SleepLock, Goto, TypeOK, ThrType, Labels, InWaitLock
  <1>4. UNCHANGED <<nextpid, wait_lock, cpu>>
    BY DEF SleepLock
  <1>5. TypeOK'
    BY <1>0, <1>2, <1>3, <1>4 DEF TypeOK
  <1>6. proc[p].state = "RUNNING"
    BY <1>0, <1>1 DEF CPUInv
  <1>7. PlaceInv'
    BY <1>0, <1>2, <1>3, <1>6 DEF PlaceInv
  <1>8. \A d \in CPU \ {c} : cpu[d].pc # "scan" => Cur(d) \in Slots \ {p}
    BY <1>0, <1>1, CurIsSlot DEF CPUInv
  <1>9. CPUInv'
    BY <1>0, <1>1, <1>2, <1>4, <1>8 DEF CPUInv, Cur
  <1>10. LockInv'
    BY <1>0, <1>1, <1>2, <1>3, <1>4, <1>8, NoCPUAssumption
    DEF LockInv, Cur, OwnLocked, InWaitLock
  <1>11. ForkInv'
    BY <1>0, <1>2, <1>3, <1>6 DEF ForkInv, InFork, ForkLabels
  <1>12. QED
    BY <1>5, <1>7, <1>9, <1>10, <1>11 DEF IInv

\* The three actions that move another process's slot as well.
LEMMA AllocInv ==
  ASSUME IInv, NEW c \in CPU, Alloc(c)
  PROVE  IInv'
  <1> DEFINE p == Cur(c)
             np == thr[Cur(c)].idx
  <1>0. TypeOK /\ PlaceInv /\ CPUInv /\ LockInv /\ ForkInv
    BY DEF IInv
  <1>1. /\ p \in Slots /\ p # NoProc /\ thr[p] \in ThrType /\ cpu[c].pc = "run"
        /\ thr[p].pc = "alloc" /\ thr[p].saved = "user" /\ wait_lock # c
        /\ proc[p].state = "RUNNING"
    BY <1>0, CurIsSlot DEF Alloc, On, TypeOK, PlaceInv, CPUInv, LockInv, Cur, InWaitLock
  <1>2. np \in Slots /\ np # p /\ proc[np].state = "UNUSED" /\ proc[np].lock = NoCPU
    BY <1>1, NPROCAssumption DEF Alloc, Free, ThrType, Slots
  <1>3. /\ proc' \in [Slots -> ProcType]
        /\ proc'[np].state = "USED" /\ proc'[np].lock = NoCPU
        /\ \A q \in Slots \ {np} : proc'[q] = proc[q]
    <2>1. proc' = [proc EXCEPT ![np].pid = nextpid, ![np].state = "USED"]
      BY DEF Alloc, allocproc
    <2>2. proc \in [Slots -> ProcType] /\ nextpid \in Nat
      BY <1>0 DEF TypeOK
    <2>3. proc' \in [Slots -> ProcType]
      BY <1>2, <2>1, <2>2 DEF ProcType, States
    <2>4. QED
      BY <1>2, <2>1, <2>2, <2>3 DEF ProcType
  <1>4. /\ thr' \in [Slots -> ThrType]
        /\ thr'[p] = AtWith("fork_parent", np) /\ thr'[np] = At("forkret")
        /\ \A q \in Slots \ {p, np} : thr'[q] = thr[q]
    <2>1. AtWith("fork_parent", np) \in ThrType /\ At("forkret") \in ThrType
      BY <1>2, AtType DEF Slots, Labels, Preemptible, Parked
    <2>2. QED
      BY <1>0, <1>1, <1>2, <2>1 DEF Alloc, TypeOK
  <1>5. UNCHANGED <<wait_lock, cpu>> /\ nextpid' \in Nat
    BY <1>0 DEF Alloc, TypeOK
  <1>6. TypeOK'
    BY <1>0, <1>3, <1>4, <1>5 DEF TypeOK
  <1>7. PlaceInv'
    BY <1>0, <1>1, <1>2, <1>3, <1>4 DEF PlaceInv, At, AtWith
  <1>8. \A d \in CPU : cpu[d].pc # "scan" => Cur(d) \in Slots
    BY <1>0, CurIsSlot
  <1>9. \A d \in CPU : cpu[d].pc # "scan" => Cur(d) # np
    BY <1>0, <1>2, <1>8, NoCPUAssumption DEF CPUInv, LockInv, TypeOK, CPUType
  <1>10. \A d \in CPU \ {c} : cpu[d].pc # "scan" => Cur(d) # p
    BY <1>0, <1>1 DEF CPUInv
  <1>11. CPUInv'
    BY <1>0, <1>2, <1>3, <1>5, <1>8, <1>9 DEF CPUInv, Cur
  <1>12. LockInv'
    <2>1. \A q \in Slots : proc'[q].lock = proc[q].lock
      BY <1>2, <1>3
    <2>2. thr'[p].pc \notin OwnLocked \cup InWaitLock /\ thr[p].pc \notin OwnLocked \cup InWaitLock
      BY <1>1, <1>4 DEF AtWith, OwnLocked, Parked, InWaitLock
    <2>3. \A q \in Slots : proc'[q].lock # NoCPU =>
            /\ cpu'[proc'[q].lock].proc = q
            /\ cpu'[proc'[q].lock].pc = "run" => thr'[q].pc \in OwnLocked
      BY <1>0, <1>2, <1>4, <1>5, <2>1, <2>2 DEF LockInv, Cur
    <2>4. \A d \in CPU : cpu'[d].pc = "back" => proc'[cpu'[d].proc].lock = d
      BY <1>0, <1>5, <1>8, <2>1 DEF LockInv, Cur
    <2>5. \A d \in CPU : cpu'[d].pc = "run" /\ thr'[cpu'[d].proc].pc \in OwnLocked
                           => proc'[cpu'[d].proc].lock = d
      BY <1>0, <1>4, <1>5, <1>8, <1>9, <1>10, <2>1, <2>2 DEF LockInv, Cur
    <2>6. \A d \in CPU : wait_lock' = d <=>
                           cpu'[d].pc = "run" /\ thr'[cpu'[d].proc].pc \in InWaitLock
      BY <1>0, <1>1, <1>4, <1>5, <1>8, <1>9, <1>10, <2>2 DEF LockInv, Cur
    <2>7. QED
      BY <2>3, <2>4, <2>5, <2>6 DEF LockInv, Cur
  <1>13. ForkInv'
    <2>1. \A q \in Slots \ {p} : InFork(q)' => InFork(q) /\ q # np /\ thr'[q] = thr[q]
      BY <1>4 DEF InFork, ForkLabels, At, AtWith
    <2>2. \A q \in Slots : InFork(q) => thr[q].arg # np
      BY <1>0, <1>2 DEF ForkInv
    <2>3. thr'[p].arg = np
      BY <1>4 DEF AtWith
    <2>4. QED
      BY <1>0, <1>2, <1>3, <2>1, <2>2, <2>3 DEF ForkInv
  <1>14. QED
    BY <1>6, <1>7, <1>11, <1>12, <1>13 DEF IInv

\* The last step of fork() gives the slot up.
LEMMA ForkRunnableInv ==
  ASSUME IInv, NEW c \in CPU, ForkRunnable(c)
  PROVE  IInv'
  <1> DEFINE p == Cur(c)
             np == thr[Cur(c)].arg
  <1>0. TypeOK /\ PlaceInv /\ CPUInv /\ LockInv /\ ForkInv
    BY DEF IInv
  <1>1. /\ p \in Slots /\ p # NoProc /\ thr[p] \in ThrType /\ cpu[c].pc = "run"
        /\ thr[p].pc = "fork_runnable" /\ InFork(p) /\ wait_lock # c
        /\ proc[p].state = "RUNNING"
    BY <1>0, CurIsSlot
    DEF ForkRunnable, On, TypeOK, CPUInv, LockInv, Cur, InFork, ForkLabels, InWaitLock
  <1>2. np \in Slots /\ np # p /\ proc[np].state = "USED"
    BY <1>0, <1>1 DEF ForkInv
  <1>3. /\ proc' \in [Slots -> ProcType]
        /\ proc'[np].state = "RUNNABLE" /\ proc'[np].lock = proc[np].lock
        /\ \A q \in Slots \ {np} : proc'[q] = proc[q]
    <2>1. proc' = [proc EXCEPT ![np].state = "RUNNABLE"]
      BY DEF ForkRunnable
    <2>2. proc \in [Slots -> ProcType]
      BY <1>0 DEF TypeOK
    <2>3. QED
      BY <1>2, <2>1, <2>2 DEF ProcType, States
  <1>4. /\ thr' \in [Slots -> ThrType]
        /\ thr'[p] = At("trap_return")
        /\ \A q \in Slots \ {p} : thr'[q] = thr[q]
    <2>1. At("trap_return") \in ThrType
      BY AtType DEF Labels, Preemptible
    <2>2. QED
      BY <1>0, <1>1, <2>1 DEF ForkRunnable, Return, TypeOK
  <1>5. UNCHANGED <<nextpid, wait_lock, cpu>>
    BY DEF ForkRunnable
  <1>6. TypeOK'
    BY <1>0, <1>3, <1>4, <1>5 DEF TypeOK
  <1>7. PlaceInv'
    BY <1>0, <1>1, <1>2, <1>3, <1>4 DEF PlaceInv, At, AtWith
  <1>8. \A d \in CPU : cpu[d].pc # "scan" => Cur(d) \in Slots
    BY <1>0, CurIsSlot
  <1>9. \A d \in CPU \ {c} : cpu[d].pc # "scan" => Cur(d) # p
    BY <1>0, <1>1 DEF CPUInv
  <1>10. CPUInv'
    <2>1. \A q \in Slots : proc'[q].state = "RUNNING" <=> proc[q].state = "RUNNING"
      BY <1>2, <1>3
    <2>2. \A d \in CPU : Cur(d)' = Cur(d) /\ cpu'[d].pc = cpu[d].pc
      BY <1>5 DEF Cur
    <2>3. \A d \in CPU : cpu[d].pc \in {"run", "back"} => Cur(d) \in Slots
      BY <1>8
    <2>4. QED
      BY <1>0, <2>1, <2>2, <2>3 DEF CPUInv
  <1>11. LockInv'
    <2>1. \A q \in Slots : proc'[q].lock = proc[q].lock
      BY <1>2, <1>3
    <2>2. thr'[p].pc \notin OwnLocked \cup InWaitLock /\ thr[p].pc \notin OwnLocked \cup InWaitLock
      BY <1>1, <1>4 DEF At, AtWith, OwnLocked, Parked, InWaitLock
    <2>3. QED
      BY <1>0, <1>1, <1>4, <1>5, <1>8, <1>9, <2>1, <2>2 DEF LockInv, Cur
  <1>12. ForkInv'
    <2>1. \A q \in Slots : InFork(q)' => InFork(q) /\ q # p /\ thr'[q] = thr[q]
      BY <1>4 DEF InFork, ForkLabels, At, AtWith
    <2>2. \A q \in Slots \ {p} : InFork(q) => thr[q].arg # np
      BY <1>0, <1>1 DEF ForkInv
    <2>3. QED
      BY <1>0, <1>3, <2>1, <2>2 DEF ForkInv
  <1>13. QED
    BY <1>6, <1>7, <1>10, <1>11, <1>12 DEF IInv

\* wait() frees a zombie, which no CPU runs and no fork() owns.
LEMMA ReapInv ==
  ASSUME IInv, NEW c \in CPU, Reap(c)
  PROVE  IInv'
  <1> DEFINE p == Cur(c)
  <1>0. TypeOK /\ PlaceInv /\ CPUInv /\ LockInv /\ ForkInv
    BY DEF IInv
  <1>1. /\ p \in Slots /\ p # NoProc /\ thr[p] \in ThrType /\ cpu[c].pc = "run"
        /\ thr[p].pc = "scan" /\ thr[p].saved = "user" /\ wait_lock = c
        /\ proc[p].state = "RUNNING"
    BY <1>0, CurIsSlot DEF Reap, On, TypeOK, PlaceInv, CPUInv, LockInv, Cur, InWaitLock
  <1>2. At("trap_return") \in ThrType /\ At("unused") \in ThrType
    BY AtType DEF Labels, Preemptible
  <1>3. wait_lock' = NoCPU /\ UNCHANGED <<nextpid, cpu>>
    BY DEF Reap
  <1>4. PICK i \in Slots :
          /\ Reapable(i)
          /\ \/ /\ proc' = freeproc(i)
                /\ thr'  = [thr EXCEPT ![p] = At("trap_return"), ![i] = At("unused")]
             \/ UNCHANGED proc /\ Return(p)
    BY DEF Reap
  <1>5. i # p /\ proc[i].state = "ZOMBIE" /\ proc[i].lock = NoCPU
    BY <1>1, <1>4 DEF Reapable, Free
  <1>6. CASE UNCHANGED proc /\ Return(p)
    <2>1. thr' = [thr EXCEPT ![p] = thr'[p]] /\ thr'[p] = At("trap_return")
      BY <1>0, <1>1, <1>6 DEF Return, TypeOK
    <2>2. LocalStep(c, thr'[p])
      BY <1>0, <1>1, <1>2, <1>3, <1>6, <2>1
      DEF LocalStep, At, AtWith, OwnLocked, Parked, ForkLabels, InWaitLock, TypeOK
    <2>3. QED
      BY <2>2, LocalStepInv
  <1>7. CASE /\ proc' = freeproc(i)
             /\ thr'  = [thr EXCEPT ![p] = At("trap_return"), ![i] = At("unused")]
    <2>1. /\ proc' \in [Slots -> ProcType]
          /\ proc'[i].state = "UNUSED" /\ proc'[i].lock = NoCPU
          /\ \A q \in Slots \ {i} : proc'[q] = proc[q]
      <3>1. FreeSlot(NoCPU) \in ProcType
        BY DEF FreeSlot, ProcType, States
      <3>2. QED
        BY <1>0, <1>7, <3>1 DEF freeproc, FreeSlot, TypeOK
    <2>2. /\ thr' \in [Slots -> ThrType]
          /\ thr'[p] = At("trap_return") /\ thr'[i] = At("unused")
          /\ \A q \in Slots \ {p, i} : thr'[q] = thr[q]
      BY <1>0, <1>1, <1>2, <1>5, <1>7 DEF TypeOK
    <2>3. TypeOK'
      BY <1>0, <1>3, <2>1, <2>2 DEF TypeOK
    <2>4. PlaceInv'
      BY <1>0, <1>1, <1>5, <2>1, <2>2 DEF PlaceInv, At, AtWith
    <2>5. \A d \in CPU : cpu[d].pc # "scan" => Cur(d) \in Slots \ {i}
      BY <1>0, <1>5, CurIsSlot, NoCPUAssumption DEF CPUInv, LockInv, TypeOK, CPUType
    <2>6. \A d \in CPU \ {c} : cpu[d].pc # "scan" => Cur(d) # p
      BY <1>0, <1>1 DEF CPUInv
    <2>7. CPUInv'
      BY <1>0, <1>3, <1>5, <2>1, <2>5 DEF CPUInv, Cur
    <2>8. LockInv'
      <3>1. \A q \in Slots : proc'[q].lock = proc[q].lock
        BY <1>5, <2>1
      <3>2. thr'[p].pc \notin OwnLocked \cup InWaitLock /\ thr[p].pc \notin OwnLocked
        BY <1>1, <2>2 DEF At, AtWith, OwnLocked, Parked, InWaitLock
      <3>3. \A q \in Slots : proc'[q].lock # NoCPU =>
              /\ cpu'[proc'[q].lock].proc = q
              /\ cpu'[proc'[q].lock].pc = "run" => thr'[q].pc \in OwnLocked
        BY <1>0, <1>3, <1>5, <2>2, <3>1, <3>2 DEF LockInv, Cur
      <3>4. \A d \in CPU : cpu'[d].pc = "back" => proc'[cpu'[d].proc].lock = d
        BY <1>0, <1>3, <2>5, <3>1 DEF LockInv, Cur
      <3>5. \A d \in CPU : cpu'[d].pc = "run" /\ thr'[cpu'[d].proc].pc \in OwnLocked
                             => proc'[cpu'[d].proc].lock = d
        BY <1>0, <1>3, <2>2, <2>5, <2>6, <3>1, <3>2 DEF LockInv, Cur
      <3>6. \A d \in CPU : wait_lock' = d <=>
                             cpu'[d].pc = "run" /\ thr'[cpu'[d].proc].pc \in InWaitLock
        BY <1>0, <1>1, <1>3, <2>2, <2>5, <2>6, <3>2, NoCPUAssumption DEF LockInv, Cur
      <3>7. QED
        BY <3>3, <3>4, <3>5, <3>6 DEF LockInv, Cur
    <2>9. ForkInv'
      <3>1. \A q \in Slots : InFork(q)' => InFork(q) /\ thr'[q] = thr[q]
        BY <2>2 DEF InFork, ForkLabels, At, AtWith
      <3>2. QED
        BY <1>0, <1>5, <2>1, <3>1 DEF ForkInv
    <2>10. QED
      BY <2>3, <2>4, <2>7, <2>8, <2>9 DEF IInv
  <1>8. QED
    BY <1>4, <1>6, <1>7

-----------------------------------------------------------------------------
\* procinit() and userinit() establish the inductive invariant.
LEMMA InitInv == Init => IInv
  <1> SUFFICES ASSUME Init PROVE IInv
    OBVIOUS
  <1> USE NPROCAssumption, NoCPUAssumption DEF Slots, NoProc, initproc
  <1>1. TypeOK
    <2>1. \A q \in Slots : proc[q] \in ProcType
      BY DEF Init, FreeSlot, ProcType, States
    <2>2. \A q \in Slots : thr[q] \in ThrType
      BY DEF Init, At, AtWith, ThrType, Labels, Preemptible, Parked
    <2>3. QED
      BY <2>1, <2>2 DEF Init, TypeOK, CPUType
  <1>2. PlaceInv
    BY DEF Init, FreeSlot, At, AtWith, PlaceInv
  <1>3. CPUInv
    BY DEF Init, FreeSlot, CPUInv, Cur
  <1>4. LockInv
    BY DEF Init, FreeSlot, LockInv, Cur
  <1>5. ForkInv
    BY DEF Init, At, AtWith, ForkInv, InFork, ForkLabels
  <1>6. QED
    BY <1>1, <1>2, <1>3, <1>4, <1>5 DEF IInv

\* Every step of every CPU preserves the inductive invariant.
LEMMA NextInv == IInv /\ [Next]_vars => IInv'
  <1> SUFFICES ASSUME IInv, [Next]_vars PROVE IInv'
    OBVIOUS
  <1>1. CASE UNCHANGED vars
    BY <1>1 DEF vars, IInv, TypeOK, PlaceInv, CPUInv, LockInv, ForkInv, InFork, Cur
  <1>2. ASSUME NEW c \in CPU, SchedStep(c) PROVE IInv'
    BY <1>2, SchedSkipInv, SchedRunInv, SchedBackInv DEF SchedStep
  <1>3. ASSUME NEW c \in CPU, TimerStep(c) PROVE IInv'
    BY <1>3, TimerKilledLocal, LocalStepInv, TimerYieldInv DEF TimerStep
  <1>4. ASSUME NEW c \in CPU, ForkStep(c) PROVE IInv'
    BY <1>4, AllocSkipLocal, AllocNoMemoryLocal, ForkParentLocal, LocalStepInv,
       AllocInv, ForkRunnableInv DEF ForkStep
  <1>5. ASSUME NEW c \in CPU, KillStep(c) PROVE IInv'
    BY <1>5, KillSkipLocal, KillHitLocal, LocalStepInv DEF KillStep
  <1>6. ASSUME NEW c \in CPU, ExitStep(c) PROVE IInv'
    BY <1>6, ExitLockLocal, ReparentLocal, ReparentWakeupLocal, WakeParentLocal,
       LocalStepInv, ExitZombieInv DEF ExitStep
  <1>7. ASSUME NEW c \in CPU, WaitStep(c) PROVE IInv'
    BY <1>7, WaitLockLocal, ScanAliveLocal, WaitDecideLocal, LocalStepInv,
       ReapInv, SleepLockInv, SleepSwitchInv DEF WaitStep
  <1>8. ASSUME NEW c \in CPU, Syscall(c) \/ Fault(c) \/ TrapReturn(c) PROVE IInv'
    BY <1>8, SyscallLocal, FaultLocal, TrapReturnLocal, LocalStepInv
  <1>9. QED
    BY <1>1, <1>2, <1>3, <1>4, <1>5, <1>6, <1>7, <1>8, ResumeInv
    DEF Next, ThreadStep, KernelStep

\* The inductive invariant holds in every reachable state.
THEOREM Invariance == Spec => []IInv
  BY InitInv, NextInv, PTL DEF Spec

\* The type invariant, for every number of slots and CPUs.
THEOREM TypeCorrect == Spec => []TypeOK
  <1>1. IInv => TypeOK
    BY DEF IInv
  <1>2. QED
    BY <1>1, Invariance, PTL

\* sched() never panics: a process switches to the scheduler with its own
\* p->lock held, no other spinlock, and its state changed (proc.c, sched()).
THEOREM SchedSafe == Spec => []SchedAsserts
  <1>1. IInv => SchedAsserts
    <2> SUFFICES ASSUME IInv, NEW c \in CPU, cpu[c].pc = "back"
                 PROVE  /\ proc[Cur(c)].lock = c
                        /\ proc[Cur(c)].state # "RUNNING"
                        /\ wait_lock # c
                        /\ \A q \in Slots : proc[q].lock = c => q = Cur(c)
      BY DEF SchedAsserts
    <2>1. QED
      BY NoCPUAssumption DEF IInv, CPUInv, LockInv
  <1>2. QED
    BY <1>1, Invariance, PTL

\* A process never runs on two CPUs, and is RUNNING exactly while it executes
\* (proc.c, the RR build of scheduler(), yield(), sleep(), exit()).
THEOREM OneCPU == Spec => []RunsOnOneCPU
  <1>1. IInv => RunsOnOneCPU
    BY DEF IInv, CPUInv, RunsOnOneCPU
  <1>2. QED
    BY <1>1, Invariance, PTL

\* The slot that allocproc() hands out stays USED and belongs to one fork()
\* until that fork makes it RUNNABLE, although fork() drops np->lock in between.
THEOREM ForkSafe == Spec => []ForkOwnsSlot
  <1>1. IInv => ForkOwnsSlot
    BY DEF IInv, ForkInv, ForkOwnsSlot, InFork, ForkLabels
  <1>2. QED
    BY <1>1, Invariance, PTL

-----------------------------------------------------------------------------
(***************************************************************************)
(* Parents and children.  A process that exits first gives its children to *)
(* init, then wakes its parent, then is a ZOMBIE, all under wait_lock; and *)
(* a parent that looks for zombies goes to sleep under wait_lock too.      *)
(***************************************************************************)
Alive    == {"SLEEPING", "RUNNABLE", "RUNNING"}
Exiting  == {"reparent", "reparent_wakeup", "wake_parent", "zombie"}
Orphaned == {"wake_parent", "zombie"}             \* reparent() is done
Loops    == {"alloc", "kill", "scan", "reparent_wakeup", "wake_parent"}

Asleep(p)     == proc[p].state = "SLEEPING" /\ proc[p].chan = p
HasForked(p)  == thr[p].pc = "fork_runnable" \/ thr[p].saved = "fork_runnable"
Woke(p)       == thr[p].pc = "zombie" \/ (thr[p].pc = "wake_parent" /\ thr[p].idx > proc[p].parent)
Scanned(p, q) == thr[p].pc \in {"sleep", "sleep_switch"} \/ (thr[p].pc = "scan" /\ q < thr[p].idx)
AboutToWakeInit(p) == thr[p].pc = "reparent_wakeup" /\ thr[p].idx <= initproc

\* Who has a parent has one that has not given its children away; init exits only
\* to panic.
InitLives ==
  /\ proc[initproc].state \in Alive /\ proc[initproc].parent = NoProc
  /\ thr[initproc].pc \notin Exiting

ParentInv ==
  /\ \A q \in Slots : proc[q].parent # NoProc =>
       /\ proc[q].parent # q
       /\ proc[proc[q].parent].state \in Alive
       /\ thr[proc[q].parent].pc \notin Orphaned
  /\ \A q \in Slots \ {initproc} :
       proc[q].state \in Alive \cup {"ZOMBIE"} => proc[q].parent # NoProc
  /\ \A p \in Slots : HasForked(p) => proc[thr[p].arg].parent = p

\* The loops over proc[] start at its first slot.
IdxOK(p) == thr[p].pc \in Loops \/ thr[p].saved \in Loops \/ thr[p].idx = 0
IdxInv   == \A p \in Slots : IdxOK(p)

\* A parent that has been woken stays awake, and one that has found no zombie among
\* some children has none there, until wait_lock is released; and NoLostWakeup.
WakeInv ==
  /\ \A q \in Slots : Woke(q) => ~ Asleep(proc[q].parent)
  /\ \A p, q \in Slots : Scanned(p, q) /\ proc[q].parent = p => proc[q].state # "ZOMBIE"
  /\ \A q \in Slots : proc[q].state = "ZOMBIE" /\ Asleep(proc[q].parent) =>
       /\ proc[q].parent = initproc
       /\ \E r \in Slots : AboutToWakeInit(r)

FamilyInv == InitLives /\ ParentInv /\ IdxInv /\ WakeInv

\* At most one thread is inside the critical section of wait_lock.
LEMMA OneHolder ==
  ASSUME IInv, NEW p \in Slots, thr[p].pc \in InWaitLock
  PROVE  /\ wait_lock # NoCPU /\ proc[p].state = "RUNNING"
         /\ \A q \in Slots : thr[q].pc \in InWaitLock => q = p
  <1>0. TypeOK /\ PlaceInv /\ CPUInv /\ LockInv
    BY DEF IInv
  <1>1. ASSUME NEW q \in Slots, thr[q].pc \in InWaitLock
        PROVE  /\ proc[q].state = "RUNNING"
               /\ \E c \in CPU : wait_lock = c /\ Cur(c) = q
    <2>1. proc[q].state \in States
      BY <1>0 DEF TypeOK, ProcType
    <2>2. proc[q].state = "RUNNING"
      BY <1>0, <1>1, <2>1 DEF PlaceInv, States, InWaitLock
    <2>3. PICK c \in CPU : cpu[c].pc = "run" /\ Cur(c) = q
      BY <1>0, <2>2 DEF CPUInv
    <2>4. QED
      BY <1>0, <1>1, <2>2, <2>3 DEF LockInv
  <1>2. QED
    BY <1>1, NoCPUAssumption

\* A step of p's thread that changes no parent, puts nobody to sleep and ends nobody.
Quiet(p) ==
  /\ \A q \in Slots :
       /\ proc'[q].parent = proc[q].parent
       /\ proc'[q].state \in Alive <=> proc[q].state \in Alive
       /\ proc'[q].state = "ZOMBIE" <=> proc[q].state = "ZOMBIE"
       /\ Asleep(q)' => Asleep(q)
  /\ \A q \in Slots \ {p} : thr'[q] = thr[q]

\* It preserves the invariant if the position it leads p's thread to agrees with it.
LEMMA QuietFamily ==
  ASSUME IInv, FamilyInv, NEW p \in Slots, Quiet(p),
         p = initproc => thr'[p].pc \notin Exiting,
         thr'[p].pc \in Orphaned => \A q \in Slots : proc[q].parent # p,
         HasForked(p)' => HasForked(p) /\ thr'[p].arg = thr[p].arg,
         IdxOK(p)',
         Woke(p)' => ~ Asleep(proc[p].parent)',
         \A q \in Slots : Scanned(p, q)' /\ proc[q].parent = p => proc[q].state # "ZOMBIE",
         AboutToWakeInit(p) => AboutToWakeInit(p)' \/ ~ Asleep(initproc)'
  PROVE  FamilyInv'
  <1>0. /\ InitLives /\ ParentInv /\ IdxInv /\ WakeInv /\ initproc \in Slots
        /\ \A q \in Slots : proc[q].parent \in Slots \cup {NoProc}
        /\ \A q \in Slots : HasForked(q) => thr[q].arg \in Slots
    <2>1. initproc \in Slots
      BY NPROCAssumption DEF Slots, initproc
    <2>2. \A q \in Slots : proc[q].parent \in Slots \cup {NoProc}
      BY DEF IInv, TypeOK, ProcType
    <2>3. \A q \in Slots : HasForked(q) => thr[q].arg \in Slots
      BY DEF IInv, ForkInv, HasForked, InFork, ForkLabels
    <2>4. QED
      BY <2>1, <2>2, <2>3 DEF FamilyInv
  <1>1. InitLives'
    BY <1>0 DEF InitLives, Quiet
  <1>2. ParentInv'
    <2>1. \A q \in Slots : proc'[q].parent # NoProc =>
            /\ proc'[q].parent # q
            /\ proc'[proc'[q].parent].state \in Alive
            /\ thr'[proc'[q].parent].pc \notin Orphaned
      BY <1>0 DEF ParentInv, Quiet
    <2>2. \A q \in Slots \ {initproc} :
            proc'[q].state \in Alive \cup {"ZOMBIE"} => proc'[q].parent # NoProc
      BY <1>0 DEF ParentInv, Quiet
    <2>3. \A q \in Slots : HasForked(q)' => HasForked(q) /\ thr'[q].arg = thr[q].arg
      BY DEF Quiet, HasForked
    <2>4. \A q \in Slots : HasForked(q)' => proc'[thr'[q].arg].parent = q
      BY <1>0, <2>3 DEF ParentInv, Quiet
    <2>5. QED
      BY <2>1, <2>2, <2>4 DEF ParentInv
  <1>3. IdxInv'
    BY <1>0 DEF IdxInv, IdxOK, Quiet
  <1>4. WakeInv'
    <2>1. \A q \in Slots : Woke(q)' => ~ Asleep(proc[q].parent)'
      <3>1. ASSUME NEW q \in Slots, Woke(q)', q # p PROVE ~ Asleep(proc[q].parent)'
        <4>1. Woke(q) /\ ~ Asleep(proc[q].parent)
          BY <1>0, <3>1 DEF Quiet, Woke, WakeInv
        <4>2. proc[q].parent \in Slots
          BY <1>0, <4>1, OneHolder, NPROCAssumption DEF Woke, InWaitLock, ParentInv, InitLives, Alive, Exiting
        <4>3. QED
          BY <4>1, <4>2 DEF Quiet
      <3>2. QED
        BY <3>1
    <2>2. \A r, q \in Slots : Scanned(r, q)' /\ proc'[q].parent = r => proc'[q].state # "ZOMBIE"
      BY <1>0 DEF Quiet, Scanned, WakeInv
    <2>3. ASSUME NEW q \in Slots, proc'[q].state = "ZOMBIE", Asleep(proc[q].parent)'
          PROVE  /\ proc[q].parent = initproc
                 /\ \E r \in Slots : AboutToWakeInit(r)'
      <3>1. proc[q].state = "ZOMBIE" /\ proc[q].parent \in Slots
        BY <1>0, <2>3 DEF Quiet, InitLives, ParentInv, Alive
      <3>2. /\ proc[q].parent = initproc
            /\ \E r \in Slots : AboutToWakeInit(r)
        BY <1>0, <2>3, <3>1 DEF Quiet, WakeInv
      <3>3. QED
        BY <2>3, <3>2 DEF Quiet, AboutToWakeInit
    <2>4. \A q \in Slots : proc'[q].parent = proc[q].parent
      BY DEF Quiet
    <2>5. QED
      BY <2>1, <2>2, <2>3, <2>4 DEF WakeInv, Asleep
  <1>5. QED
    BY <1>1, <1>2, <1>3, <1>4 DEF FamilyInv

\* Syscall() takes the thread to the start of a call.
LEMMA SyscallFamily ==
  ASSUME IInv, FamilyInv, NEW c \in CPU, Syscall(c)
  PROVE  FamilyInv'
  <1> DEFINE p == Cur(c)
  <1>1. /\ p \in Slots /\ thr[p] \in ThrType /\ thr \in [Slots -> ThrType]
        /\ proc \in [Slots -> ProcType]
        /\ thr[p].pc = "user" /\ thr[p].saved = "user"
    BY CurOn DEF Syscall
  <1>2. thr[p].idx = 0 \/ thr[p].pc \in Loops
    BY <1>1 DEF FamilyInv, IdxInv, IdxOK, Loops
  <1>3. /\ thr'[p].pc \in {"exit", "wait", "alloc", "kill"} /\ thr'[p].saved = "user"
        /\ thr'[p].idx = 0 \/ thr'[p].pc \in Loops
        /\ \A q \in Slots \ {p} : thr'[q] = thr[q]
    BY <1>1, <1>2 DEF Syscall, Goto, Return, At, AtWith, ThrType, Loops
  <1>4. Quiet(p)
    BY <1>1, <1>3 DEF Syscall, Quiet, Asleep, Alive, Awake, ProcType
  <1>5. QED
    BY <1>1, <1>3, <1>4, QuietFamily DEF Exiting, Orphaned, HasForked, IdxOK, Woke, Scanned, AboutToWakeInit

\* TrapReturn() takes the thread to user space or to exit().
LEMMA TrapReturnFamily ==
  ASSUME IInv, FamilyInv, NEW c \in CPU, TrapReturn(c)
  PROVE  FamilyInv'
  <1> DEFINE p == Cur(c)
  <1>1. /\ p \in Slots /\ thr[p] \in ThrType /\ thr \in [Slots -> ThrType]
        /\ proc \in [Slots -> ProcType]
        /\ thr[p].pc = "trap_return" /\ thr[p].saved = "user"
    BY CurOn DEF TrapReturn
  <1>2. thr[p].idx = 0 \/ thr[p].pc \in Loops
    BY <1>1 DEF FamilyInv, IdxInv, IdxOK, Loops
  <1>3. /\ thr'[p].pc \in {"exit", "user"} /\ thr'[p].saved = "user"
        /\ thr'[p].idx = 0 \/ thr'[p].pc \in Loops
        /\ \A q \in Slots \ {p} : thr'[q] = thr[q]
    BY <1>1, <1>2 DEF TrapReturn, Goto, Return, At, AtWith, ThrType, Loops
  <1>4. Quiet(p)
    BY <1>1, <1>3 DEF TrapReturn, Quiet, Asleep, Alive, Awake, ProcType
  <1>5. QED
    BY <1>1, <1>3, <1>4, QuietFamily DEF Exiting, Orphaned, HasForked, IdxOK, Woke, Scanned, AboutToWakeInit

\* TimerKilled() takes the thread to exit().
LEMMA TimerKilledFamily ==
  ASSUME IInv, FamilyInv, NEW c \in CPU, TimerKilled(c)
  PROVE  FamilyInv'
  <1> DEFINE p == Cur(c)
  <1>1. /\ p \in Slots /\ thr[p] \in ThrType /\ thr \in [Slots -> ThrType]
        /\ proc \in [Slots -> ProcType]
        /\ thr[p].pc = "user" /\ thr[p].saved = "user"
    BY CurOn DEF TimerKilled
  <1>2. thr[p].idx = 0 \/ thr[p].pc \in Loops
    BY <1>1 DEF FamilyInv, IdxInv, IdxOK, Loops
  <1>3. /\ thr'[p].pc \in {"exit"} /\ thr'[p].saved = "user"
        /\ thr'[p].idx = 0 \/ thr'[p].pc \in Loops
        /\ \A q \in Slots \ {p} : thr'[q] = thr[q]
    BY <1>1, <1>2 DEF TimerKilled, Goto, Return, At, AtWith, ThrType, Loops
  <1>4. Quiet(p)
    BY <1>1, <1>3 DEF TimerKilled, Quiet, Asleep, Alive, Awake, ProcType
  <1>5. QED
    BY <1>1, <1>3, <1>4, QuietFamily DEF Exiting, Orphaned, HasForked, IdxOK, Woke, Scanned, AboutToWakeInit

\* Fault() takes the thread to exit(); the mark of the killed process is nobody else's matter.
LEMMA FaultFamily ==
  ASSUME IInv, FamilyInv, NEW c \in CPU, Fault(c)
  PROVE  FamilyInv'
  <1> DEFINE p == Cur(c)
  <1>1. /\ p \in Slots /\ thr[p] \in ThrType /\ thr \in [Slots -> ThrType]
        /\ proc \in [Slots -> ProcType]
        /\ thr[p].pc = "user" /\ thr[p].saved = "user"
    BY CurOn DEF Fault
  <1>2. thr[p].idx = 0 \/ thr[p].pc \in Loops
    BY <1>1 DEF FamilyInv, IdxInv, IdxOK, Loops
  <1>3. /\ thr'[p].pc \in {"exit"} /\ thr'[p].saved = "user"
        /\ thr'[p].idx = 0 \/ thr'[p].pc \in Loops
        /\ \A q \in Slots \ {p} : thr'[q] = thr[q]
    BY <1>1, <1>2 DEF Fault, Goto, Return, At, AtWith, ThrType, Loops
  <1>4. Quiet(p)
    BY <1>1, <1>3 DEF Fault, Quiet, Asleep, Alive, Awake, ProcType
  <1>5. QED
    BY <1>1, <1>3, <1>4, QuietFamily DEF Exiting, Orphaned, HasForked, IdxOK, Woke, Scanned, AboutToWakeInit

\* AllocSkip() goes on with allocproc()'s loop, or returns.
LEMMA AllocSkipFamily ==
  ASSUME IInv, FamilyInv, NEW c \in CPU, AllocSkip(c)
  PROVE  FamilyInv'
  <1> DEFINE p == Cur(c)
  <1>1. /\ p \in Slots /\ thr[p] \in ThrType /\ thr \in [Slots -> ThrType]
        /\ proc \in [Slots -> ProcType]
        /\ thr[p].pc = "alloc" /\ thr[p].saved = "user"
    BY CurOn DEF AllocSkip
  <1>2. thr[p].idx = 0 \/ thr[p].pc \in Loops
    BY <1>1 DEF FamilyInv, IdxInv, IdxOK, Loops
  <1>3. /\ thr'[p].pc \in {"alloc", "trap_return"} /\ thr'[p].saved = "user"
        /\ thr'[p].idx = 0 \/ thr'[p].pc \in Loops
        /\ \A q \in Slots \ {p} : thr'[q] = thr[q]
    BY <1>1, <1>2 DEF AllocSkip, Goto, Return, At, AtWith, ThrType, Loops
  <1>4. Quiet(p)
    BY <1>1, <1>3 DEF AllocSkip, Quiet, Asleep, Alive, Awake, ProcType
  <1>5. QED
    BY <1>1, <1>3, <1>4, QuietFamily DEF Exiting, Orphaned, HasForked, IdxOK, Woke, Scanned, AboutToWakeInit

\* KillSkip() goes on with kill()'s loop, or returns.
LEMMA KillSkipFamily ==
  ASSUME IInv, FamilyInv, NEW c \in CPU, KillSkip(c)
  PROVE  FamilyInv'
  <1> DEFINE p == Cur(c)
  <1>1. /\ p \in Slots /\ thr[p] \in ThrType /\ thr \in [Slots -> ThrType]
        /\ proc \in [Slots -> ProcType]
        /\ thr[p].pc = "kill" /\ thr[p].saved = "user"
    BY CurOn DEF KillSkip
  <1>2. thr[p].idx = 0 \/ thr[p].pc \in Loops
    BY <1>1 DEF FamilyInv, IdxInv, IdxOK, Loops
  <1>3. /\ thr'[p].pc \in {"kill", "trap_return"} /\ thr'[p].saved = "user"
        /\ thr'[p].idx = 0 \/ thr'[p].pc \in Loops
        /\ \A q \in Slots \ {p} : thr'[q] = thr[q]
    BY <1>1, <1>2 DEF KillSkip, Goto, Return, At, AtWith, ThrType, Loops
  <1>4. Quiet(p)
    BY <1>1, <1>3 DEF KillSkip, Quiet, Asleep, Alive, Awake, ProcType
  <1>5. QED
    BY <1>1, <1>3, <1>4, QuietFamily DEF Exiting, Orphaned, HasForked, IdxOK, Woke, Scanned, AboutToWakeInit

\* KillHit() at most wakes a sleeper.
LEMMA KillHitFamily ==
  ASSUME IInv, FamilyInv, NEW c \in CPU, KillHit(c)
  PROVE  FamilyInv'
  <1> DEFINE p == Cur(c)
  <1>1. /\ p \in Slots /\ thr[p] \in ThrType /\ thr \in [Slots -> ThrType]
        /\ proc \in [Slots -> ProcType]
        /\ thr[p].pc = "kill" /\ thr[p].saved = "user"
    BY CurOn DEF KillHit
  <1>2. thr[p].idx = 0 \/ thr[p].pc \in Loops
    BY <1>1 DEF FamilyInv, IdxInv, IdxOK, Loops
  <1>3. /\ thr'[p].pc \in {"trap_return"} /\ thr'[p].saved = "user"
        /\ thr'[p].idx = 0 \/ thr'[p].pc \in Loops
        /\ \A q \in Slots \ {p} : thr'[q] = thr[q]
    BY <1>1, <1>2 DEF KillHit, Goto, Return, At, AtWith, ThrType, Loops
  <1>4. Quiet(p)
    BY <1>1, <1>3 DEF KillHit, Quiet, Asleep, Alive, Awake, ProcType
  <1>5. QED
    BY <1>1, <1>3, <1>4, QuietFamily DEF Exiting, Orphaned, HasForked, IdxOK, Woke, Scanned, AboutToWakeInit

\* A step of scheduler(), which moves no thread.
LEMMA StillFamily ==
  ASSUME IInv, FamilyInv, Quiet(initproc), thr' = thr
  PROVE  FamilyInv'
  <1>1. initproc \in Slots
    BY NPROCAssumption DEF Slots, initproc
  <1>2. QED
    BY <1>1, QuietFamily DEF FamilyInv, InitLives, IdxInv, IdxOK, WakeInv, Scanned, Woke, HasForked,
       AboutToWakeInit, Exiting, Orphaned

LEMMA SchedFamily ==
  ASSUME IInv, FamilyInv, NEW c \in CPU, SchedStep(c)
  PROVE  FamilyInv'
  <1>1. CASE SchedSkip(c)
    BY <1>1, StillFamily DEF SchedSkip, Quiet, Asleep
  <1>2. CASE SchedRun(c)
    <2> DEFINE p == cpu[c].p
    <2>1. p \in Slots /\ proc \in [Slots -> ProcType]
      BY DEF IInv, TypeOK, CPUType
    <2>2. Quiet(initproc) /\ thr' = thr
      BY <1>2, <2>1 DEF SchedRun, Runnable, Quiet, Asleep, Alive, ProcType
    <2>3. QED
      BY <2>2, StillFamily
  <1>3. CASE SchedBack(c)
    <2>1. Cur(c) \in Slots /\ proc \in [Slots -> ProcType]
      BY <1>3, CurIsSlot DEF SchedBack, IInv, TypeOK
    <2>2. Quiet(initproc) /\ thr' = thr
      BY <1>3, <2>1 DEF SchedBack, Quiet, Asleep, Alive, ProcType
    <2>3. QED
      BY <2>2, StillFamily
  <1>4. QED
    BY <1>1, <1>2, <1>3 DEF SchedStep

\* Resume() takes the thread back to where it gave up the CPU.
LEMMA ResumeFamily ==
  ASSUME IInv, FamilyInv, NEW c \in CPU, Resume(c)
  PROVE  FamilyInv'
  <1> DEFINE p == Cur(c)
  <1>1. /\ p \in Slots /\ thr[p] \in ThrType /\ thr \in [Slots -> ThrType]
        /\ proc \in [Slots -> ProcType]
        /\ thr[p].pc \in {"forkret", "yielded", "slept"}
        /\ thr[p].pc # "yielded" => thr[p].saved = "user"
        /\ proc[p].state = "RUNNING"
    BY CurOn DEF Resume, IInv, CPUInv
  <1>2. thr[p].idx = 0 \/ thr[p].saved \in Loops
    BY <1>1 DEF FamilyInv, IdxInv, IdxOK, Loops
  <1>3. /\ thr'[p].pc \in Preemptible \cup {"wait", "user"} /\ thr'[p].saved = "user"
        /\ thr'[p].pc = "fork_runnable" => thr[p].saved = "fork_runnable"
        /\ thr'[p].arg = thr[p].arg
        /\ thr'[p].idx = 0 \/ thr'[p].pc \in Loops
        /\ \A q \in Slots \ {p} : thr'[q] = thr[q]
    BY <1>1, <1>2 DEF Resume, On, Goto, ThrType, Loops
  <1>4. Quiet(p)
    BY <1>1, <1>3 DEF Resume, Quiet, Asleep, Alive, ProcType
  <1>5. QED
    BY <1>1, <1>3, <1>4, QuietFamily
    DEF Exiting, Orphaned, HasForked, IdxOK, Woke, Scanned, AboutToWakeInit, Preemptible

\* TimerYield() leaves the thread where it was preempted.
LEMMA TimerYieldFamily ==
  ASSUME IInv, FamilyInv, NEW c \in CPU, TimerYield(c)
  PROVE  FamilyInv'
  <1> DEFINE p == Cur(c)
  <1>1. /\ p \in Slots /\ thr[p] \in ThrType /\ thr \in [Slots -> ThrType]
        /\ proc \in [Slots -> ProcType]
        /\ thr[p].pc \in Preemptible
        /\ proc[p].state = "RUNNING"
    BY CurIsSlot DEF TimerYield, IInv, TypeOK, CPUInv
  <1>2. thr[p].idx = 0 \/ thr[p].pc \in Loops
    <2>1. thr[p].saved = "user"
      BY <1>1 DEF IInv, PlaceInv, Preemptible
    <2>2. QED
      BY <1>1, <2>1 DEF FamilyInv, IdxInv, IdxOK, Loops
  <1>3. /\ thr'[p].pc = "yielded" /\ thr'[p].saved = thr[p].pc
        /\ thr'[p].arg = thr[p].arg /\ thr'[p].idx = thr[p].idx
        /\ \A q \in Slots \ {p} : thr'[q] = thr[q]
    BY <1>1 DEF TimerYield, ThrType
  <1>4. Quiet(p)
    BY <1>1, <1>3 DEF TimerYield, Quiet, Asleep, Alive, ProcType
  <1>5. QED
    BY <1>1, <1>2, <1>3, <1>4, QuietFamily
    DEF Exiting, Orphaned, HasForked, IdxOK, Woke, Scanned, AboutToWakeInit, Preemptible

\* ExitLock() starts the hand-over of the children, or is init's panic.
LEMMA ExitLockFamily ==
  ASSUME IInv, FamilyInv, NEW c \in CPU, ExitLock(c)
  PROVE  FamilyInv'
  <1> DEFINE p == Cur(c)
  <1>1. /\ p \in Slots /\ thr \in [Slots -> ThrType] /\ thr[p] \in ThrType
        /\ thr[p].pc = "exit" /\ thr[p].saved = "user"
    BY CurOn DEF ExitLock
  <1>2. thr[p].idx = 0
    BY <1>1 DEF FamilyInv, IdxInv, IdxOK, Loops
  <1>3. /\ thr'[p].pc = IF p = initproc THEN "panic" ELSE "reparent"
        /\ thr'[p].idx = 0 /\ thr'[p].saved = "user"
        /\ \A q \in Slots \ {p} : thr'[q] = thr[q]
    BY <1>1, <1>2 DEF ExitLock, Goto, ThrType
  <1>4. Quiet(p)
    BY <1>1, <1>3 DEF ExitLock, Quiet, Asleep
  <1>5. QED
    BY <1>1, <1>3, <1>4, QuietFamily
    DEF Exiting, Orphaned, HasForked, IdxOK, Woke, Scanned, AboutToWakeInit

\* WaitLock() starts a scan for zombies.
LEMMA WaitLockFamily ==
  ASSUME IInv, FamilyInv, NEW c \in CPU, WaitLock(c)
  PROVE  FamilyInv'
  <1> DEFINE p == Cur(c)
  <1>1. /\ p \in Slots /\ thr \in [Slots -> ThrType] /\ thr[p] \in ThrType
        /\ thr[p].pc = "wait" /\ thr[p].saved = "user"
    BY CurOn DEF WaitLock
  <1>2. thr[p].idx = 0
    BY <1>1 DEF FamilyInv, IdxInv, IdxOK, Loops
  <1>3. /\ thr'[p].pc = "scan" /\ thr'[p].idx = 0 /\ thr'[p].saved = "user"
        /\ \A q \in Slots \ {p} : thr'[q] = thr[q]
    BY <1>1, <1>2 DEF WaitLock, Goto, ThrType
  <1>4. Quiet(p)
    BY <1>1, <1>3 DEF WaitLock, Quiet, Asleep
  <1>5. \A q \in Slots : ~ (q < 0)
    BY DEF Slots
  <1>6. QED
    BY <1>1, <1>3, <1>4, <1>5, QuietFamily
    DEF Exiting, Orphaned, HasForked, IdxOK, Loops, Woke, Scanned, AboutToWakeInit

\* ScanAlive() passes one child, which is no zombie.
LEMMA ScanAliveFamily ==
  ASSUME IInv, FamilyInv, NEW c \in CPU, ScanAlive(c)
  PROVE  FamilyInv'
  <1> DEFINE p == Cur(c)
  <1>1. /\ p \in Slots /\ thr \in [Slots -> ThrType] /\ thr[p] \in ThrType
        /\ thr[p].pc = "scan" /\ thr[p].saved = "user"
    BY CurOn DEF ScanAlive
  <1>2. PICK i \in Slots : /\ IsNextChild(p, i)
                           /\ proc[i].state # "ZOMBIE"
                           /\ thr' = [thr EXCEPT ![p].idx = i + 1]
    BY DEF ScanAlive
  <1>3. /\ thr'[p].pc = "scan" /\ thr'[p].idx = i + 1 /\ thr'[p].saved = "user"
        /\ \A q \in Slots \ {p} : thr'[q] = thr[q]
    BY <1>1, <1>2 DEF ThrType
  <1>4. Quiet(p)
    BY <1>1, <1>3 DEF ScanAlive, Quiet, Asleep
  <1>5. ASSUME NEW q \in Slots, q < i + 1, proc[q].parent = p
        PROVE  proc[q].state # "ZOMBIE"
    <2>1. CASE q < thr[p].idx
      BY <1>1, <1>5, <2>1 DEF FamilyInv, WakeInv, Scanned
    <2>2. CASE ~ (q < thr[p].idx)
      BY <1>1, <1>2, <1>5, <2>2 DEF IsNextChild, Children, Slots, ThrType
    <2>3. QED
      BY <2>1, <2>2
  <1>6. QED
    BY <1>1, <1>3, <1>4, <1>5, QuietFamily
    DEF Exiting, Orphaned, HasForked, IdxOK, Loops, Woke, Scanned, AboutToWakeInit

\* WaitDecide() goes to sleep only when it has seen every child.
LEMMA WaitDecideFamily ==
  ASSUME IInv, FamilyInv, NEW c \in CPU, WaitDecide(c)
  PROVE  FamilyInv'
  <1> DEFINE p == Cur(c)
  <1>1. /\ p \in Slots /\ thr \in [Slots -> ThrType] /\ thr[p] \in ThrType
        /\ thr[p].pc = "scan" /\ thr[p].saved = "user"
    BY CurOn DEF WaitDecide
  <1>2. /\ thr'[p].pc \in {"sleep", "trap_return"} /\ thr'[p].idx = 0 /\ thr'[p].saved = "user"
        /\ \A q \in Slots \ {p} : thr'[q] = thr[q]
    BY <1>1 DEF WaitDecide, Return, At, AtWith
  <1>3. Quiet(p)
    BY <1>1, <1>2 DEF WaitDecide, Quiet, Asleep
  <1>4. ASSUME NEW q \in Slots, proc[q].parent = p
        PROVE  proc[q].state # "ZOMBIE"
    BY <1>1, <1>4 DEF WaitDecide, Children, FamilyInv, WakeInv, Scanned
  <1>5. QED
    BY <1>1, <1>2, <1>3, <1>4, QuietFamily
    DEF Exiting, Orphaned, HasForked, IdxOK, Loops, Woke, Scanned, AboutToWakeInit

\* SleepLock() only adds p->lock.
LEMMA SleepLockFamily ==
  ASSUME IInv, FamilyInv, NEW c \in CPU, SleepLock(c)
  PROVE  FamilyInv'
  <1> DEFINE p == Cur(c)
  <1>1. /\ p \in Slots /\ thr \in [Slots -> ThrType] /\ thr[p] \in ThrType
        /\ proc \in [Slots -> ProcType]
        /\ thr[p].pc = "sleep" /\ thr[p].saved = "user"
    BY CurOn DEF SleepLock
  <1>2. thr[p].idx = 0
    BY <1>1 DEF FamilyInv, IdxInv, IdxOK, Loops
  <1>3. /\ thr'[p].pc = "sleep_switch" /\ thr'[p].idx = 0 /\ thr'[p].saved = "user"
        /\ \A q \in Slots \ {p} : thr'[q] = thr[q]
    BY <1>1, <1>2 DEF SleepLock, Goto, ThrType
  <1>4. Quiet(p)
    BY <1>1, <1>3 DEF SleepLock, Quiet, Asleep, ProcType
  <1>5. ASSUME NEW q \in Slots, proc[q].parent = p
        PROVE  proc[q].state # "ZOMBIE"
    BY <1>1, <1>5 DEF FamilyInv, WakeInv, Scanned
  <1>6. QED
    BY <1>1, <1>3, <1>4, <1>5, QuietFamily
    DEF Exiting, Orphaned, HasForked, IdxOK, Loops, Woke, Scanned, AboutToWakeInit

\* wakeup() changes no parent, puts nobody to sleep, and passes a slot only when
\* nobody sleeps there on ch.
LEMMA WakeupQuiet ==
  ASSUME IInv, NEW p \in Slots, NEW ch, NEW l \in Labels, Wakeup(p, ch, l), thr[p].saved = "user"
  PROVE  /\ Quiet(p)
         /\ thr'[p].saved = "user" /\ thr[p].idx \in 0 .. NPROC
         /\ \/ thr[p].idx = NPROC /\ thr'[p] = At(l)
            \/ /\ thr[p].idx < NPROC /\ thr'[p].idx = thr[p].idx + 1 /\ thr'[p].pc = thr[p].pc
               /\ thr[p].idx # p => ~ (/\ proc'[thr[p].idx].state = "SLEEPING"
                                       /\ proc'[thr[p].idx].chan = ch)
  <1> DEFINE w == thr[p].idx
  <1>0. thr \in [Slots -> ThrType] /\ proc \in [Slots -> ProcType] /\ thr[p] \in ThrType /\ w \in 0 .. NPROC
    BY DEF IInv, TypeOK, ThrType
  <1>1. CASE w = NPROC /\ thr' = [thr EXCEPT ![p] = At(l)] /\ UNCHANGED proc
    <2>1. thr'[p] = At(l) /\ \A q \in Slots \ {p} : thr'[q] = thr[q]
      BY <1>0, <1>1
    <2>2. QED
      BY <1>0, <1>1, <2>1 DEF At, AtWith, Quiet, Asleep
  <1>2. CASE w < NPROC /\ w \in Slots /\ thr' = [thr EXCEPT ![p].idx = w + 1]
             /\ proc' = [proc EXCEPT ![w].state =
                           IF w # p /\ @ = "SLEEPING" /\ proc[w].chan = ch
                           THEN "RUNNABLE" ELSE @]
    <2>1. /\ thr'[p].idx = w + 1 /\ thr'[p].pc = thr[p].pc /\ thr'[p].saved = "user"
          /\ \A q \in Slots \ {p} : thr'[q] = thr[q]
      BY <1>0, <1>2 DEF ThrType
    <2>2. Quiet(p)
      BY <1>0, <1>2, <2>1 DEF Quiet, Asleep, Alive, ProcType
    <2>3. w # p => ~ (proc'[w].state = "SLEEPING" /\ proc'[w].chan = ch)
      BY <1>0, <1>2 DEF ProcType
    <2>4. QED
      BY <1>0, <1>2, <2>1, <2>2, <2>3
  <1>3. QED
    BY <1>0, <1>1, <1>2, NPROCAssumption DEF Wakeup, Slots

\* The exiting process wakes init after each child that it hands over.
LEMMA ReparentWakeupFamily ==
  ASSUME IInv, FamilyInv, NEW c \in CPU, NEW p \in Slots, p = Cur(c), ReparentWakeup(c)
  PROVE  FamilyInv'
  <1>1. thr[p].pc = "reparent_wakeup" /\ thr[p].saved = "user"
    BY CurOn DEF ReparentWakeup
  <1>2. p # initproc
    BY <1>1 DEF FamilyInv, InitLives, Exiting
  <1>3. /\ Quiet(p)
        /\ thr'[p].saved = "user" /\ thr[p].idx \in 0 .. NPROC
        /\ \/ thr[p].idx = NPROC /\ thr'[p] = At("reparent")
           \/ /\ thr[p].idx < NPROC /\ thr'[p].idx = thr[p].idx + 1 /\ thr'[p].pc = thr[p].pc
              /\ thr[p].idx # p => ~ (/\ proc'[thr[p].idx].state = "SLEEPING"
                                      /\ proc'[thr[p].idx].chan = initproc)
    BY <1>1, WakeupQuiet DEF ReparentWakeup, Labels, InWaitLock
  <1>4. AboutToWakeInit(p) => ~ Asleep(initproc)'
    <2>1. SUFFICES ASSUME thr[p].idx = initproc PROVE ~ Asleep(initproc)'
      BY <1>3 DEF AboutToWakeInit, initproc
    <2>2. QED
      BY <1>2, <1>3, <2>1, NPROCAssumption DEF Asleep, initproc
  <1>5. thr'[p].pc \in {"reparent", "reparent_wakeup"} /\ IdxOK(p)'
    BY <1>1, <1>3 DEF At, AtWith, IdxOK, Loops
  <1>6. QED
    BY <1>1, <1>2, <1>3, <1>4, <1>5, QuietFamily DEF Exiting, Orphaned, HasForked, Woke, Scanned

\* The exiting process wakes its parent.
LEMMA WakeParentFamily ==
  ASSUME IInv, FamilyInv, NEW c \in CPU, NEW p \in Slots, p = Cur(c),
         NEW pp, pp = proc[p].parent, WakeParent(c)
  PROVE  FamilyInv'
  <1>1. thr[p].pc = "wake_parent" /\ thr[p].saved = "user"
    BY CurOn DEF WakeParent
  <1>2. p # initproc
    BY <1>1 DEF FamilyInv, InitLives, Exiting
  <1>3. pp \in Slots /\ pp # p
    <2>1. proc[p].state = "RUNNING" /\ pp \in Slots \cup {NoProc}
      BY <1>1, OneHolder DEF InWaitLock, IInv, TypeOK, ProcType
    <2>2. QED
      BY <1>1, <1>2, <2>1 DEF FamilyInv, ParentInv, Alive
  <1>4. /\ Quiet(p)
        /\ thr'[p].saved = "user" /\ thr[p].idx \in 0 .. NPROC
        /\ \/ thr[p].idx = NPROC /\ thr'[p] = At("zombie")
           \/ /\ thr[p].idx < NPROC /\ thr'[p].idx = thr[p].idx + 1 /\ thr'[p].pc = thr[p].pc
              /\ thr[p].idx # p => ~ (/\ proc'[thr[p].idx].state = "SLEEPING"
                                      /\ proc'[thr[p].idx].chan = pp)
    BY <1>1, WakeupQuiet DEF WakeParent, Labels, InWaitLock
  <1>5. Woke(p)' => ~ Asleep(pp)'
    <2>1. CASE thr[p].idx > pp
      BY <1>1, <1>3, <1>4, <2>1 DEF FamilyInv, WakeInv, Woke, Quiet
    <2>2. CASE thr[p].idx = pp
      BY <1>3, <1>4, <2>2 DEF Asleep, Slots
    <2>3. CASE thr[p].idx < pp
      <3>1. thr'[p].idx = thr[p].idx + 1 /\ thr'[p].pc = "wake_parent" /\ proc'[p].parent = pp
        BY <1>1, <1>3, <1>4, <2>3 DEF Slots, Quiet
      <3>2. QED
        BY <1>3, <1>4, <2>3, <3>1 DEF Woke, Slots
    <2>4. QED
      BY <1>3, <1>4, <2>1, <2>2, <2>3 DEF Slots
  <1>6. thr'[p].pc \in Orphaned /\ IdxOK(p)'
    BY <1>1, <1>4 DEF At, AtWith, IdxOK, Loops, Orphaned
  <1>7. \A q \in Slots : proc[q].parent # p
    BY <1>1, NPROCAssumption DEF FamilyInv, ParentInv, Orphaned, Slots, NoProc
  <1>8. Woke(p)' => ~ Asleep(proc[p].parent)'
    BY <1>4, <1>5 DEF Quiet, Asleep
  <1>9. thr'[p].saved = "user" /\ Quiet(p)
    BY <1>4
  <1>10. QED
    BY <1>1, <1>2, <1>6, <1>7, <1>8, <1>9, QuietFamily
    DEF Exiting, Orphaned, HasForked, Scanned, AboutToWakeInit

\* WakeInv across a step that ends nobody and puts nobody to sleep.
LEMMA WakeKept ==
  ASSUME IInv, FamilyInv,
         \A q \in Slots : Woke(q)' => Woke(q) /\ proc'[q].parent = proc[q].parent,
         \A q \in Slots : Asleep(q)' => Asleep(q),
         \A r, q \in Slots : Scanned(r, q)' /\ proc'[q].parent = r => Scanned(r, q) /\ proc[q].parent = r,
         \A q \in Slots : proc'[q].state = "ZOMBIE" =>
           proc[q].state = "ZOMBIE" /\ proc'[q].parent = proc[q].parent,
         \A r \in Slots : AboutToWakeInit(r) => AboutToWakeInit(r)'
  PROVE  WakeInv'
  <1>1. \A q \in Slots : proc[q].parent \in Slots \cup {NoProc}
    BY DEF IInv, TypeOK, ProcType
  <1>2. ASSUME NEW q \in Slots, Woke(q)' PROVE ~ Asleep(proc[q].parent)'
    <2>1. Woke(q) /\ ~ Asleep(proc[q].parent) /\ proc'[q].parent = proc[q].parent
      BY <1>2 DEF FamilyInv, WakeInv
    <2>2. PICK x \in Slots : x = proc[q].parent
      BY <1>1, <2>1, OneHolder
      DEF Woke, InWaitLock, FamilyInv, ParentInv, InitLives, Alive, Exiting
    <2>3. ~ Asleep(x)'
      BY <2>1, <2>2
    <2>4. QED
      BY <2>1, <2>2, <2>3 DEF Asleep
  <1>3. \A r, q \in Slots : Scanned(r, q)' /\ proc'[q].parent = r => proc'[q].state # "ZOMBIE"
    BY DEF FamilyInv, WakeInv
  <1>4. ASSUME NEW q \in Slots, proc'[q].state = "ZOMBIE", Asleep(proc[q].parent)'
        PROVE  proc'[q].parent = initproc /\ \E r \in Slots : AboutToWakeInit(r)'
    <2>1. proc[q].state = "ZOMBIE" /\ proc'[q].parent = proc[q].parent
      BY <1>4
    <2>2. PICK x \in Slots : x = proc[q].parent
      BY <1>1, <2>1 DEF FamilyInv, ParentInv, InitLives, Alive
    <2>3. Asleep(x)'
      BY <1>4, <2>1, <2>2 DEF Asleep
    <2>4. Asleep(proc[q].parent)
      BY <2>2, <2>3
    <2>5. QED
      BY <2>1, <2>4 DEF FamilyInv, WakeInv
  <1>5. QED
    BY <1>2, <1>3, <1>4 DEF WakeInv

\* What the three parts of an action's proof share.
LEMMA FamilyFacts ==
  ASSUME IInv, FamilyInv
  PROVE  /\ proc \in [Slots -> ProcType] /\ thr \in [Slots -> ThrType] /\ initproc \in Slots
         /\ \A q \in Slots : proc[q].parent \in Slots \cup {NoProc} /\ proc[q].state \in States
         /\ \A q \in Slots : q # NoProc
         /\ \A q \in Slots : HasForked(q) => /\ thr[q].arg \in Slots
                                             /\ proc[thr[q].arg].state = "USED"
                                             /\ proc[thr[q].arg].parent = q
         /\ \A q, r \in Slots : HasForked(q) /\ InFork(r) /\ thr[r].arg = thr[q].arg => r = q
  <1>1. proc \in [Slots -> ProcType] /\ thr \in [Slots -> ThrType]
    BY DEF IInv, TypeOK
  <1>2. initproc \in Slots /\ \A q \in Slots : q # NoProc
    BY NPROCAssumption DEF Slots, initproc, NoProc
  <1>3. \A q \in Slots : proc[q].parent \in Slots \cup {NoProc} /\ proc[q].state \in States
    BY <1>1 DEF ProcType
  <1>4. \A q \in Slots : HasForked(q) => InFork(q)
    BY DEF HasForked, InFork, ForkLabels
  <1>5. ForkInv /\ ParentInv
    BY DEF IInv, FamilyInv
  <1>6. \A q \in Slots : HasForked(q) => /\ thr[q].arg \in Slots
                                         /\ proc[thr[q].arg].state = "USED"
                                         /\ proc[thr[q].arg].parent = q
    BY <1>4, <1>5 DEF ForkInv, ParentInv
  <1>7. \A q, r \in Slots : HasForked(q) /\ InFork(r) /\ thr[r].arg = thr[q].arg => r = q
    BY <1>4, <1>5 DEF ForkInv
  <1>8. QED
    BY <1>1, <1>2, <1>3, <1>6, <1>7

\* allocproc() takes a slot that is nobody's child and nobody's parent.
LEMMA AllocFamily ==
  ASSUME IInv, FamilyInv, NEW c \in CPU, NEW p \in Slots, p = Cur(c), Alloc(c)
  PROVE  FamilyInv'
  <1>0. InitLives /\ ParentInv /\ IdxInv /\ WakeInv
    BY DEF FamilyInv
  <1>1. /\ thr[p].pc = "alloc" /\ thr[p].saved = "user" /\ thr[p] \in ThrType
        /\ proc[p].state = "RUNNING"
    BY CurOn DEF Alloc, IInv, CPUInv
  <1>2. PICK np \in Slots : np = thr[p].idx /\ proc[np].state = "UNUSED" /\ np # p
    BY <1>1, NPROCAssumption DEF Alloc, ThrType, Slots
  <1>3. thr[np].pc = "unused" /\ np # initproc
    BY <1>0, <1>2 DEF IInv, PlaceInv, InitLives, Alive
  <1>4. /\ \A q \in Slots \ {np} : proc'[q] = proc[q]
        /\ proc'[np].state = "USED" /\ proc'[np].parent = proc[np].parent
    BY <1>2, FamilyFacts DEF Alloc, allocproc, ProcType
  <1>5. /\ thr'[p].pc = "fork_parent" /\ thr'[p].saved = "user" /\ thr'[p].idx = 0
        /\ thr'[np].pc = "forkret" /\ thr'[np].saved = "user" /\ thr'[np].idx = 0
        /\ \A q \in Slots \ {p, np} : thr'[q] = thr[q]
    BY <1>2, FamilyFacts DEF Alloc, At, AtWith
  <1>6. InitLives'
    BY <1>0, <1>2, <1>3, <1>4, <1>5, FamilyFacts DEF InitLives, Exiting
  <1>7. ParentInv'
    <2>1. \A q \in Slots : proc[q].parent # np
      BY <1>0, <1>2, FamilyFacts DEF ParentInv, Alive
    <2>2. \A q \in Slots : HasForked(q)' => HasForked(q) /\ thr'[q] = thr[q]
      BY <1>5 DEF HasForked
    <2>3. \A q \in Slots : proc'[q].parent = proc[q].parent
      BY <1>4
    <2>4. \A q \in Slots : HasForked(q)' => proc'[thr'[q].arg].parent = q
      BY <2>2, <2>3, FamilyFacts
    <2>5. \A q \in Slots : proc'[q].parent # NoProc =>
            /\ proc'[q].parent # q
            /\ proc'[proc'[q].parent].state \in Alive
            /\ thr'[proc'[q].parent].pc \notin Orphaned
      BY <1>0, <1>4, <1>5, <2>1, <2>3, FamilyFacts DEF ParentInv, Orphaned
    <2>6. \A q \in Slots \ {initproc} :
            proc'[q].state \in Alive \cup {"ZOMBIE"} => proc'[q].parent # NoProc
      BY <1>0, <1>4 DEF ParentInv, Alive
    <2>7. QED
      BY <2>4, <2>5, <2>6 DEF ParentInv
  <1>8. IdxInv'
    BY <1>0, <1>5 DEF IdxInv, IdxOK
  <1>9. WakeInv'
    <2>1. \A q \in Slots : Woke(q)' => Woke(q) /\ proc'[q].parent = proc[q].parent
      BY <1>4, <1>5 DEF Woke
    <2>2. \A q \in Slots : Asleep(q)' => Asleep(q)
      BY <1>4 DEF Asleep
    <2>3. \A r, q \in Slots : Scanned(r, q)' /\ proc'[q].parent = r => Scanned(r, q) /\ proc[q].parent = r
      BY <1>4, <1>5 DEF Scanned
    <2>4. \A q \in Slots : proc'[q].state = "ZOMBIE" =>
            proc[q].state = "ZOMBIE" /\ proc'[q].parent = proc[q].parent
      BY <1>4
    <2>5. \A r \in Slots : AboutToWakeInit(r) => AboutToWakeInit(r)'
      BY <1>1, <1>3, <1>5 DEF AboutToWakeInit
    <2>6. QED
      BY <2>1, <2>2, <2>3, <2>4, <2>5, WakeKept
  <1>10. QED
    BY <1>6, <1>7, <1>8, <1>9 DEF FamilyInv

\* A fork() without memory gives the slot back as it was.
LEMMA AllocNoMemoryFamily ==
  ASSUME IInv, FamilyInv, NEW c \in CPU, NEW p \in Slots, p = Cur(c), AllocNoMemory(c)
  PROVE  FamilyInv'
  <1>0. InitLives /\ ParentInv /\ IdxInv /\ WakeInv
    BY DEF FamilyInv
  <1>1. /\ thr[p].pc = "alloc" /\ thr[p].saved = "user" /\ thr[p] \in ThrType
        /\ proc[p].state = "RUNNING"
    BY CurOn DEF AllocNoMemory, IInv, CPUInv
  <1>2. PICK np \in Slots : np = thr[p].idx /\ proc[np].state = "UNUSED" /\ np # p
    BY <1>1, NPROCAssumption DEF AllocNoMemory, ThrType, Slots
  <1>3. np # initproc
    BY <1>0, <1>2 DEF InitLives, Alive
  <1>4. /\ \A q \in Slots \ {np} : proc'[q] = proc[q]
        /\ proc'[np].state = "UNUSED" /\ proc'[np].parent = NoProc
    BY <1>2, FamilyFacts DEF AllocNoMemory, freeproc, FreeSlot
  <1>5. /\ thr'[p].pc = "trap_return" /\ thr'[p].saved = "user" /\ thr'[p].idx = 0
        /\ \A q \in Slots \ {p} : thr'[q] = thr[q]
    BY FamilyFacts DEF AllocNoMemory, Return, At, AtWith
  <1>6. InitLives'
    BY <1>0, <1>3, <1>4, <1>5, FamilyFacts DEF InitLives, Exiting
  <1>7. ParentInv'
    <2>1. \A q \in Slots : proc[q].parent # np
      BY <1>0, <1>2, FamilyFacts DEF ParentInv, Alive
    <2>2. \A q \in Slots : HasForked(q)' => HasForked(q) /\ thr'[q] = thr[q]
      BY <1>5 DEF HasForked
    <2>3. \A q \in Slots : HasForked(q)' => proc'[thr'[q].arg].parent = q
      BY <1>2, <1>4, <2>2, FamilyFacts
    <2>4. \A q \in Slots : proc'[q].parent # NoProc =>
            /\ proc'[q].parent # q
            /\ proc'[proc'[q].parent].state \in Alive
            /\ thr'[proc'[q].parent].pc \notin Orphaned
      BY <1>0, <1>4, <1>5, <2>1, FamilyFacts DEF ParentInv, Orphaned
    <2>5. \A q \in Slots \ {initproc} :
            proc'[q].state \in Alive \cup {"ZOMBIE"} => proc'[q].parent # NoProc
      BY <1>0, <1>4 DEF ParentInv, Alive
    <2>6. QED
      BY <2>3, <2>4, <2>5 DEF ParentInv
  <1>8. IdxInv'
    BY <1>0, <1>5 DEF IdxInv, IdxOK
  <1>9. WakeInv'
    <2>1. \A q \in Slots : Woke(q)' => Woke(q) /\ proc'[q].parent = proc[q].parent
      <3>1. thr[np].pc = "unused"
        BY <1>2 DEF IInv, PlaceInv
      <3>2. QED
        BY <1>2, <1>4, <1>5, <3>1 DEF Woke
    <2>2. \A q \in Slots : Asleep(q)' => Asleep(q)
      BY <1>4 DEF Asleep
    <2>3. \A r, q \in Slots : Scanned(r, q)' /\ proc'[q].parent = r => Scanned(r, q) /\ proc[q].parent = r
      BY <1>4, <1>5, FamilyFacts DEF Scanned
    <2>4. \A q \in Slots : proc'[q].state = "ZOMBIE" =>
            proc[q].state = "ZOMBIE" /\ proc'[q].parent = proc[q].parent
      BY <1>4
    <2>5. \A r \in Slots : AboutToWakeInit(r) => AboutToWakeInit(r)'
      BY <1>1, <1>5 DEF AboutToWakeInit
    <2>6. QED
      BY <2>1, <2>2, <2>3, <2>4, <2>5, WakeKept
  <1>10. QED
    BY <1>6, <1>7, <1>8, <1>9 DEF FamilyInv

\* fork() becomes the parent of the slot it has taken, while nobody looks for children.
LEMMA ForkParentFamily ==
  ASSUME IInv, FamilyInv, NEW c \in CPU, NEW p \in Slots, p = Cur(c), ForkParent(c)
  PROVE  FamilyInv'
  <1>0. InitLives /\ ParentInv /\ IdxInv /\ WakeInv
    BY DEF FamilyInv
  <1>1. /\ thr[p].pc = "fork_parent" /\ thr[p].saved = "user" /\ thr[p] \in ThrType
        /\ proc[p].state = "RUNNING" /\ InFork(p) /\ wait_lock = NoCPU
    BY CurOn DEF ForkParent, IInv, CPUInv, InFork, ForkLabels
  <1>2. PICK np \in Slots : np = thr[p].arg /\ proc[np].state = "USED" /\ np # p
    BY <1>1 DEF IInv, ForkInv
  <1>3. np # initproc /\ thr[p].idx = 0
    BY <1>0, <1>1, <1>2 DEF InitLives, Alive, IdxInv, IdxOK, Loops
  <1>4. /\ \A q \in Slots \ {np} : proc'[q] = proc[q]
        /\ proc'[np].state = "USED" /\ proc'[np].parent = p
    BY <1>2, FamilyFacts DEF ForkParent, ProcType
  <1>5. /\ thr'[p].pc = "fork_runnable" /\ thr'[p].saved = "user" /\ thr'[p].idx = 0 /\ thr'[p].arg = np
        /\ \A q \in Slots \ {p} : thr'[q] = thr[q]
    BY <1>1, <1>2, <1>3, FamilyFacts DEF ForkParent, Goto, ThrType
  <1>6. InitLives'
    BY <1>0, <1>3, <1>4, <1>5, FamilyFacts DEF InitLives, Exiting
  <1>7. ParentInv'
    <2>1. \A q \in Slots : proc[q].parent # np
      BY <1>0, <1>2, FamilyFacts DEF ParentInv, Alive
    <2>2. \A q \in Slots \ {p} : HasForked(q)' => HasForked(q) /\ thr'[q].arg = thr[q].arg /\ thr[q].arg # np
      BY <1>1, <1>2, <1>5, FamilyFacts DEF HasForked
    <2>3. \A q \in Slots : HasForked(q)' => proc'[thr'[q].arg].parent = q
      BY <1>4, <1>5, <2>2, FamilyFacts
    <2>4. \A q \in Slots : proc'[q].parent # NoProc =>
            /\ proc'[q].parent # q
            /\ proc'[proc'[q].parent].state \in Alive
            /\ thr'[proc'[q].parent].pc \notin Orphaned
      BY <1>0, <1>1, <1>2, <1>4, <1>5, <2>1, FamilyFacts DEF ParentInv, Orphaned, Alive
    <2>5. \A q \in Slots \ {initproc} :
            proc'[q].state \in Alive \cup {"ZOMBIE"} => proc'[q].parent # NoProc
      BY <1>0, <1>4 DEF ParentInv, Alive
    <2>6. QED
      BY <2>3, <2>4, <2>5 DEF ParentInv
  <1>8. IdxInv'
    BY <1>0, <1>5 DEF IdxInv, IdxOK
  <1>9. WakeInv'
    <2>0. \A q \in Slots : thr[q].pc \notin InWaitLock
      BY <1>1, OneHolder
    <2>1. \A q \in Slots : Woke(q)' => Woke(q) /\ proc'[q].parent = proc[q].parent
      BY <1>5, <2>0 DEF Woke, InWaitLock
    <2>2. \A q \in Slots : Asleep(q)' => Asleep(q)
      BY <1>4 DEF Asleep
    <2>3. \A r, q \in Slots : Scanned(r, q)' /\ proc'[q].parent = r => Scanned(r, q) /\ proc[q].parent = r
      BY <1>5, <2>0 DEF Scanned, InWaitLock
    <2>4. \A q \in Slots : proc'[q].state = "ZOMBIE" =>
            proc[q].state = "ZOMBIE" /\ proc'[q].parent = proc[q].parent
      BY <1>4
    <2>5. \A r \in Slots : AboutToWakeInit(r) => AboutToWakeInit(r)'
      BY <1>1, <1>5 DEF AboutToWakeInit
    <2>6. QED
      BY <2>1, <2>2, <2>3, <2>4, <2>5, WakeKept
  <1>10. QED
    BY <1>6, <1>7, <1>8, <1>9 DEF FamilyInv

\* fork() lets its child go, whose parent it is.
LEMMA ForkRunnableFamily ==
  ASSUME IInv, FamilyInv, NEW c \in CPU, NEW p \in Slots, p = Cur(c), ForkRunnable(c)
  PROVE  FamilyInv'
  <1>0. InitLives /\ ParentInv /\ IdxInv /\ WakeInv
    BY DEF FamilyInv
  <1>1. /\ thr[p].pc = "fork_runnable" /\ thr[p].saved = "user" /\ thr[p] \in ThrType
        /\ proc[p].state = "RUNNING" /\ HasForked(p)
    BY CurOn DEF ForkRunnable, IInv, CPUInv, HasForked
  <1>2. PICK np \in Slots : np = thr[p].arg /\ proc[np].state = "USED" /\ proc[np].parent = p /\ np # p
    BY <1>1, FamilyFacts
  <1>3. np # initproc
    BY <1>0, <1>2 DEF InitLives, Alive
  <1>4. /\ \A q \in Slots \ {np} : proc'[q] = proc[q]
        /\ proc'[np].state = "RUNNABLE" /\ proc'[np].parent = p
    BY <1>2, FamilyFacts DEF ForkRunnable, ProcType
  <1>5. /\ thr'[p].pc = "trap_return" /\ thr'[p].saved = "user" /\ thr'[p].idx = 0
        /\ \A q \in Slots \ {p} : thr'[q] = thr[q]
    BY FamilyFacts DEF ForkRunnable, Return, At, AtWith
  <1>6. InitLives'
    BY <1>0, <1>3, <1>4, <1>5, FamilyFacts DEF InitLives, Exiting
  <1>7. ParentInv'
    <2>1. \A q \in Slots : proc'[q].parent = proc[q].parent
      BY <1>2, <1>4
    <2>2. \A q \in Slots : HasForked(q)' => HasForked(q) /\ thr'[q] = thr[q]
      BY <1>5 DEF HasForked
    <2>3. \A q \in Slots : HasForked(q)' => proc'[thr'[q].arg].parent = q
      BY <2>1, <2>2, FamilyFacts
    <2>4. \A q \in Slots : proc'[q].parent # NoProc =>
            /\ proc'[q].parent # q
            /\ proc'[proc'[q].parent].state \in Alive
            /\ thr'[proc'[q].parent].pc \notin Orphaned
      BY <1>0, <1>4, <1>5, <2>1, FamilyFacts DEF ParentInv, Orphaned, Alive
    <2>5. \A q \in Slots \ {initproc} :
            proc'[q].state \in Alive \cup {"ZOMBIE"} => proc'[q].parent # NoProc
      BY <1>0, <1>2, <1>4, FamilyFacts DEF ParentInv, Alive
    <2>6. QED
      BY <2>3, <2>4, <2>5 DEF ParentInv
  <1>8. IdxInv'
    BY <1>0, <1>5 DEF IdxInv, IdxOK
  <1>9. WakeInv'
    <2>1. \A q \in Slots : Woke(q)' => Woke(q) /\ proc'[q].parent = proc[q].parent
      BY <1>2, <1>4, <1>5 DEF Woke
    <2>2. \A q \in Slots : Asleep(q)' => Asleep(q)
      BY <1>4 DEF Asleep
    <2>3. \A r, q \in Slots : Scanned(r, q)' /\ proc'[q].parent = r => Scanned(r, q) /\ proc[q].parent = r
      BY <1>2, <1>4, <1>5 DEF Scanned
    <2>4. \A q \in Slots : proc'[q].state = "ZOMBIE" =>
            proc[q].state = "ZOMBIE" /\ proc'[q].parent = proc[q].parent
      BY <1>4
    <2>5. \A r \in Slots : AboutToWakeInit(r) => AboutToWakeInit(r)'
      BY <1>1, <1>5 DEF AboutToWakeInit
    <2>6. QED
      BY <2>1, <2>2, <2>3, <2>4, <2>5, WakeKept
  <1>10. QED
    BY <1>6, <1>7, <1>8, <1>9 DEF FamilyInv

\* reparent() gives init a child, and goes on to wake init; after the last child the
\* process has none.
LEMMA ReparentFamily ==
  ASSUME IInv, FamilyInv, NEW c \in CPU, NEW p \in Slots, p = Cur(c), Reparent(c)
  PROVE  FamilyInv'
  <1>0. InitLives /\ ParentInv /\ IdxInv /\ WakeInv
    BY DEF FamilyInv
  <1>1. thr[p].pc = "reparent" /\ thr[p].saved = "user" /\ thr[p] \in ThrType
    BY CurOn DEF Reparent
  <1>2. thr[p].idx = 0 /\ p # initproc
    BY <1>0, <1>1 DEF IdxInv, IdxOK, Loops, InitLives, Exiting
  <1>3. \A q \in Slots : thr[q].pc \in InWaitLock => q = p
    BY <1>1, OneHolder DEF InWaitLock
  <1>4. CASE Children(p) = {} /\ Goto(p, "wake_parent") /\ UNCHANGED proc
    <2>1. /\ thr'[p].pc = "wake_parent" /\ thr'[p].saved = "user" /\ thr'[p].idx = 0
          /\ \A q \in Slots \ {p} : thr'[q] = thr[q]
      BY <1>1, <1>2, <1>4, FamilyFacts DEF Goto, ThrType
    <2>2. Quiet(p)
      BY <1>4, <2>1 DEF Quiet, Asleep
    <2>3. \A q \in Slots : proc[q].parent # p
      BY <1>4 DEF Children
    <2>4. proc[p].parent \in Slots
      BY <1>0, <1>1, <1>2, FamilyFacts, OneHolder DEF ParentInv, Alive, InWaitLock
    <2>5. ~ Woke(p)'
      BY <1>4, <2>1, <2>4 DEF Woke, Slots
    <2>6. QED
      BY <1>1, <1>2, <2>1, <2>2, <2>3, <2>5, QuietFamily
      DEF Exiting, Orphaned, HasForked, IdxOK, Loops, Scanned, AboutToWakeInit
  <1>5. ASSUME NEW i \in Children(p), proc' = [proc EXCEPT ![i].parent = initproc],
               Goto(p, "reparent_wakeup")
        PROVE  FamilyInv'
    <2>1. i \in Slots /\ proc[i].parent = p /\ i # initproc
      BY <1>0, <1>5, FamilyFacts DEF Children, InitLives
    <2>2. /\ \A q \in Slots \ {i} : proc'[q] = proc[q]
          /\ proc'[i].parent = initproc /\ proc'[i].state = proc[i].state /\ proc'[i].chan = proc[i].chan
      BY <1>5, <2>1, FamilyFacts DEF ProcType
    <2>3. /\ thr'[p].pc = "reparent_wakeup" /\ thr'[p].saved = "user" /\ thr'[p].idx = 0
          /\ \A q \in Slots \ {p} : thr'[q] = thr[q]
      BY <1>1, <1>2, <1>5, FamilyFacts DEF Goto, ThrType
    <2>4. InitLives'
      BY <1>0, <1>2, <2>1, <2>2, <2>3, FamilyFacts DEF InitLives
    <2>5. ParentInv'
      <3>1. \A q \in Slots : HasForked(q)' => HasForked(q) /\ thr'[q] = thr[q] /\ q # p
        BY <2>3 DEF HasForked
      <3>2. \A q \in Slots : HasForked(q)' => proc'[thr'[q].arg].parent = q
        BY <2>1, <2>2, <3>1, FamilyFacts
      <3>3. \A q \in Slots : proc'[q].parent # NoProc =>
              /\ proc'[q].parent # q
              /\ proc'[proc'[q].parent].state \in Alive
              /\ thr'[proc'[q].parent].pc \notin Orphaned
        <4>1. \A q \in Slots : proc'[q].state = proc[q].state
          BY <2>2
        <4>2. proc[initproc].state \in Alive /\ thr'[initproc].pc \notin Orphaned
          BY <1>0, <1>2, <2>3, FamilyFacts DEF InitLives, Exiting, Orphaned
        <4>3. QED
          BY <1>0, <2>1, <2>2, <2>3, <4>1, <4>2, FamilyFacts DEF ParentInv, Orphaned
      <3>4. \A q \in Slots \ {initproc} :
              proc'[q].state \in Alive \cup {"ZOMBIE"} => proc'[q].parent # NoProc
        BY <1>0, <2>2, FamilyFacts DEF ParentInv
      <3>5. QED
        BY <3>2, <3>3, <3>4 DEF ParentInv
    <2>6. IdxInv'
      BY <1>0, <2>3 DEF IdxInv, IdxOK, Loops
    <2>7. WakeInv'
      <3>1. \A q \in Slots : ~ Woke(q)'
        BY <1>3, <2>3 DEF Woke, InWaitLock
      <3>2. \A r, q \in Slots : ~ Scanned(r, q)'
        BY <1>3, <2>3 DEF Scanned, InWaitLock
      <3>3. AboutToWakeInit(p)'
        BY <2>3 DEF AboutToWakeInit, initproc
      <3>4. ASSUME NEW q \in Slots, proc'[q].state = "ZOMBIE", Asleep(proc[q].parent)'
            PROVE  proc'[q].parent = initproc
        <4>1. CASE q = i
          BY <2>2, <4>1
        <4>2. CASE q # i
          <5>1. PICK x \in Slots : x = proc[q].parent /\ proc'[q].parent = x
            BY <1>0, <2>2, <3>4, <4>2, FamilyFacts DEF ParentInv, InitLives, Alive
          <5>2. Asleep(x)
            BY <2>2, <3>4, <5>1 DEF Asleep
          <5>3. QED
            BY <1>0, <2>2, <3>4, <4>2, <5>1, <5>2 DEF WakeInv
        <4>3. QED
          BY <4>1, <4>2
      <3>5. QED
        BY <3>1, <3>2, <3>3, <3>4 DEF WakeInv
    <2>8. QED
      BY <2>4, <2>5, <2>6, <2>7 DEF FamilyInv
  <1>6. QED
    BY <1>4, <1>5 DEF Reparent

\* Who becomes a ZOMBIE has woken its parent, which cannot sleep before wait_lock is free.
LEMMA ExitZombieFamily ==
  ASSUME IInv, FamilyInv, NEW c \in CPU, NEW p \in Slots, p = Cur(c), ExitZombie(c)
  PROVE  FamilyInv'
  <1>0. InitLives /\ ParentInv /\ IdxInv /\ WakeInv
    BY DEF FamilyInv
  <1>1. thr[p].pc = "zombie" /\ thr[p].saved = "user" /\ thr[p] \in ThrType /\ proc[p].state = "RUNNING"
    BY CurOn DEF ExitZombie, IInv, CPUInv
  <1>2. thr[p].idx = 0 /\ p # initproc
    BY <1>0, <1>1 DEF IdxInv, IdxOK, Loops, InitLives, Exiting
  <1>3. \A q \in Slots : thr[q].pc \in InWaitLock => q = p
    BY <1>1, OneHolder DEF InWaitLock
  <1>4. /\ \A q \in Slots \ {p} : proc'[q] = proc[q]
        /\ proc'[p].state = "ZOMBIE" /\ proc'[p].parent = proc[p].parent
    BY FamilyFacts DEF ExitZombie, ProcType
  <1>5. /\ thr'[p].pc = "dead" /\ thr'[p].saved = "user" /\ thr'[p].idx = 0
        /\ \A q \in Slots \ {p} : thr'[q] = thr[q]
    BY <1>1, <1>2, FamilyFacts DEF ExitZombie, Sched, Goto, ThrType
  <1>6. \A q \in Slots : proc[q].parent # p
    BY <1>0, <1>1, FamilyFacts DEF ParentInv, Orphaned
  <1>7. InitLives'
    BY <1>0, <1>2, <1>4, <1>5, FamilyFacts DEF InitLives
  <1>8. ParentInv'
    <2>1. \A q \in Slots : proc'[q].parent = proc[q].parent
      BY <1>4
    <2>2. \A q \in Slots : HasForked(q)' => HasForked(q) /\ thr'[q] = thr[q]
      BY <1>5 DEF HasForked
    <2>3. \A q \in Slots : HasForked(q)' => proc'[thr'[q].arg].parent = q
      BY <2>1, <2>2, FamilyFacts
    <2>4. \A q \in Slots : proc'[q].parent # NoProc =>
            /\ proc'[q].parent # q
            /\ proc'[proc'[q].parent].state \in Alive
            /\ thr'[proc'[q].parent].pc \notin Orphaned
      BY <1>0, <1>4, <1>5, <1>6, <2>1, FamilyFacts DEF ParentInv, Orphaned
    <2>5. \A q \in Slots \ {initproc} :
            proc'[q].state \in Alive \cup {"ZOMBIE"} => proc'[q].parent # NoProc
      BY <1>0, <1>1, <1>4 DEF ParentInv, Alive
    <2>6. QED
      BY <2>3, <2>4, <2>5 DEF ParentInv
  <1>9. IdxInv'
    BY <1>0, <1>5 DEF IdxInv, IdxOK
  <1>10. WakeInv'
    <2>1. \A q \in Slots : ~ Woke(q)'
      BY <1>3, <1>5 DEF Woke, InWaitLock
    <2>2. \A r, q \in Slots : ~ Scanned(r, q)'
      BY <1>3, <1>5 DEF Scanned, InWaitLock
    <2>3. ASSUME NEW q \in Slots, proc'[q].state = "ZOMBIE", Asleep(proc[q].parent)'
          PROVE  proc'[q].parent = initproc /\ \E r \in Slots : AboutToWakeInit(r)'
      <3>1. PICK x \in Slots : x = proc[q].parent /\ proc'[q].parent = x
        BY <1>0, <1>1, <1>2, <1>4, <2>3, FamilyFacts DEF ParentInv, InitLives, Alive
      <3>2. Asleep(x)
        BY <1>4, <1>6, <2>3, <3>1 DEF Asleep
      <3>3. q # p
        BY <1>0, <1>1, <3>1, <3>2 DEF WakeInv, Woke
      <3>4. x = initproc /\ \E r \in Slots : AboutToWakeInit(r)
        BY <1>0, <1>4, <2>3, <3>1, <3>2, <3>3 DEF WakeInv
      <3>5. QED
        BY <1>1, <1>5, <3>1, <3>4 DEF AboutToWakeInit
    <2>4. QED
      BY <2>1, <2>2, <2>3 DEF WakeInv
  <1>11. QED
    BY <1>7, <1>8, <1>9, <1>10 DEF FamilyInv

\* A process goes to sleep in wait() only if it has no zombie.
LEMMA SleepSwitchFamily ==
  ASSUME IInv, FamilyInv, NEW c \in CPU, NEW p \in Slots, p = Cur(c), SleepSwitch(c)
  PROVE  FamilyInv'
  <1>0. InitLives /\ ParentInv /\ IdxInv /\ WakeInv
    BY DEF FamilyInv
  <1>1. thr[p].pc = "sleep_switch" /\ thr[p].saved = "user" /\ thr[p] \in ThrType /\ proc[p].state = "RUNNING"
    BY CurOn DEF SleepSwitch, IInv, CPUInv
  <1>2. thr[p].idx = 0
    BY <1>0, <1>1 DEF IdxInv, IdxOK, Loops
  <1>3. \A q \in Slots : thr[q].pc \in InWaitLock => q = p
    BY <1>1, OneHolder DEF InWaitLock
  <1>4. /\ \A q \in Slots \ {p} : proc'[q] = proc[q]
        /\ proc'[p].state = "SLEEPING" /\ proc'[p].parent = proc[p].parent
    BY FamilyFacts DEF SleepSwitch, ProcType
  <1>5. /\ thr'[p].pc = "slept" /\ thr'[p].saved = "user" /\ thr'[p].idx = 0
        /\ \A q \in Slots \ {p} : thr'[q] = thr[q]
    BY <1>1, <1>2, FamilyFacts DEF SleepSwitch, Sched, Goto, ThrType
  <1>6. \A q \in Slots : proc'[q].parent = proc[q].parent
    BY <1>4
  <1>7. InitLives'
    BY <1>0, <1>4, <1>5, <1>6, FamilyFacts DEF InitLives, Alive, Exiting
  <1>8. ParentInv'
    <2>1. \A q \in Slots : HasForked(q)' => HasForked(q) /\ thr'[q] = thr[q]
      BY <1>5 DEF HasForked
    <2>2. \A q \in Slots : HasForked(q)' => proc'[thr'[q].arg].parent = q
      BY <1>6, <2>1, FamilyFacts
    <2>3. \A q \in Slots : proc'[q].parent # NoProc =>
            /\ proc'[q].parent # q
            /\ proc'[proc'[q].parent].state \in Alive
            /\ thr'[proc'[q].parent].pc \notin Orphaned
      BY <1>0, <1>4, <1>5, <1>6, FamilyFacts DEF ParentInv, Orphaned, Alive
    <2>4. \A q \in Slots \ {initproc} :
            proc'[q].state \in Alive \cup {"ZOMBIE"} => proc'[q].parent # NoProc
      BY <1>0, <1>1, <1>4 DEF ParentInv, Alive
    <2>5. QED
      BY <2>2, <2>3, <2>4 DEF ParentInv
  <1>9. IdxInv'
    BY <1>0, <1>5 DEF IdxInv, IdxOK
  <1>10. WakeInv'
    <2>1. \A q \in Slots : ~ Woke(q)'
      BY <1>3, <1>5 DEF Woke, InWaitLock
    <2>2. \A r, q \in Slots : ~ Scanned(r, q)'
      BY <1>3, <1>5 DEF Scanned, InWaitLock
    <2>3. ASSUME NEW q \in Slots, proc'[q].state = "ZOMBIE", Asleep(proc[q].parent)'
          PROVE  proc'[q].parent = initproc /\ \E r \in Slots : AboutToWakeInit(r)'
      <3>1. PICK x \in Slots : x = proc[q].parent /\ proc'[q].parent = x
        BY <1>0, <1>1, <1>4, <1>6, <2>3, FamilyFacts DEF ParentInv, InitLives, Alive
      <3>2. x # p /\ proc[q].state = "ZOMBIE"
        BY <1>0, <1>1, <1>4, <2>3, <3>1 DEF WakeInv, Scanned
      <3>3. Asleep(x)
        BY <1>4, <2>3, <3>1, <3>2 DEF Asleep
      <3>4. x = initproc /\ \E r \in Slots : AboutToWakeInit(r)
        BY <1>0, <3>1, <3>2, <3>3 DEF WakeInv
      <3>5. QED
        BY <1>1, <1>5, <3>1, <3>4 DEF AboutToWakeInit
    <2>4. QED
      BY <2>1, <2>2, <2>3 DEF WakeInv
  <1>11. QED
    BY <1>7, <1>8, <1>9, <1>10 DEF FamilyInv

\* wait() frees a zombie, which is nobody's parent.
LEMMA ReapFamily ==
  ASSUME IInv, FamilyInv, NEW c \in CPU, NEW p \in Slots, p = Cur(c), Reap(c)
  PROVE  FamilyInv'
  <1>0. InitLives /\ ParentInv /\ IdxInv /\ WakeInv
    BY DEF FamilyInv
  <1>1. thr[p].pc = "scan" /\ thr[p].saved = "user" /\ thr[p] \in ThrType /\ proc[p].state = "RUNNING"
    BY CurOn DEF Reap, IInv, CPUInv
  <1>2. PICK i \in Slots :
          /\ proc[i].state = "ZOMBIE"
          /\ \/ /\ proc' = freeproc(i)
                /\ thr'  = [thr EXCEPT ![p] = At("trap_return"), ![i] = At("unused")]
             \/ UNCHANGED proc /\ Return(p)
    BY DEF Reap, Reapable
  <1>3. CASE UNCHANGED proc /\ Return(p)
    <2>1. /\ thr'[p].pc = "trap_return" /\ thr'[p].saved = "user" /\ thr'[p].idx = 0
          /\ \A q \in Slots \ {p} : thr'[q] = thr[q]
      BY <1>3, FamilyFacts DEF Return, At, AtWith
    <2>2. Quiet(p)
      BY <1>3, <2>1 DEF Quiet, Asleep
    <2>3. QED
      BY <1>1, <2>1, <2>2, QuietFamily
      DEF Exiting, Orphaned, HasForked, IdxOK, Woke, Scanned, AboutToWakeInit
  <1>4. CASE /\ proc' = freeproc(i)
             /\ thr'  = [thr EXCEPT ![p] = At("trap_return"), ![i] = At("unused")]
    <2>0. i # p /\ thr[i].pc = "dead" /\ i # initproc
      BY <1>0, <1>1, <1>2 DEF IInv, PlaceInv, InitLives, Alive
    <2>1. /\ \A q \in Slots \ {i} : proc'[q] = proc[q]
          /\ proc'[i].state = "UNUSED" /\ proc'[i].parent = NoProc
      BY <1>4, FamilyFacts DEF freeproc, FreeSlot
    <2>2. /\ thr'[p].pc = "trap_return" /\ thr'[p].saved = "user" /\ thr'[p].idx = 0
          /\ thr'[i].pc = "unused" /\ thr'[i].saved = "user" /\ thr'[i].idx = 0
          /\ \A q \in Slots \ {p, i} : thr'[q] = thr[q]
      BY <1>4, <2>0, FamilyFacts DEF At, AtWith
    <2>3. InitLives'
      BY <1>0, <2>0, <2>1, <2>2, FamilyFacts DEF InitLives, Exiting
    <2>4. ParentInv'
      <3>1. \A q \in Slots : proc[q].parent # i
        BY <1>0, <1>2, FamilyFacts DEF ParentInv, Alive
      <3>2. \A q \in Slots : HasForked(q)' => HasForked(q) /\ thr'[q] = thr[q]
        BY <2>2 DEF HasForked
      <3>3. \A q \in Slots : HasForked(q)' => proc'[thr'[q].arg].parent = q
        BY <1>2, <2>1, <3>2, FamilyFacts
      <3>4. \A q \in Slots : proc'[q].parent # NoProc =>
              /\ proc'[q].parent # q
              /\ proc'[proc'[q].parent].state \in Alive
              /\ thr'[proc'[q].parent].pc \notin Orphaned
        BY <1>0, <2>1, <2>2, <3>1, FamilyFacts DEF ParentInv, Orphaned
      <3>5. \A q \in Slots \ {initproc} :
              proc'[q].state \in Alive \cup {"ZOMBIE"} => proc'[q].parent # NoProc
        BY <1>0, <2>1 DEF ParentInv, Alive
      <3>6. QED
        BY <3>3, <3>4, <3>5 DEF ParentInv
    <2>5. IdxInv'
      BY <1>0, <2>2 DEF IdxInv, IdxOK
    <2>6. WakeInv'
      <3>1. \A q \in Slots : Woke(q)' => Woke(q) /\ proc'[q].parent = proc[q].parent
        BY <2>1, <2>2 DEF Woke
      <3>2. \A q \in Slots : Asleep(q)' => Asleep(q)
        BY <2>1 DEF Asleep
      <3>3. \A r, q \in Slots : Scanned(r, q)' /\ proc'[q].parent = r => Scanned(r, q) /\ proc[q].parent = r
        BY <2>1, <2>2, FamilyFacts DEF Scanned
      <3>4. \A q \in Slots : proc'[q].state = "ZOMBIE" =>
              proc[q].state = "ZOMBIE" /\ proc'[q].parent = proc[q].parent
        BY <2>1
      <3>5. \A r \in Slots : AboutToWakeInit(r) => AboutToWakeInit(r)'
        BY <1>1, <2>0, <2>2 DEF AboutToWakeInit
      <3>6. QED
        BY <3>1, <3>2, <3>3, <3>4, <3>5, WakeKept
    <2>7. QED
      BY <2>3, <2>4, <2>5, <2>6 DEF FamilyInv
  <1>5. QED
    BY <1>2, <1>3, <1>4

\* procinit() and userinit() establish the invariant.
LEMMA InitFamily == Init => FamilyInv
  <1> SUFFICES ASSUME Init PROVE FamilyInv
    OBVIOUS
  <1>1. \A q \in Slots : /\ proc[q].parent = NoProc
                         /\ proc[q].state = IF q = initproc THEN "RUNNABLE" ELSE "UNUSED"
                         /\ thr[q].pc \in {"forkret", "unused"}
                         /\ thr[q].saved = "user" /\ thr[q].idx = 0
    BY NPROCAssumption DEF Init, FreeSlot, At, AtWith, Slots, initproc
  <1>2. initproc \in Slots
    BY NPROCAssumption DEF Slots, initproc
  <1>3. InitLives
    BY <1>1, <1>2 DEF InitLives, Alive, Exiting
  <1>4. ParentInv
    BY <1>1 DEF ParentInv, Alive, HasForked
  <1>5. IdxInv /\ WakeInv
    BY <1>1 DEF IdxInv, IdxOK, WakeInv, Woke, Scanned
  <1>6. QED
    BY <1>3, <1>4, <1>5 DEF FamilyInv

\* What a thread does, it does on a CPU whose process is in the table.
LEMMA ThreadOfSlot ==
  ASSUME IInv, NEW c \in CPU, ThreadStep(c)
  PROVE  cpu[c].pc = "run" /\ Cur(c) \in Slots
  BY CurOn, CurIsSlot
  DEF ThreadStep, KernelStep, TimerStep, ForkStep, KillStep, ExitStep, WaitStep,
      Resume, Syscall, Fault, TimerKilled, TimerYield, TrapReturn, AllocSkip, Alloc,
      AllocNoMemory, ForkParent, ForkRunnable, KillSkip, KillHit, ExitLock, Reparent,
      ReparentWakeup, WakeParent, ExitZombie, WaitLock, ScanAlive, Reap, WaitDecide,
      SleepLock, SleepSwitch, IInv

\* Every step of every CPU preserves it.
LEMMA NextFamily == IInv /\ FamilyInv /\ [Next]_vars => FamilyInv'
  <1> SUFFICES ASSUME IInv, FamilyInv, [Next]_vars PROVE FamilyInv'
    OBVIOUS
  <1>1. CASE UNCHANGED vars
    BY <1>1, StillFamily DEF vars, Quiet, Asleep
  <1>2. ASSUME NEW c \in CPU, SchedStep(c) PROVE FamilyInv'
    BY <1>2, SchedFamily
  <1>3. ASSUME NEW c \in CPU, ThreadStep(c) PROVE FamilyInv'
    <2>1. PICK p \in Slots : p = Cur(c)
      BY <1>3, ThreadOfSlot
    <2>2. CASE TimerStep(c) \/ Resume(c) \/ Syscall(c) \/ Fault(c) \/ TrapReturn(c)
      BY <2>2, TimerKilledFamily, TimerYieldFamily, ResumeFamily, SyscallFamily, FaultFamily,
         TrapReturnFamily DEF TimerStep
    <2>3. CASE ForkStep(c)
      BY <2>1, <2>3, AllocSkipFamily, AllocFamily, AllocNoMemoryFamily, ForkParentFamily,
         ForkRunnableFamily DEF ForkStep
    <2>4. CASE KillStep(c)
      BY <2>4, KillSkipFamily, KillHitFamily DEF KillStep
    <2>5. CASE ExitStep(c)
      BY <2>1, <2>5, ExitLockFamily, ReparentFamily, ReparentWakeupFamily, WakeParentFamily,
         ExitZombieFamily DEF ExitStep
    <2>6. CASE WaitStep(c)
      BY <2>1, <2>6, WaitLockFamily, ScanAliveFamily, ReapFamily, WaitDecideFamily,
         SleepLockFamily, SleepSwitchFamily DEF WaitStep
    <2>7. QED
      BY <1>3, <2>2, <2>3, <2>4, <2>5, <2>6 DEF ThreadStep, KernelStep
  <1>4. QED
    BY <1>1, <1>2, <1>3 DEF Next

\* The invariant about parents and children holds in every reachable state.
THEOREM FamilyInvariance == Spec => []FamilyInv
  BY InitFamily, NextFamily, Invariance, PTL DEF Spec

\* Nobody loses its parent (proc.c, fork(), reparent(), exit()): whatever has started has
\* a parent that has not exited.
THEOREM ParentsLive == Spec => []LiveParent
  <1>1. IInv /\ FamilyInv => LiveParent
    <2> SUFFICES ASSUME IInv, FamilyInv, NEW q \in Slots \ {initproc},
                        proc[q].state \in {"SLEEPING", "RUNNABLE", "RUNNING", "ZOMBIE"}
                 PROVE  /\ proc[q].parent # NoProc
                        /\ proc[proc[q].parent].state \notin {"UNUSED", "USED", "ZOMBIE"}
      BY DEF LiveParent
    <2>1. QED
      BY DEF FamilyInv, ParentInv, Alive
  <1>2. QED
    BY <1>1, Invariance, FamilyInvariance, PTL

\* A parent does not sleep in wait() while it has a zombie child (proc.c, exit(), wait(),
\* sleep(), wakeup()), but for init until it is woken after the adoption of one.
THEOREM NoWakeupLost == Spec => []NoLostWakeup
  <1>1. IInv /\ FamilyInv => NoLostWakeup
    <2> SUFFICES ASSUME IInv, FamilyInv, NEW q \in Slots, NEW p, p = proc[q].parent,
                        proc[q].state = "ZOMBIE", p # NoProc, Asleep(p)
                 PROVE  /\ p = initproc
                        /\ \E c \in CPU : On(c, "reparent_wakeup") /\ thr[Cur(c)].idx <= p
      BY DEF NoLostWakeup, Asleep
    <2>1. p = initproc
      BY DEF FamilyInv, WakeInv
    <2>2. PICK r \in Slots : AboutToWakeInit(r)
      BY DEF FamilyInv, WakeInv
    <2>3. proc[r].state = "RUNNING"
      BY <2>2, OneHolder DEF AboutToWakeInit, InWaitLock
    <2>4. PICK c \in CPU : cpu[c].pc = "run" /\ Cur(c) = r
      BY <2>3 DEF IInv, CPUInv
    <2>5. QED
      BY <2>1, <2>2, <2>4 DEF On, AboutToWakeInit
  <1>2. QED
    BY <1>1, Invariance, FamilyInvariance, PTL

-----------------------------------------------------------------------------
(***************************************************************************)
(* Marks of kill().  A slot that is UNUSED has pid 0, so that no kill() of *)
(* another pid marks it.  On one CPU nobody is marked between wait()'s     *)
(* look at killed and its sleep().                                         *)
(***************************************************************************)
ToSleep == {"sleep", "sleep_switch"}
SingleCPU == \A c, d \in CPU : c = d

\* The thread has a pid to kill, which is one that sys_kill() is called with.
Kills(p) == thr[p].pc = "kill" \/ thr[p].saved = "kill"

MarkInv ==
  \A p \in Slots :
    /\ proc[p].state = "UNUSED" => proc[p].pid = 0
    /\ proc[p].state = "UNUSED" /\ 0 \notin KillPids => ~ proc[p].killed
    /\ Kills(p) => thr[p].arg \in KillPids
    /\ proc[p].killed /\ SingleCPU => proc[p].state # "SLEEPING" /\ thr[p].pc \notin ToSleep

\* A step of p's thread that marks nobody, frees no slot and goes no nearer to sleep.
Unmarking(p) ==
  /\ \A q \in Slots : /\ proc'[q].pid = proc[q].pid /\ (proc'[q].killed => proc[q].killed)
                      /\ proc'[q].state = "UNUSED" => proc[q].state = "UNUSED"
                      /\ proc'[q].state = "SLEEPING" =>
                           proc[q].state = "SLEEPING" \/ thr[q].pc \in ToSleep
  /\ \A q \in Slots \ {p} : thr'[q] = thr[q]
  /\ Kills(p)' => Kills(p) /\ thr'[p].arg = thr[p].arg
  /\ thr'[p].pc \in ToSleep => thr[p].pc \in ToSleep

LEMMA MarkKept ==
  ASSUME MarkInv, NEW p \in Slots, Unmarking(p)
  PROVE  MarkInv'
  <1>1. ASSUME NEW q \in Slots
        PROVE  /\ Kills(q)' => Kills(q) /\ thr'[q].arg = thr[q].arg
               /\ thr'[q].pc \in ToSleep => thr[q].pc \in ToSleep
    BY DEF Kills, Unmarking
  <1>2. ASSUME NEW q \in Slots
        PROVE  /\ proc'[q].state = "UNUSED" => proc'[q].pid = 0
               /\ proc'[q].state = "UNUSED" /\ 0 \notin KillPids => ~ proc'[q].killed
               /\ Kills(q)' => thr'[q].arg \in KillPids
    BY <1>1 DEF MarkInv, Unmarking
  <1>3. ASSUME NEW q \in Slots, proc'[q].killed, SingleCPU
        PROVE  proc'[q].state # "SLEEPING" /\ thr'[q].pc \notin ToSleep
    <2>1. proc[q].killed
      BY <1>3 DEF Unmarking
    <2>2. QED
      BY <1>1, <1>3, <2>1 DEF MarkInv, Unmarking
  <1>4. QED
    BY <1>2, <1>3 DEF MarkInv

\* Most steps of a thread are of this kind.
LEMMA KeepsMarks ==
  ASSUME IInv, MarkInv, NEW c \in CPU, NEW p \in Slots, p = Cur(c),
         \/ TrapReturn(c) \/ TimerKilled(c) \/ AllocSkip(c) \/ ForkParent(c)
         \/ ForkRunnable(c) \/ KillSkip(c) \/ ExitLock(c) \/ Reparent(c)
         \/ ExitZombie(c) \/ WaitLock(c) \/ ScanAlive(c) \/ SleepLock(c)
         \/ SleepSwitch(c) \/ ReparentWakeup(c) \/ WakeParent(c) \/ TimerYield(c)
         \/ Resume(c)
  PROVE  MarkInv'
  <1>0. /\ proc \in [Slots -> ProcType] /\ thr \in [Slots -> ThrType] /\ thr[p] \in ThrType
        /\ thr[p].pc # "yielded" => thr[p].saved = "user"
    BY DEF IInv, TypeOK, PlaceInv
  <1>1. CASE TrapReturn(c)
    <2>1. \A q \in Slots :
            /\ proc'[q].pid = proc[q].pid /\ (proc'[q].killed => proc[q].killed)
            /\ proc'[q].state = "UNUSED" => proc[q].state = "UNUSED"
            /\ proc'[q].state = "SLEEPING" =>
                 proc[q].state = "SLEEPING" \/ thr[q].pc \in ToSleep
      BY <1>0, <1>1 DEF TrapReturn, On, ToSleep, ProcType, Goto
    <2>2. /\ \A q \in Slots \ {p} : thr'[q] = thr[q]
          /\ Kills(p)' => Kills(p) /\ thr'[p].arg = thr[p].arg
          /\ thr'[p].pc \in ToSleep => thr[p].pc \in ToSleep
      BY <1>0, <1>1 DEF TrapReturn, On, Kills, ToSleep, ThrType, Goto
    <2>3. QED
      BY <2>1, <2>2, MarkKept DEF Unmarking
  <1>2. CASE TimerKilled(c)
    <2>1. \A q \in Slots :
            /\ proc'[q].pid = proc[q].pid /\ (proc'[q].killed => proc[q].killed)
            /\ proc'[q].state = "UNUSED" => proc[q].state = "UNUSED"
            /\ proc'[q].state = "SLEEPING" =>
                 proc[q].state = "SLEEPING" \/ thr[q].pc \in ToSleep
      BY <1>0, <1>2 DEF TimerKilled, On, ToSleep, ProcType, Goto
    <2>2. /\ \A q \in Slots \ {p} : thr'[q] = thr[q]
          /\ Kills(p)' => Kills(p) /\ thr'[p].arg = thr[p].arg
          /\ thr'[p].pc \in ToSleep => thr[p].pc \in ToSleep
      BY <1>0, <1>2 DEF TimerKilled, On, Kills, ToSleep, ThrType, Goto
    <2>3. QED
      BY <2>1, <2>2, MarkKept DEF Unmarking
  <1>3. CASE AllocSkip(c)
    <2>1. \A q \in Slots :
            /\ proc'[q].pid = proc[q].pid /\ (proc'[q].killed => proc[q].killed)
            /\ proc'[q].state = "UNUSED" => proc[q].state = "UNUSED"
            /\ proc'[q].state = "SLEEPING" =>
                 proc[q].state = "SLEEPING" \/ thr[q].pc \in ToSleep
      BY <1>0, <1>3 DEF AllocSkip, On, ToSleep, ProcType, Return, At, AtWith
    <2>2. /\ \A q \in Slots \ {p} : thr'[q] = thr[q]
          /\ Kills(p)' => Kills(p) /\ thr'[p].arg = thr[p].arg
          /\ thr'[p].pc \in ToSleep => thr[p].pc \in ToSleep
      BY <1>0, <1>3 DEF AllocSkip, On, Kills, ToSleep, ThrType, Return, At, AtWith
    <2>3. QED
      BY <2>1, <2>2, MarkKept DEF Unmarking
  <1>4. CASE ForkParent(c)
    <2>1. \A q \in Slots :
            /\ proc'[q].pid = proc[q].pid /\ (proc'[q].killed => proc[q].killed)
            /\ proc'[q].state = "UNUSED" => proc[q].state = "UNUSED"
            /\ proc'[q].state = "SLEEPING" =>
                 proc[q].state = "SLEEPING" \/ thr[q].pc \in ToSleep
      BY <1>0, <1>4 DEF ForkParent, On, ToSleep, ProcType, Goto
    <2>2. /\ \A q \in Slots \ {p} : thr'[q] = thr[q]
          /\ Kills(p)' => Kills(p) /\ thr'[p].arg = thr[p].arg
          /\ thr'[p].pc \in ToSleep => thr[p].pc \in ToSleep
      BY <1>0, <1>4 DEF ForkParent, On, Kills, ToSleep, ThrType, Goto
    <2>3. QED
      BY <2>1, <2>2, MarkKept DEF Unmarking
  <1>5. CASE ForkRunnable(c)
    <2>1. \A q \in Slots :
            /\ proc'[q].pid = proc[q].pid /\ (proc'[q].killed => proc[q].killed)
            /\ proc'[q].state = "UNUSED" => proc[q].state = "UNUSED"
            /\ proc'[q].state = "SLEEPING" =>
                 proc[q].state = "SLEEPING" \/ thr[q].pc \in ToSleep
      BY <1>0, <1>5 DEF ForkRunnable, On, ToSleep, ProcType, Return, At, AtWith
    <2>2. /\ \A q \in Slots \ {p} : thr'[q] = thr[q]
          /\ Kills(p)' => Kills(p) /\ thr'[p].arg = thr[p].arg
          /\ thr'[p].pc \in ToSleep => thr[p].pc \in ToSleep
      BY <1>0, <1>5 DEF ForkRunnable, On, Kills, ToSleep, ThrType, Return, At, AtWith
    <2>3. QED
      BY <2>1, <2>2, MarkKept DEF Unmarking
  <1>6. CASE KillSkip(c)
    <2>1. \A q \in Slots :
            /\ proc'[q].pid = proc[q].pid /\ (proc'[q].killed => proc[q].killed)
            /\ proc'[q].state = "UNUSED" => proc[q].state = "UNUSED"
            /\ proc'[q].state = "SLEEPING" =>
                 proc[q].state = "SLEEPING" \/ thr[q].pc \in ToSleep
      BY <1>0, <1>6 DEF KillSkip, On, ToSleep, ProcType, Return, At, AtWith
    <2>2. /\ \A q \in Slots \ {p} : thr'[q] = thr[q]
          /\ Kills(p)' => Kills(p) /\ thr'[p].arg = thr[p].arg
          /\ thr'[p].pc \in ToSleep => thr[p].pc \in ToSleep
      BY <1>0, <1>6 DEF KillSkip, On, Kills, ToSleep, ThrType, Return, At, AtWith
    <2>3. QED
      BY <2>1, <2>2, MarkKept DEF Unmarking
  <1>7. CASE ExitLock(c)
    <2>1. \A q \in Slots :
            /\ proc'[q].pid = proc[q].pid /\ (proc'[q].killed => proc[q].killed)
            /\ proc'[q].state = "UNUSED" => proc[q].state = "UNUSED"
            /\ proc'[q].state = "SLEEPING" =>
                 proc[q].state = "SLEEPING" \/ thr[q].pc \in ToSleep
      BY <1>0, <1>7 DEF ExitLock, On, ToSleep, ProcType, Goto
    <2>2. /\ \A q \in Slots \ {p} : thr'[q] = thr[q]
          /\ Kills(p)' => Kills(p) /\ thr'[p].arg = thr[p].arg
          /\ thr'[p].pc \in ToSleep => thr[p].pc \in ToSleep
      BY <1>0, <1>7 DEF ExitLock, On, Kills, ToSleep, ThrType, Goto
    <2>3. QED
      BY <2>1, <2>2, MarkKept DEF Unmarking
  <1>8. CASE Reparent(c)
    <2>1. \A q \in Slots :
            /\ proc'[q].pid = proc[q].pid /\ (proc'[q].killed => proc[q].killed)
            /\ proc'[q].state = "UNUSED" => proc[q].state = "UNUSED"
            /\ proc'[q].state = "SLEEPING" =>
                 proc[q].state = "SLEEPING" \/ thr[q].pc \in ToSleep
      BY <1>0, <1>8 DEF Reparent, On, ToSleep, ProcType, Goto, Children
    <2>2. /\ \A q \in Slots \ {p} : thr'[q] = thr[q]
          /\ Kills(p)' => Kills(p) /\ thr'[p].arg = thr[p].arg
          /\ thr'[p].pc \in ToSleep => thr[p].pc \in ToSleep
      BY <1>0, <1>8 DEF Reparent, On, Kills, ToSleep, ThrType, Goto, Children
    <2>3. QED
      BY <2>1, <2>2, MarkKept DEF Unmarking
  <1>9. CASE ExitZombie(c)
    <2>1. \A q \in Slots :
            /\ proc'[q].pid = proc[q].pid /\ (proc'[q].killed => proc[q].killed)
            /\ proc'[q].state = "UNUSED" => proc[q].state = "UNUSED"
            /\ proc'[q].state = "SLEEPING" =>
                 proc[q].state = "SLEEPING" \/ thr[q].pc \in ToSleep
      BY <1>0, <1>9 DEF ExitZombie, On, ToSleep, ProcType, Sched, Goto
    <2>2. /\ \A q \in Slots \ {p} : thr'[q] = thr[q]
          /\ Kills(p)' => Kills(p) /\ thr'[p].arg = thr[p].arg
          /\ thr'[p].pc \in ToSleep => thr[p].pc \in ToSleep
      BY <1>0, <1>9 DEF ExitZombie, On, Kills, ToSleep, ThrType, Sched, Goto
    <2>3. QED
      BY <2>1, <2>2, MarkKept DEF Unmarking
  <1>10. CASE WaitLock(c)
    <2>1. \A q \in Slots :
            /\ proc'[q].pid = proc[q].pid /\ (proc'[q].killed => proc[q].killed)
            /\ proc'[q].state = "UNUSED" => proc[q].state = "UNUSED"
            /\ proc'[q].state = "SLEEPING" =>
                 proc[q].state = "SLEEPING" \/ thr[q].pc \in ToSleep
      BY <1>0, <1>10 DEF WaitLock, On, ToSleep, ProcType, Goto
    <2>2. /\ \A q \in Slots \ {p} : thr'[q] = thr[q]
          /\ Kills(p)' => Kills(p) /\ thr'[p].arg = thr[p].arg
          /\ thr'[p].pc \in ToSleep => thr[p].pc \in ToSleep
      BY <1>0, <1>10 DEF WaitLock, On, Kills, ToSleep, ThrType, Goto
    <2>3. QED
      BY <2>1, <2>2, MarkKept DEF Unmarking
  <1>11. CASE ScanAlive(c)
    <2>1. \A q \in Slots :
            /\ proc'[q].pid = proc[q].pid /\ (proc'[q].killed => proc[q].killed)
            /\ proc'[q].state = "UNUSED" => proc[q].state = "UNUSED"
            /\ proc'[q].state = "SLEEPING" =>
                 proc[q].state = "SLEEPING" \/ thr[q].pc \in ToSleep
      BY <1>0, <1>11 DEF ScanAlive, On, ToSleep, ProcType
    <2>2. /\ \A q \in Slots \ {p} : thr'[q] = thr[q]
          /\ Kills(p)' => Kills(p) /\ thr'[p].arg = thr[p].arg
          /\ thr'[p].pc \in ToSleep => thr[p].pc \in ToSleep
      BY <1>0, <1>11 DEF ScanAlive, On, Kills, ToSleep, ThrType
    <2>3. QED
      BY <2>1, <2>2, MarkKept DEF Unmarking
  <1>12. CASE SleepLock(c)
    <2>1. \A q \in Slots :
            /\ proc'[q].pid = proc[q].pid /\ (proc'[q].killed => proc[q].killed)
            /\ proc'[q].state = "UNUSED" => proc[q].state = "UNUSED"
            /\ proc'[q].state = "SLEEPING" =>
                 proc[q].state = "SLEEPING" \/ thr[q].pc \in ToSleep
      BY <1>0, <1>12 DEF SleepLock, On, ToSleep, ProcType, Goto
    <2>2. /\ \A q \in Slots \ {p} : thr'[q] = thr[q]
          /\ Kills(p)' => Kills(p) /\ thr'[p].arg = thr[p].arg
          /\ thr'[p].pc \in ToSleep => thr[p].pc \in ToSleep
      BY <1>0, <1>12 DEF SleepLock, On, Kills, ToSleep, ThrType, Goto
    <2>3. QED
      BY <2>1, <2>2, MarkKept DEF Unmarking
  <1>13. CASE SleepSwitch(c)
    <2>1. \A q \in Slots :
            /\ proc'[q].pid = proc[q].pid /\ (proc'[q].killed => proc[q].killed)
            /\ proc'[q].state = "UNUSED" => proc[q].state = "UNUSED"
            /\ proc'[q].state = "SLEEPING" =>
                 proc[q].state = "SLEEPING" \/ thr[q].pc \in ToSleep
      BY <1>0, <1>13 DEF SleepSwitch, On, ToSleep, ProcType, Sched, Goto
    <2>2. /\ \A q \in Slots \ {p} : thr'[q] = thr[q]
          /\ Kills(p)' => Kills(p) /\ thr'[p].arg = thr[p].arg
          /\ thr'[p].pc \in ToSleep => thr[p].pc \in ToSleep
      BY <1>0, <1>13 DEF SleepSwitch, On, Kills, ToSleep, ThrType, Sched, Goto
    <2>3. QED
      BY <2>1, <2>2, MarkKept DEF Unmarking
  <1>14. CASE ReparentWakeup(c)
    <2>1. \A q \in Slots :
            /\ proc'[q].pid = proc[q].pid /\ (proc'[q].killed => proc[q].killed)
            /\ proc'[q].state = "UNUSED" => proc[q].state = "UNUSED"
            /\ proc'[q].state = "SLEEPING" =>
                 proc[q].state = "SLEEPING" \/ thr[q].pc \in ToSleep
      BY <1>0, <1>14 DEF ReparentWakeup, On, ToSleep, ProcType, Wakeup, At, AtWith
    <2>2. /\ \A q \in Slots \ {p} : thr'[q] = thr[q]
          /\ Kills(p)' => Kills(p) /\ thr'[p].arg = thr[p].arg
          /\ thr'[p].pc \in ToSleep => thr[p].pc \in ToSleep
      BY <1>0, <1>14 DEF ReparentWakeup, On, Kills, ToSleep, ThrType, Wakeup, At, AtWith
    <2>3. QED
      BY <2>1, <2>2, MarkKept DEF Unmarking
  <1>15. CASE WakeParent(c)
    <2>1. \A q \in Slots :
            /\ proc'[q].pid = proc[q].pid /\ (proc'[q].killed => proc[q].killed)
            /\ proc'[q].state = "UNUSED" => proc[q].state = "UNUSED"
            /\ proc'[q].state = "SLEEPING" =>
                 proc[q].state = "SLEEPING" \/ thr[q].pc \in ToSleep
      BY <1>0, <1>15 DEF WakeParent, On, ToSleep, ProcType, Wakeup, At, AtWith
    <2>2. /\ \A q \in Slots \ {p} : thr'[q] = thr[q]
          /\ Kills(p)' => Kills(p) /\ thr'[p].arg = thr[p].arg
          /\ thr'[p].pc \in ToSleep => thr[p].pc \in ToSleep
      BY <1>0, <1>15 DEF WakeParent, On, Kills, ToSleep, ThrType, Wakeup, At, AtWith
    <2>3. QED
      BY <2>1, <2>2, MarkKept DEF Unmarking
  <1>16. CASE TimerYield(c)
    <2>1. \A q \in Slots :
            /\ proc'[q].pid = proc[q].pid /\ (proc'[q].killed => proc[q].killed)
            /\ proc'[q].state = "UNUSED" => proc[q].state = "UNUSED"
            /\ proc'[q].state = "SLEEPING" =>
                 proc[q].state = "SLEEPING" \/ thr[q].pc \in ToSleep
      BY <1>0, <1>16 DEF TimerYield, On, ToSleep, ProcType, Preemptible
    <2>2. /\ \A q \in Slots \ {p} : thr'[q] = thr[q]
          /\ Kills(p)' => Kills(p) /\ thr'[p].arg = thr[p].arg
          /\ thr'[p].pc \in ToSleep => thr[p].pc \in ToSleep
      BY <1>0, <1>16 DEF TimerYield, On, Kills, ToSleep, ThrType, Preemptible
    <2>3. QED
      BY <2>1, <2>2, MarkKept DEF Unmarking
  <1>17. CASE Resume(c)
    <2>1. \A q \in Slots :
            /\ proc'[q].pid = proc[q].pid /\ (proc'[q].killed => proc[q].killed)
            /\ proc'[q].state = "UNUSED" => proc[q].state = "UNUSED"
            /\ proc'[q].state = "SLEEPING" =>
                 proc[q].state = "SLEEPING" \/ thr[q].pc \in ToSleep
      BY <1>0, <1>17 DEF Resume, On, ToSleep, ProcType, Goto, Preemptible
    <2>2. /\ \A q \in Slots \ {p} : thr'[q] = thr[q]
          /\ Kills(p)' => Kills(p) /\ thr'[p].arg = thr[p].arg
          /\ thr'[p].pc \in ToSleep => thr[p].pc \in ToSleep
      BY <1>0, <1>17 DEF Resume, On, Kills, ToSleep, ThrType, Goto, Preemptible
    <2>3. QED
      BY <2>1, <2>2, MarkKept DEF Unmarking
  <1>18. QED
    BY <1>1, <1>2, <1>3, <1>4, <1>5, <1>6, <1>7, <1>8, <1>9, <1>10, <1>11, <1>12, <1>13, <1>14, <1>15, <1>16, <1>17

\* sys_kill() takes its pid from KillPids; the other calls mark nobody either.
LEMMA SyscallMarks ==
  ASSUME IInv, MarkInv, NEW c \in CPU, NEW p \in Slots, p = Cur(c), Syscall(c)
  PROVE  MarkInv'
  <1>1. /\ thr \in [Slots -> ThrType] /\ UNCHANGED proc
        /\ \A q \in Slots \ {p} : thr'[q] = thr[q]
        /\ thr[p].pc = "user" /\ thr[p].saved = "user"
    BY DEF Syscall, Goto, IInv, TypeOK, PlaceInv, On
  <1>2. /\ thr'[p].saved = "user" /\ thr'[p].pc \in {"exit", "wait", "alloc", "kill"}
        /\ thr'[p].pc = "kill" => thr'[p].arg \in KillPids
    BY <1>1 DEF Syscall, Goto, ThrType
  <1>3. QED
    BY <1>1, <1>2 DEF MarkInv, Kills, ToSleep

\* A process that faults is marked where it runs, on its way to exit().
LEMMA FaultMarks ==
  ASSUME IInv, MarkInv, NEW c \in CPU, NEW p \in Slots, p = Cur(c), Fault(c)
  PROVE  MarkInv'
  <1>1. /\ thr \in [Slots -> ThrType] /\ proc \in [Slots -> ProcType]
        /\ proc[p].state = "RUNNING"
        /\ thr[p].pc = "user" /\ thr[p].saved = "user"
    BY DEF Fault, IInv, TypeOK, PlaceInv, CPUInv, On
  <1>2. /\ \A q \in Slots : proc'[q].pid = proc[q].pid /\ proc'[q].state = proc[q].state
        /\ \A q \in Slots \ {p} : thr'[q] = thr[q] /\ proc'[q] = proc[q]
        /\ thr'[p].pc = "exit" /\ thr'[p].saved = "user"
    BY <1>1 DEF Fault, Goto, ProcType, ThrType
  <1>3. QED
    BY <1>1, <1>2 DEF MarkInv, Kills, ToSleep

\* kill() finds no free slot unless it is kill(0), and on one CPU finds nobody
\* on the way to sleep.
LEMMA KillHitMarks ==
  ASSUME IInv, MarkInv, NEW c \in CPU, NEW p \in Slots, p = Cur(c), KillHit(c)
  PROVE  MarkInv'
  <1> DEFINE i == thr[p].idx
  <1>1. /\ thr \in [Slots -> ThrType] /\ proc \in [Slots -> ProcType] /\ i \in Slots
        /\ thr[p].pc = "kill" /\ thr[p].saved = "user" /\ proc[i].pid = thr[p].arg
        /\ cpu[c].pc = "run"
    BY NPROCAssumption DEF KillHit, IInv, TypeOK, PlaceInv, On, ThrType, Slots
  <1>2. /\ \A q \in Slots \ {p} : thr'[q] = thr[q]
        /\ thr'[p] = At("trap_return")
        /\ \A q \in Slots \ {i} : proc'[q] = proc[q]
        /\ proc'[i].pid = proc[i].pid /\ proc'[i].state = Awake(i)
    BY <1>1 DEF KillHit, Return, ProcType
  <1>3. proc[i].pid \in KillPids
    BY <1>1 DEF MarkInv, Kills
  <1>4. ASSUME NEW q \in Slots, SingleCPU, proc'[q].killed
        PROVE  proc'[q].state # "SLEEPING" /\ thr'[q].pc \notin ToSleep
    <2>1. CASE q # i
      BY <1>2, <1>4, <2>1 DEF MarkInv, ToSleep, At, AtWith
    <2>2. CASE q = i
      <3>1. proc'[q].state # "SLEEPING"
        BY <1>2, <2>2 DEF Awake
      <3>2. thr[q].pc \in ToSleep => proc[q].state = "RUNNING"
        BY <1>1 DEF IInv, PlaceInv, ToSleep, TypeOK, ProcType, States
      <3>3. proc[q].state = "RUNNING" => q = p
        BY <1>4 DEF IInv, CPUInv, SingleCPU
      <3>4. QED
        BY <1>1, <1>2, <3>1, <3>2, <3>3 DEF ToSleep, At, AtWith
    <2>3. QED
      BY <2>1, <2>2
  <1>5. ASSUME NEW q \in Slots
        PROVE  /\ proc'[q].state = "UNUSED" => proc'[q].pid = 0
               /\ proc'[q].state = "UNUSED" /\ 0 \notin KillPids => ~ proc'[q].killed
    <2>1. proc'[q].state = "UNUSED" => proc[q].state = "UNUSED"
      BY <1>2 DEF Awake
    <2>2. QED
      BY <1>2, <1>3, <2>1 DEF MarkInv
  <1>6. ASSUME NEW q \in Slots, Kills(q)'
        PROVE  thr'[q].arg \in KillPids
    BY <1>2, <1>6 DEF Kills, At, AtWith, MarkInv
  <1>7. QED
    BY <1>4, <1>5, <1>6 DEF MarkInv

\* A step that takes or frees slot i; a thread that starts afresh kills nobody
\* and is not about to sleep.
Afresh(i) ==
  /\ \A q \in Slots : \/ thr'[q] = thr[q]
                      \/ thr'[q].saved = "user" /\ thr'[q].pc \notin ToSleep \cup {"kill"}
  /\ \A q \in Slots \ {i} : proc'[q] = proc[q]
  /\ proc'[i].state # "SLEEPING" /\ (proc'[i].killed => proc[i].killed)
  /\ proc'[i].state = "UNUSED" =>
       proc'[i].pid = 0 /\ (0 \notin KillPids => ~ proc'[i].killed)

LEMMA AfreshMarks ==
  ASSUME MarkInv, NEW i \in Slots, Afresh(i)
  PROVE  MarkInv'
  <1>1. ASSUME NEW q \in Slots, Kills(q)'
        PROVE  thr'[q].arg \in KillPids
    BY <1>1 DEF Kills, MarkInv, Afresh
  <1>2. ASSUME NEW q \in Slots, SingleCPU, proc'[q].killed
        PROVE  proc'[q].state # "SLEEPING" /\ thr'[q].pc \notin ToSleep
    BY <1>2 DEF MarkInv, Afresh
  <1>3. ASSUME NEW q \in Slots
        PROVE  /\ proc'[q].state = "UNUSED" => proc'[q].pid = 0
               /\ proc'[q].state = "UNUSED" /\ 0 \notin KillPids => ~ proc'[q].killed
    BY DEF MarkInv, Afresh
  <1>4. QED
    BY <1>1, <1>2, <1>3 DEF MarkInv

LEMMA AllocMarks ==
  ASSUME IInv, MarkInv, NEW c \in CPU, NEW p \in Slots, p = Cur(c), Alloc(c) \/ AllocNoMemory(c)
  PROVE  MarkInv'
  <1> DEFINE i == thr[p].idx
  <1>1. /\ thr \in [Slots -> ThrType] /\ proc \in [Slots -> ProcType] /\ i \in Slots
        /\ proc[i].state = "UNUSED"
    BY NPROCAssumption DEF Alloc, AllocNoMemory, IInv, TypeOK, On, ThrType, Slots
  <1>2. /\ \A q \in Slots : \/ thr'[q] = thr[q]
                            \/ thr'[q].saved = "user" /\ thr'[q].pc \notin ToSleep \cup {"kill"}
        /\ \A q \in Slots \ {i} : proc'[q] = proc[q]
        /\ \/ proc'[i].state = "USED" /\ proc'[i].killed = proc[i].killed
           \/ proc'[i] = FreeSlot(NoCPU)
    <2>1. CASE Alloc(c)
      BY <1>1, <2>1 DEF Alloc, allocproc, AtWith, At, ToSleep, ProcType
    <2>2. CASE AllocNoMemory(c)
      BY <1>1, <2>2 DEF AllocNoMemory, freeproc, Return, AtWith, At, ToSleep
    <2>3. QED
      BY <2>1, <2>2
  <1>3. /\ proc'[i].state # "SLEEPING" /\ (proc'[i].killed => proc[i].killed)
        /\ proc'[i].state = "UNUSED" =>
             proc'[i].pid = 0 /\ (0 \notin KillPids => ~ proc'[i].killed)
    BY <1>2 DEF FreeSlot
  <1>4. QED
    BY <1>1, <1>2, <1>3, AfreshMarks DEF Afresh

LEMMA ReapMarks ==
  ASSUME IInv, MarkInv, NEW c \in CPU, NEW p \in Slots, p = Cur(c), Reap(c)
  PROVE  MarkInv'
  <1>1. PICK i \in Slots :
          /\ Reapable(i)
          /\ \/ /\ proc' = freeproc(i)
                /\ thr'  = [thr EXCEPT ![p] = At("trap_return"), ![i] = At("unused")]
             \/ UNCHANGED proc /\ Return(p)
    BY DEF Reap
  <1>2. /\ \A q \in Slots : \/ thr'[q] = thr[q]
                            \/ thr'[q].saved = "user" /\ thr'[q].pc \notin ToSleep \cup {"kill"}
        /\ \A q \in Slots \ {i} : proc'[q] = proc[q]
        /\ proc'[i] \in {FreeSlot(NoCPU), proc[i]}
    BY <1>1 DEF IInv, TypeOK, Return, At, AtWith, freeproc, ToSleep
  <1>3. /\ proc'[i].state # "SLEEPING" /\ (proc'[i].killed => proc[i].killed)
        /\ proc'[i].state = "UNUSED" =>
             proc'[i].pid = 0 /\ (0 \notin KillPids => ~ proc'[i].killed)
    BY <1>1, <1>2 DEF FreeSlot, Reapable, MarkInv
  <1>4. QED
    BY <1>2, <1>3, AfreshMarks DEF Afresh

\* wait() looks at killed before it goes to sleep().
LEMMA WaitDecideMarks ==
  ASSUME IInv, MarkInv, NEW c \in CPU, NEW p \in Slots, p = Cur(c), WaitDecide(c)
  PROVE  MarkInv'
  <1>1. /\ thr \in [Slots -> ThrType] /\ UNCHANGED proc /\ proc[p].state = "RUNNING"
        /\ \A q \in Slots \ {p} : thr'[q] = thr[q]
        /\ thr'[p].saved = "user" /\ thr'[p].pc # "kill"
        /\ thr'[p].pc \in ToSleep => ~ proc[p].killed
    BY DEF WaitDecide, IInv, TypeOK, CPUInv, On, Return, At, AtWith, ToSleep, GivesUp
  <1>2. QED
    BY <1>1 DEF MarkInv, Kills

LEMMA SchedMarks ==
  ASSUME IInv, MarkInv, NEW c \in CPU, SchedStep(c)
  PROVE  MarkInv'
  <1>1. UNCHANGED thr /\ proc \in [Slots -> ProcType]
    BY DEF SchedStep, SchedSkip, SchedRun, SchedBack, IInv, TypeOK
  <1>2. \A q \in Slots : /\ proc'[q].pid = proc[q].pid /\ proc'[q].killed = proc[q].killed
                         /\ \/ proc'[q].state = proc[q].state
                            \/ proc[q].state = "RUNNABLE" /\ proc'[q].state = "RUNNING"
    BY <1>1 DEF SchedStep, SchedSkip, SchedRun, SchedBack, ProcType, Runnable
  <1>3. QED
    BY <1>1, <1>2 DEF MarkInv, Kills

LEMMA InitMarks == Init => MarkInv
  BY NPROCAssumption DEF Init, MarkInv, FreeSlot, At, AtWith, Kills, ToSleep, Slots, initproc

LEMMA NextMarks == IInv /\ MarkInv /\ [Next]_vars => MarkInv'
  <1> SUFFICES ASSUME IInv, MarkInv, [Next]_vars PROVE MarkInv'
    OBVIOUS
  <1>1. CASE UNCHANGED vars
    BY <1>1 DEF vars, MarkInv, Kills
  <1>2. ASSUME NEW c \in CPU, SchedStep(c) PROVE MarkInv'
    BY <1>2, SchedMarks
  <1>3. ASSUME NEW c \in CPU, ThreadStep(c) PROVE MarkInv'
    <2> DEFINE p == Cur(c)
    <2>2. p \in Slots
      BY <1>3, ThreadOfSlot
    <2>3. CASE Syscall(c)
      BY <2>2, <2>3, SyscallMarks
    <2>4. CASE Fault(c)
      BY <2>2, <2>4, FaultMarks
    <2>5. CASE KillHit(c)
      BY <2>2, <2>5, KillHitMarks
    <2>6. CASE Alloc(c) \/ AllocNoMemory(c)
      BY <2>2, <2>6, AllocMarks
    <2>7. CASE Reap(c)
      BY <2>2, <2>7, ReapMarks
    <2>8. CASE WaitDecide(c)
      BY <2>2, <2>8, WaitDecideMarks
    <2>9. QED
      BY <1>3, <2>2, <2>3, <2>4, <2>5, <2>6, <2>7, <2>8, KeepsMarks
         DEF ThreadStep, KernelStep, TimerStep, ForkStep, KillStep, ExitStep, WaitStep
  <1>4. QED
    BY <1>1, <1>2, <1>3 DEF Next

\* kill() marks only as it should: MarkInv always holds.
THEOREM MarkInvariance == Spec => []MarkInv
  <1>1. QED
    BY InitInv, NextInv, InitMarks, NextMarks, PTL DEF Spec

\* kill() wakes the process it kills from sleep(), and on one CPU that is enough:
\* a killed process is not asleep in wait().
THEOREM KilledAwake == SingleCPU => (Spec => []KilledNotAsleep)
  <1>1. SUFFICES ASSUME SingleCPU PROVE Spec => []KilledNotAsleep
    OBVIOUS
  <1>2. MarkInv => KilledNotAsleep
    BY <1>1 DEF MarkInv, KilledNotAsleep
  <1>3. QED
    BY <1>2, MarkInvariance, PTL

\* Only fork() takes a slot that is free and only wait() frees that of a zombie.
LEMMA SlotsSettled ==
  ASSUME IInv, [Next]_vars, NEW q \in Slots
  PROVE  /\ proc[q].state = "UNUSED" =>
              proc'[q].state = "UNUSED" \/ (\E c \in CPU : Alloc(c))
         /\ proc[q].state = "ZOMBIE" =>
              proc'[q].state = "ZOMBIE" \/ (\E c \in CPU : Reap(c))
  <1>0. proc \in [Slots -> ProcType]
    BY DEF IInv, TypeOK
  <1>1. CASE UNCHANGED vars
    BY <1>1 DEF vars
  <1>2. ASSUME NEW c \in CPU, SchedStep(c)
        PROVE  proc[q].state \in {"UNUSED", "ZOMBIE"} => proc'[q].state = proc[q].state
    BY <1>0, <1>2 DEF SchedStep, SchedSkip, SchedRun, SchedBack, Runnable, ProcType
  <1>3. ASSUME NEW c \in CPU, NEW r, LocalStep(c, r)
        PROVE  proc[q].state \in {"UNUSED", "ZOMBIE"} => proc'[q].state = proc[q].state
    BY <1>3 DEF LocalStep
  <1>4. ASSUME NEW c \in CPU,
               \/ Resume(c) \/ TimerYield(c) \/ ExitZombie(c)
               \/ SleepSwitch(c) \/ SleepLock(c) \/ ForkRunnable(c)
        PROVE  proc[q].state \in {"UNUSED", "ZOMBIE"} => proc'[q].state = proc[q].state
    <2> DEFINE p == Cur(c)
    <2>1. p \in Slots /\ proc[p].state = "RUNNING"
      BY <1>4, CurIsSlot DEF IInv, CPUInv, On, Resume, TimerYield, ExitZombie, SleepSwitch,
         SleepLock, ForkRunnable
    <2>2. ASSUME ForkRunnable(c)
          PROVE  thr[p].arg \in Slots /\ proc[thr[p].arg].state = "USED"
      BY <2>1, <2>2 DEF ForkRunnable, On, IInv, ForkInv, InFork, ForkLabels
    <2>3. CASE ForkRunnable(c)
      BY <1>0, <2>2, <2>3 DEF ForkRunnable, ProcType
    <2>4. CASE Resume(c) \/ TimerYield(c) \/ ExitZombie(c)
      BY <1>0, <2>1, <2>4 DEF Resume, TimerYield, ExitZombie, ProcType
    <2>5. CASE SleepSwitch(c) \/ SleepLock(c)
      BY <1>0, <2>1, <2>5 DEF SleepSwitch, SleepLock, ProcType
    <2>6. QED
      BY <1>4, <2>3, <2>4, <2>5
  <1>5. ASSUME NEW c \in CPU, ThreadStep(c), ~ Alloc(c), ~ Reap(c)
        PROVE  proc[q].state \in {"UNUSED", "ZOMBIE"} => proc'[q].state = proc[q].state
    <2>1. CASE TimerStep(c) \/ Syscall(c) \/ Fault(c) \/ TrapReturn(c) \/ Resume(c)
      BY <1>3, <1>4, <2>1, TimerKilledLocal, SyscallLocal, FaultLocal, TrapReturnLocal
      DEF TimerStep
    <2>2. CASE ForkStep(c)
      BY <1>3, <1>4, <1>5, <2>2, AllocSkipLocal, AllocNoMemoryLocal, ForkParentLocal
      DEF ForkStep
    <2>3. CASE KillStep(c)
      BY <1>3, <2>3, KillSkipLocal, KillHitLocal DEF KillStep
    <2>4. CASE ExitStep(c)
      BY <1>3, <1>4, <2>4, ExitLockLocal, ReparentLocal, ReparentWakeupLocal, WakeParentLocal
      DEF ExitStep
    <2>5. CASE WaitStep(c)
      BY <1>3, <1>4, <1>5, <2>5, WaitLockLocal, ScanAliveLocal, WaitDecideLocal DEF WaitStep
    <2>6. QED
      BY <1>5, <2>1, <2>2, <2>3, <2>4, <2>5 DEF ThreadStep, KernelStep
  <1>6. CASE Next
    <2>1. PICK c \in CPU : SchedStep(c) \/ ThreadStep(c)
      BY <1>6 DEF Next
    <2>2. CASE SchedStep(c) \/ ~ (Alloc(c) \/ Reap(c))
      BY <1>2, <1>5, <2>1, <2>2
    <2>3. CASE Alloc(c)
      <3>1. proc[q].state = "ZOMBIE" => proc'[q].state = "ZOMBIE"
        BY <1>0, <2>3 DEF Alloc, allocproc
      <3>2. QED
        BY <2>3, <3>1
    <2>4. CASE Reap(c)
      <3>1. proc[q].state = "UNUSED" => proc'[q].state = "UNUSED"
        BY <1>0, <2>4 DEF Reap, freeproc, FreeSlot
      <3>2. QED
        BY <2>4, <3>1
    <2>5. QED
      BY <2>2, <2>3, <2>4
  <1>7. QED
    BY <1>1, <1>6

\* While nobody calls kill(0), fork() never makes a process that is killed already:
\* freeproc() has cleared the mark, and no kill() finds the pid of a free slot.
THEOREM NobodyBornKilled == 0 \notin KillPids => (Spec => BornUnkilled)
  <1>1. SUFFICES ASSUME 0 \notin KillPids PROVE Spec => BornUnkilled
    OBVIOUS
  <1>2. ASSUME IInv, MarkInv, [Next]_vars, NEW q \in Slots,
               proc[q].state = "UNUSED", proc'[q].state = "USED"
        PROVE  ~ proc'[q].killed
    <2>1. PICK c \in CPU : Alloc(c)
      BY <1>2, SlotsSettled
    <2>2. proc \in [Slots -> ProcType]
      BY <1>2 DEF IInv, TypeOK
    <2>3. proc'[q].killed = proc[q].killed
      BY <1>2, <2>1, <2>2 DEF Alloc, allocproc, ProcType
    <2>4. QED
      BY <1>1, <1>2, <2>3 DEF MarkInv
  <1>3. IInv /\ MarkInv /\ [Next]_vars =>
          [\A p \in Slots : proc[p].state = "UNUSED" /\ proc'[p].state = "USED"
                             => ~ proc'[p].killed]_vars
    BY <1>2
  <1>4. []IInv /\ []MarkInv /\ [][Next]_vars => BornUnkilled
    BY <1>3, PTL DEF BornUnkilled
  <1>5. QED
    BY <1>4, Invariance, MarkInvariance, PTL DEF Spec

\* wait() frees the slot, and with it the kernel stack, of a process that no CPU
\* is on any more: the CPU that ran it holds its p->lock until it has switched away.
THEOREM FreedOffCPU == Spec => ReapOffCPU
  <1>1. ASSUME IInv, [Next]_vars, NEW q \in Slots, NEW d \in CPU,
               proc[q].state = "ZOMBIE", proc'[q].state = "UNUSED"
        PROVE  Cur(d) # q
    <2>1. PICK c \in CPU : Reap(c)
      BY <1>1, SlotsSettled
    <2>2. PICK i \in Slots : Reapable(i) /\ (proc' = freeproc(i) \/ UNCHANGED proc)
      BY <2>1 DEF Reap
    <2>3. q = i
      BY <1>1, <2>2 DEF freeproc, IInv, TypeOK
    <2>4. proc[q].lock = NoCPU
      BY <2>2, <2>3 DEF Reapable, Free
    <2>5. SUFFICES ASSUME Cur(d) = q PROVE FALSE
      OBVIOUS
    <2>6. cpu[d].pc # "scan" /\ cpu[d].pc # "run"
      BY <1>1, <2>5 DEF IInv, CPUInv, Slots, NoProc
    <2>7. cpu[d].pc = "back"
      BY <1>1, <2>6 DEF IInv, TypeOK, CPUType
    <2>8. QED
      BY <1>1, <2>4, <2>5, <2>7, NoCPUAssumption DEF IInv, LockInv
  <1>2. IInv /\ [Next]_vars =>
          [\A q \in Slots : proc[q].state = "ZOMBIE" /\ proc'[q].state = "UNUSED"
                             => \A c \in CPU : Cur(c) # q]_vars
    BY <1>1
  <1>3. QED
    BY <1>2, Invariance, PTL DEF Spec, ReapOffCPU
=============================================================================
