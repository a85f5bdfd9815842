-------------------------------- MODULE Mlfq --------------------------------
(***************************************************************************)
(* The scheduler() of a kernel built with SCHEDULER=MLFQ, its queues, and  *)
(* the timer interrupt, on one CPU (the Makefile's default; the queues     *)
(* have no lock).  Source: kernel/proc.c, kernel/queue.c, kernel/trap.c.   *)
(*                                                                         *)
(* Of a process the model keeps what scheduler() reads: fork(), exit(),    *)
(* sleep(), wakeup() and wait() are one step each (Proc has the details).  *)
(* An interrupt may come between any two steps of scheduler().             *)
(***************************************************************************)
EXTENDS Naturals, Sequences, SequencesExt

CONSTANTS NPROC,     \* the slots are 1 .. NPROC, init is 1
          NMLFQ, AGETICK,
          TICKS      \* TICK1, TICK2, ... : the time slice of each level

ASSUME MlfqAssumption == /\ NPROC \in Nat \ {0} /\ NMLFQ \in Nat \ {0} /\ AGETICK \in Nat \ {0}
                         /\ TICKS \in [0 .. NMLFQ - 1 -> Nat \ {0}]

Slot  == 1 .. NPROC
Level == 0 .. NMLFQ - 1

VARIABLES
  state, level, in_queue, change_queue,   \* fields of struct proc
  age,     \* ticks - p->enter_ticks, up to AGETICK
  mlfq,    \* the queues
  pc, p    \* where the CPU stands, and the p of scheduler()

fields == <<state, level, in_queue, change_queue>>
vars   == <<fields, age, mlfq, pc, p>>

\* allocproc(), as far as the scheduler is concerned.
Born(s) ==
  /\ state'        = [state        EXCEPT ![s] = "RUNNABLE"]
  /\ level'        = [level        EXCEPT ![s] = 0]
  /\ in_queue'     = [in_queue     EXCEPT ![s] = FALSE]
  /\ change_queue' = [change_queue EXCEPT ![s] = TICKS[0]]
  /\ age'          = [age          EXCEPT ![s] = 0]

Init ==
  /\ state = [s \in Slot |-> IF s = 1 THEN "RUNNABLE" ELSE "UNUSED"]
  /\ level = [s \in Slot |-> 0]
  /\ in_queue = [s \in Slot |-> FALSE]
  /\ change_queue = [s \in Slot |-> IF s = 1 THEN TICKS[0] ELSE 0]
  /\ age = [s \in Slot |-> 0]
  /\ mlfq = [l \in Level |-> <<>>]
  /\ pc = "age" /\ p = 1

-----------------------------------------------------------------------------
\* queue.c: delete() removes the entry of s; if there is none it drops the last.
Delete(q, s) ==
  IF \E i \in 1 .. Len(q) : q[i] = s
  THEN RemoveAt(q, CHOOSE i \in 1 .. Len(q) : q[i] = s /\ \A j \in 1 .. i - 1 : q[j] # s)
  ELSE Front(q)

\* Who has been runnable for AGETICK ticks leaves its queue, for the level above.
AgeSlot ==
  /\ pc = "age" /\ p <= NPROC
  /\ pc' = "enqueue"
  /\ IF state[p] = "RUNNABLE" /\ age[p] >= AGETICK
     THEN /\ mlfq' = IF in_queue[p] THEN [mlfq EXCEPT ![level[p]] = Delete(@, p)] ELSE mlfq
          /\ in_queue' = [in_queue EXCEPT ![p] = FALSE]
          /\ level' = [level EXCEPT ![p] = IF @ = 0 THEN 0 ELSE @ - 1]
          /\ age' = [age EXCEPT ![p] = 0]
     ELSE UNCHANGED <<mlfq, in_queue, level, age>>
  /\ UNCHANGED <<state, change_queue, p>>

\* Mutant: a process joins its queue at the front.
EnqueueFront ==
  /\ pc = "enqueue"
  /\ IF state[p] = "RUNNABLE" /\ ~ in_queue[p]
     THEN /\ mlfq' = [mlfq EXCEPT ![level[p]] = <<p>> \o @]
          /\ in_queue' = [in_queue EXCEPT ![p] = TRUE]
     ELSE UNCHANGED <<mlfq, in_queue>>
  /\ pc' = "age" /\ p' = p + 1
  /\ UNCHANGED <<state, level, change_queue, age>>

Enqueue ==
  /\ pc = "enqueue"
  /\ IF state[p] = "RUNNABLE" /\ ~ in_queue[p]
     THEN /\ mlfq' = [mlfq EXCEPT ![level[p]] = Append(@, p)]
          /\ in_queue' = [in_queue EXCEPT ![p] = TRUE]
     ELSE UNCHANGED <<mlfq, in_queue>>
  /\ pc' = "age" /\ p' = p + 1
  /\ UNCHANGED <<state, level, change_queue, age>>

\* Mutant: p->in_queue stays set.
PickFlagged ==
  /\ pc = "age" /\ p > NPROC
  /\ \E l \in Level :
       /\ mlfq[l] # <<>> /\ \A k \in 0 .. l - 1 : mlfq[k] = <<>>
       /\ LET s == Head(mlfq[l]) IN
            /\ mlfq' = [mlfq EXCEPT ![level[s]] = Tail(@)]
            /\ IF state[s] = "RUNNABLE"
               THEN pc' = "dispatch" /\ p' = s /\ age' = [age EXCEPT ![s] = 0]
               ELSE UNCHANGED <<pc, p, age>>
  /\ UNCHANGED <<state, level, in_queue, change_queue>>

\* The front of the first queue that is not empty is taken, until one is runnable.
Pick ==
  /\ pc = "age" /\ p > NPROC
  /\ \E l \in Level :
       /\ mlfq[l] # <<>> /\ \A k \in 0 .. l - 1 : mlfq[k] = <<>>
       /\ LET s == Head(mlfq[l]) IN
            /\ mlfq' = [mlfq EXCEPT ![level[s]] = Tail(@)]
            /\ in_queue' = [in_queue EXCEPT ![s] = FALSE]
            /\ IF state[s] = "RUNNABLE"
               THEN pc' = "dispatch" /\ p' = s /\ age' = [age EXCEPT ![s] = 0]
               ELSE UNCHANGED <<pc, p, age>>
  /\ UNCHANGED <<state, level, change_queue>>

\* All queues are empty: p is &proc[NPROC], and what scheduler() reads there as p->state
\* is assumed not to say RUNNABLE.
PickNone ==
  /\ pc = "age" /\ p > NPROC
  /\ \A l \in Level : mlfq[l] = <<>>
  /\ p' = 1
  /\ UNCHANGED <<fields, age, mlfq, pc>>

\* swtch() to p.
Dispatch ==
  /\ pc = "dispatch"
  /\ change_queue' = [change_queue EXCEPT ![p] = TICKS[level[p]]]
  /\ state' = [state EXCEPT ![p] = "RUNNING"]
  /\ age' = [age EXCEPT ![p] = 0]
  /\ pc' = "kernel"
  /\ UNCHANGED <<level, in_queue, mlfq, p>>

-----------------------------------------------------------------------------
\* p leaves the CPU for state s; scheduler() starts over.
Switch(s) ==
  /\ state' = [state EXCEPT ![p] = s]
  /\ pc' = "age" /\ p' = 1

\* usertrapret(), and the next system call.
ToUser   == pc = "kernel" /\ pc' = "user"   /\ UNCHANGED <<fields, age, mlfq, p>>
ToKernel == pc = "user"   /\ pc' = "kernel" /\ UNCHANGED <<fields, age, mlfq, p>>

\* clockintr(): everybody's ticks - enter_ticks grows.
ClockIntr ==
  age' = [s \in Slot |-> IF age[s] < AGETICK THEN age[s] + 1 ELSE AGETICK]

\* The timer interrupts scheduler(); or a process in the kernel, which yields.
SchedTick  == pc \in {"age", "enqueue", "dispatch"} /\ ClockIntr
              /\ UNCHANGED <<fields, mlfq, pc, p>>
KernelTick == pc = "kernel" /\ ClockIntr /\ Switch("RUNNABLE")
              /\ UNCHANGED <<level, in_queue, change_queue, mlfq>>

\* The timer interrupts a process in user space: it yields if its slice is used up.
\* (clockintr() would decrement change_queue, but the lines are commented out.)
UserTick ==
  /\ pc = "user" /\ ClockIntr
  /\ IF change_queue[p] <= 0
     THEN /\ level' = [level EXCEPT ![p] = IF @ + 1 # NMLFQ THEN @ + 1 ELSE @]
          /\ Switch("RUNNABLE")
     ELSE UNCHANGED <<level, state, pc, p>>
  /\ UNCHANGED <<in_queue, change_queue, mlfq>>

Sleep == pc = "kernel" /\ Switch("SLEEPING")
         /\ UNCHANGED <<level, in_queue, change_queue, age, mlfq>>
Exit  == pc = "kernel" /\ p # 1 /\ Switch("ZOMBIE")
         /\ UNCHANGED <<level, in_queue, change_queue, age, mlfq>>

Fork == /\ pc = "kernel"
        /\ \E s \in Slot : state[s] = "UNUSED" /\ Born(s)
        /\ UNCHANGED <<mlfq, pc, p>>

\* wait() frees the slot of a zombie.
Reap == /\ pc = "kernel"
        /\ \E s \in Slot : state[s] = "ZOMBIE" /\ state' = [state EXCEPT ![s] = "UNUSED"]
        /\ UNCHANGED <<level, in_queue, change_queue, age, mlfq, pc, p>>

\* wakeup() by an interrupt handler or by the running process.
Wakeup(s) == /\ state[s] = "SLEEPING" /\ state' = [state EXCEPT ![s] = "RUNNABLE"]
             /\ UNCHANGED <<level, in_queue, change_queue, age, mlfq, pc, p>>

-----------------------------------------------------------------------------
Scheduler == AgeSlot \/ Enqueue \/ Pick \/ PickNone \/ Dispatch
GiveUp    == KernelTick \/ Sleep \/ Exit
Running   == ToUser \/ ToKernel \/ Fork \/ Reap \/ UserTick \/ GiveUp

Next == Scheduler \/ Running \/ SchedTick \/ \E s \in Slot : Wakeup(s)

Spec == Init /\ [][Next]_vars

\* The CPU goes on, and every program sooner or later enters the kernel and leaves
\* the CPU there: nothing takes it away from a program that does not.
FairSpec == Spec /\ WF_vars(Scheduler) /\ WF_vars(ToKernel) /\ SF_vars(GiveUp)

\* The CPU goes on, and the timer interrupts again and again.
TimerSpec == Spec /\ WF_vars(Scheduler) /\ WF_vars(UserTick)

-----------------------------------------------------------------------------
\* The type of the state.  No queue overflows (pushback() would panic), no counter
\* underflows.
TypeOK ==
  /\ state \in [Slot -> {"UNUSED", "SLEEPING", "RUNNABLE", "RUNNING", "ZOMBIE"}]
  /\ level \in [Slot -> Level]
  /\ in_queue \in [Slot -> BOOLEAN]
  /\ change_queue \in [Slot -> Nat]
  /\ age \in [Slot -> 0 .. AGETICK]
  /\ DOMAIN mlfq = Level
  /\ \A l \in Level : mlfq[l] \in Seq(Slot) /\ Len(mlfq[l]) <= NPROC
  /\ pc \in {"age", "enqueue", "dispatch", "user", "kernel"}
  /\ p \in 1 .. NPROC + 1

Positions(s) == {at \in Level \X Slot : at[2] <= Len(mlfq[at[1]]) /\ mlfq[at[1]][at[2]] = s}

\* A process whose in_queue is set stands in the queue of its level, and nowhere else;
\* any other process in none; and who is queued is runnable: what delete() and popfront()
\* rely on when they use p->level, and what keeps a slot from being run twice.
QueuesConsistent ==
  /\ TypeOK
  /\ \A s \in Slot :
       IF in_queue[s] THEN /\ state[s] = "RUNNABLE"
                           /\ \E i \in Slot : Positions(s) = {<<level[s], i>>}
                      ELSE Positions(s) = {}

\* The aging of s: it goes from its place to the back of a queue.
Aged(s) == AgeSlot /\ p = s /\ age[s] >= AGETICK

\* A runnable process is run; or, if it is not, aging sends it to the back again and again:
\* a process that waits longer than AGETICK for its turn can be starved by the very rule
\* that should help it, and by nothing else.
StarvedOnlyByAging ==
  \A s \in Slot : []<>(state[s] # "RUNNABLE") \/ []<><<Aged(s)>>_vars

\* "give up the CPU if this is a timer interrupt": no process computes for ever.
TimerPreempts == pc = "user" ~> pc # "user"
=============================================================================
