-------------------------------- MODULE Fcfs --------------------------------
(***************************************************************************)
(* The FCFS build on its one CPU: the clock, sleep(), the scheduler that   *)
(* goes by creation times, and the times that waitx() reports.             *)
(* Source: kernel/proc.c, kernel/trap.c, kernel/sysproc.c.                 *)
(*                                                                         *)
(* The holder of a spinlock has interrupts off, so that on one CPU what is *)
(* done under a lock is one step; between two locks the clock may strike.  *)
(* Slot 0 is a program like time.c: it forks, kills and waits, and does    *)
(* not exit (what becomes of orphans is in Proc).                          *)
(***************************************************************************)
EXTENDS Integers, FiniteSets

CONSTANTS NPROC,
          WORD,   \* 2^32: ticks and the times are unsigned ints
          Naps    \* the n of sys_sleep(); -1 becomes WORD - 1

Slots  == 0 .. NPROC - 1
Parent == 0
NoProc == NPROC   \* a null pointer

VARIABLES ticks,
          proc,     \* struct proc, where its thread is, and (slept, history) the ticks since
                    \* sys_sleep() read the clock, up to WORD
          cur,      \* mycpu()->proc
          scan,     \* scheduler(): the slot it looks at, next_process, and (history)
                    \* who was runnable when it began
          age       \* history: the ticks since the creation of each, up to WORD
vars == <<ticks, proc, cur, scan, age>>

Sub(a, b) == (a - b) % WORD
Add(a, b) == (a + b) % WORD
Least(S) == CHOOSE i \in S : \A j \in S : i <= j

Unused == [state |-> "UNUSED", ctime |-> 0, etime |-> 0, rtime |-> 0, killed |-> FALSE,
           pc |-> "user", op |-> "none", n |-> 0, ticks0 |-> 0, slept |-> 0]
\* allocproc().
Born(p) == [Unused EXCEPT !.state = "USED", !.ctime = ticks]

Begin == [i |-> 0, next |-> NoProc, first |-> {}]
Init == /\ ticks = 0
        /\ proc = [p \in Slots |-> IF p = Parent THEN [Unused EXCEPT !.state = "RUNNABLE"] ELSE Unused]
        /\ cur = NoProc /\ scan = Begin 
        /\ age = [p \in Slots |-> 0]

RunnableSet == {p \in Slots : proc[p].state = "RUNNABLE"}

-----------------------------------------------------------------------------
(* scheduler().                                                            *)
\* A mutant: the first that is found.
PreferFirst(i, next) == next = NoProc
Prefer(i, next) == next = NoProc \/ proc[next].ctime > proc[i].ctime
ScanSlot == /\ cur = NoProc /\ scan.i < NPROC
            /\ scan' = [i |-> scan.i + 1,
                        next |-> IF scan.i \in RunnableSet /\ Prefer(scan.i, scan.next)
                                 THEN scan.i ELSE scan.next,
                        first |-> IF scan.i = 0 THEN RunnableSet ELSE scan.first]
            /\ UNCHANGED <<ticks, proc, cur, age>>
Dispatch == /\ cur = NoProc /\ scan.i = NPROC
            /\ IF scan.next = NoProc THEN UNCHANGED <<proc, cur>>
               ELSE cur' = scan.next /\ proc' = [proc EXCEPT ![scan.next].state = "RUNNING"]
            /\ scan' = Begin
            /\ UNCHANGED <<ticks, age>>

-----------------------------------------------------------------------------
(* The clock interrupt.                                                    *)
Napping(p) == proc[p].op = "sleep" /\ proc[p].pc = "woken"
OnTicks(p) == proc[p].state = "SLEEPING" /\ proc[p].op = "sleep"
\* clockintr(): update_time() and wakeup(&ticks), for one process.
Ticked(p) == [proc[p] EXCEPT !.rtime = IF proc[p].state = "RUNNING" /\ p # Parent THEN Add(@, 1) ELSE @,
                             !.state = IF OnTicks(p) THEN "RUNNABLE" ELSE @,
                             !.slept = IF Napping(p) /\ @ < WORD THEN @ + 1 ELSE @]
\* usertrap() ends a process that was killed, and in this build takes the CPU from
\* no other; kerneltrap() makes a process yield().
Interrupted(p, q) == CASE p # q -> Ticked(p)
                       [] p = q /\ proc[p].pc = "user" ->
                            IF proc[p].killed
                            THEN [Ticked(p) EXCEPT !.pc = "call", !.op = "exit"] ELSE Ticked(p)
                       [] OTHER -> [Ticked(p) EXCEPT !.state = "RUNNABLE"]
Tick == /\ ticks' = Add(ticks, 1)
        /\ proc' = [p \in Slots |-> Interrupted(p, cur)]
        /\ cur' = IF cur # NoProc /\ proc[cur].pc # "user" THEN NoProc ELSE cur
        /\ age' = [p \in Slots |-> IF p = Parent \/ proc[p].state \in {"UNUSED", "ZOMBIE"} \/ age[p] = WORD
                                   THEN age[p] ELSE age[p] + 1]
        /\ UNCHANGED <<scan>>

-----------------------------------------------------------------------------
(* System calls of the process that runs.                                  *)
At(p, pc, op) == cur = p /\ proc[p].pc = pc /\ proc[p].op = op
Called(p, op) == cur = p /\ proc[p].pc \in {"call", "woken"} /\ proc[p].op = op
Done(r, pc, op) == [r EXCEPT !.pc = pc, !.op = op, !.n = 0, !.ticks0 = 0, !.slept = 0]
Exiting(r) == Done(r, "call", "exit")
\* usertrap() after the system call.
Returns(r) == IF r.killed THEN Exiting(r) ELSE Done(r, "user", "none")

Call(p, op, n) == proc' = [proc EXCEPT ![p].pc = "call", ![p].op = op, ![p].n = n]
\* usertrap() with a system call.
Syscall(p) ==
    /\ cur = p /\ proc[p].pc = "user"
    /\ IF proc[p].killed THEN proc' = [proc EXCEPT ![p] = Exiting(@)]
       ELSE \/ p # Parent /\ \E n \in Naps : Call(p, "sleep", n)
            \/ p # Parent /\ Call(p, "exit", 0)
            \/ p = Parent /\ \E op \in {"fork", "waitx"} : Call(p, op, 0)
            \/ p = Parent /\ \E q \in Slots \ {Parent} : Call(p, "kill", q)
    /\ UNCHANGED <<ticks, cur, scan, age>>
Asleep(r) == [r EXCEPT !.state = "SLEEPING", !.pc = "woken"]
\* A mutant: one tick less.
TooEarlyLess(t0, n) == Sub(ticks, t0) + 1 < n
TooEarly(t0, n) == Sub(ticks, t0) < n
\* sys_sleep(), under tickslock at the beginning and after each wakeup.
Sleep(p) ==
    LET t0 == IF proc[p].pc = "call" THEN ticks ELSE proc[p].ticks0
        sleeps == TooEarly(t0, proc[p].n) /\ ~proc[p].killed
    IN /\ Called(p, "sleep")
       /\ proc' = [proc EXCEPT ![p] = IF sleeps THEN Asleep([@ EXCEPT !.ticks0 = t0]) ELSE Returns(@)]
       /\ cur' = IF sleeps THEN NoProc ELSE cur
       /\ UNCHANGED <<ticks, scan, age>>

\* fork(): allocproc() takes a slot, which becomes RUNNABLE under another lock.
Fork(p) == /\ At(p, "call", "fork")
           /\ LET free == {q \in Slots : proc[q].state = "UNUSED"}
                  q == Least(free)
              IN IF free = {} THEN proc' = [proc EXCEPT ![p] = Returns(@)] /\ UNCHANGED age
                 ELSE /\ proc' = [proc EXCEPT ![q] = Born(q), ![p].op = "forked", ![p].n = q]
                      /\ age' = [age EXCEPT ![q] = 0]
           /\ UNCHANGED <<ticks, cur, scan>>
Forked(p) == /\ At(p, "call", "forked")
             /\ proc' = [proc EXCEPT ![proc[p].n].state = "RUNNABLE", ![p] = Returns(@)]
             /\ UNCHANGED <<ticks, cur, scan, age>>

Kill(p) == /\ At(p, "call", "kill")
           /\ LET q == proc[p].n
              IN proc' = [proc EXCEPT ![p] = Returns(@), ![q].killed = @ \/ proc[q].state # "UNUSED",
                              ![q].state = IF @ = "SLEEPING" THEN "RUNNABLE" ELSE @]
           /\ UNCHANGED <<ticks, cur, scan, age>>

\* exit(): the parent may sleep in waitx().
Exit(p) == /\ At(p, "call", "exit")
           /\ proc' = [proc EXCEPT ![p].state = "ZOMBIE", ![p].etime = ticks,
                                   ![Parent].state = IF @ = "SLEEPING" THEN "RUNNABLE" ELSE @]
           /\ cur' = NoProc
           /\ UNCHANGED <<ticks, scan, age>>

TimesOf(q) == [rtime |-> proc[q].rtime,
               wtime |-> Sub(Sub(proc[q].etime, proc[q].ctime), proc[q].rtime)]
\* sys_waitx() and waitx(), under wait_lock.  It copies out wtime and rtime in any
\* case; they are set when a zombie is found.
Waitx(p) ==
    LET kids == {q \in Slots \ {Parent} : proc[q].state \notin {"UNUSED", "USED"}}
        zombies == {q \in kids : proc[q].state = "ZOMBIE"}
        q == Least(zombies)
    IN /\ Called(p, "waitx")
       /\ CASE zombies # {} ->
                 /\ \/ proc' = [proc EXCEPT ![p] = Returns(@), ![q] = Unused] /\ age' = [age EXCEPT ![q] = 0]
                    \/ proc' = [proc EXCEPT ![p] = Returns(@)] /\ UNCHANGED age  \* addr is bad
                 /\ UNCHANGED cur
            [] zombies = {} /\ (kids = {} \/ proc[p].killed) ->
                 /\ proc' = [proc EXCEPT ![p] = Returns(@)] /\ UNCHANGED <<age, cur>>
            [] OTHER -> /\ proc' = [proc EXCEPT ![p] = Asleep(@)]
                        /\ cur' = NoProc /\ UNCHANGED <<age>>
       /\ UNCHANGED <<ticks, scan>>

Next == \/ ScanSlot \/ Dispatch \/ Tick
        \/ \E p \in Slots : \/ Syscall(p) \/ Sleep(p) \/ Fork(p) \/ Forked(p)
                            \/ Kill(p) \/ Exit(p) \/ Waitx(p)
Spec == Init /\ [][Next]_vars

-----------------------------------------------------------------------------
(* Properties.                                                             *)

\* The CPU goes to a process that was created no later than any that had been
\* runnable since the choice began (in ticks, which pass 2^32 - 1 after years), and
\* somebody is chosen if anybody was: a wakeup during the choice does not hide one.
OldestFirst ==
    scan.i = NPROC => \/ scan.first = {}
                      \/ /\ scan.next \in RunnableSet
                         /\ \A q \in scan.first : proc[scan.next].ctime <= proc[q].ctime

\* Nobody sleeps on after its time has come or it was killed; nobody has run for longer
\* than it has lived, so that the waiting time that waitx() computes is not negative; and
\* it adds up.  That is over the wraparound of ticks and of the times, for a process
\* younger than WORD ticks; and for a sleeper that gets the CPU within WORD ticks: one
\* that does not, finds ticks - ticks0 small again and sleeps once more.
TimesInv ==
    \A p \in Slots \ {Parent} :
        /\ OnTicks(p) => ~proc[p].killed /\ (proc[p].slept < WORD => proc[p].slept < proc[p].n)
        /\ proc[p].state \notin {"UNUSED", "ZOMBIE"} /\ age[p] < WORD
             => proc[p].rtime <= age[p] /\ Sub(ticks, proc[p].ctime) = age[p]
        /\ proc[p].state = "ZOMBIE" /\ age[p] < WORD
             => TimesOf(p).rtime + TimesOf(p).wtime = age[p]

\* sys_sleep() of a process that is not killed never ends early, however long that
\* process waits for the CPU.
NapEnds ==
    \A p \in Slots \ {Parent} : Napping(p) /\ proc'[p].op # "sleep"
                                 => proc[p].slept >= proc[p].n \/ proc[p].killed

\* What the clock promises.
TimesAgree == []TimesInv /\ [][NapEnds]_vars
=============================================================================
