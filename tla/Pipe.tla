-------------------------------- MODULE Pipe --------------------------------
(***************************************************************************)
(* A pipe: pipewrite(), piperead() and pipeclose() by processes that share *)
(* its two ends, and kill() of any of them.  Source: kernel/pipe.c.        *)
(*                                                                         *)
(* pi->lock is held from the start of a call to its return or its sleep().  *)
(* One action is one turn of a loop under the lock, because kill() does    *)
(* not take it.  sleep() is two actions: the decision, and the release of  *)
(* the lock with SLEEPING (Proc shows that this loses no wakeup()).        *)
(***************************************************************************)
EXTENDS Integers, Sequences

CONSTANTS Proc,
          NoProc,    \* the holder of a free lock
          Byte,      \* the bytes that are written
          PIPESIZE,
          UINT,      \* nread and nwrite are unsigned: they wrap around at UINT
          Sizes,     \* the n of read() and write() calls
          Ends,      \* for each process the ends it has open, after fork()
          Victims,   \* the processes that kill() is called on
          OneCPU     \* with one CPU nothing runs while a spinlock is held

ASSUME PipeAssumption == /\ PIPESIZE \in Nat \ {0}
                         /\ UINT \in Nat /\ UINT > PIPESIZE /\ UINT % PIPESIZE = 0
                         /\ Sizes \subseteq Nat
                         /\ Ends \in [Proc -> SUBSET {"read", "write"}]
                         /\ Victims \subseteq Proc
                         /\ NoProc \notin Proc
                         /\ OneCPU \in BOOLEAN

VARIABLES
  data, nread, nwrite, readopen, writeopen,   \* struct pipe
  lock,                                       \* pi->lock
  fds,      \* for each process the ends it has open
  killed,   \* the processes with p->killed
  thr       \* where each process stands, and the n and i of its call

pipe == <<data, nread, nwrite, readopen, writeopen>>
vars == <<pipe, lock, fds, killed, thr>>

Idle == [pc |-> "idle", n |-> 0, i |-> 0]

Init ==
  /\ data \in [0 .. PIPESIZE - 1 -> Byte]
  /\ nread = 0 /\ nwrite = 0
  /\ readopen = TRUE /\ writeopen = TRUE
  /\ lock = NoProc
  /\ fds = Ends
  /\ killed = {}
  /\ thr = [p \in Proc |-> Idle]

At(p, l)    == thr[p].pc = l
Moved(p, l) == [thr EXCEPT ![p].pc = l]
Goto(p, l)  == thr' = Moved(p, l)

\* wakeup(): those that sleep at l, in t, go for the lock again.
Awoken(t, l) == [p \in Proc |->
  IF t[p].pc # l THEN t[p]
  ELSE [t[p] EXCEPT !.pc = IF l = "read_asleep" THEN "read_enter" ELSE "write_enter"]]

Wakeup(l) == thr' = Awoken(thr, l)

Empty == nread = nwrite
\* Mutant: the writer laps the reader.
FullLate == nwrite = (nread + PIPESIZE + 1) % UINT
Full == nwrite = (nread + PIPESIZE) % UINT

-----------------------------------------------------------------------------
\* read() or write() of n bytes by a process that has the end open.
Call(p) ==
  /\ At(p, "idle") /\ p \notin killed
  /\ \E e \in fds[p], n \in Sizes :
       thr' = [thr EXCEPT ![p] = [pc |-> IF e = "read" THEN "read_enter" ELSE "write_enter",
                                  n |-> n, i |-> 0]]
  /\ UNCHANGED <<pipe, lock, fds, killed>>

\* acquire(&pi->lock), at the start of a call and after each sleep().
Acquire(p) ==
  /\ lock = NoProc
  /\ lock' = p
  /\ \/ At(p, "read_enter")  /\ Goto(p, "read")
     \/ At(p, "write_enter") /\ Goto(p, "write")
  /\ UNCHANGED <<pipe, fds, killed>>

Sleep(p) ==
  /\ lock' = NoProc
  /\ \/ At(p, "read_sleep")  /\ Goto(p, "read_asleep")
     \/ At(p, "write_sleep") /\ Goto(p, "write_asleep")
  /\ UNCHANGED <<pipe, fds, killed>>

-----------------------------------------------------------------------------
\* pipewrite(): gives up when nobody reads any more, or when p was killed.
WriteFail(p) ==
  /\ At(p, "write") /\ thr[p].i < thr[p].n
  /\ ~ readopen \/ p \in killed
  /\ lock' = NoProc
  /\ thr' = [thr EXCEPT ![p] = Idle]
  /\ UNCHANGED <<pipe, fds, killed>>

\* The pipe is full: wake the readers and sleep.
WriteFull(p) ==
  /\ At(p, "write") /\ thr[p].i < thr[p].n
  /\ readopen /\ p \notin killed
  /\ Full
  /\ thr' = Awoken(Moved(p, "write_sleep"), "read_asleep")
  /\ UNCHANGED <<pipe, lock, fds, killed>>

\* One byte more.
WriteByte(p) ==
  /\ At(p, "write") /\ thr[p].i < thr[p].n
  /\ readopen /\ p \notin killed
  /\ ~ Full
  /\ \E b \in Byte : data' = [data EXCEPT ![nwrite % PIPESIZE] = b]
  /\ nwrite' = (nwrite + 1) % UINT
  /\ thr' = [thr EXCEPT ![p].i = @ + 1]
  /\ UNCHANGED <<nread, readopen, writeopen, lock, fds, killed>>

\* All is written, or the next byte cannot be copied from the caller's memory.
WriteDone(p) ==
  /\ At(p, "write")
  /\ thr[p].i < thr[p].n => readopen /\ p \notin killed /\ ~ Full
  /\ lock' = NoProc
  /\ thr' = Awoken([thr EXCEPT ![p] = Idle], "read_asleep")
  /\ UNCHANGED <<pipe, fds, killed>>

-----------------------------------------------------------------------------
\* piperead(): nothing to read, but there may be: sleep, or return if killed.
ReadWait(p) ==
  /\ At(p, "read")
  /\ Empty /\ writeopen
  /\ IF p \in killed THEN lock' = NoProc /\ thr' = [thr EXCEPT ![p] = Idle]
                     ELSE UNCHANGED lock /\ Goto(p, "read_sleep")
  /\ UNCHANGED <<pipe, fds, killed>>

ReadStart(p) ==
  /\ At(p, "read")
  /\ ~ (Empty /\ writeopen)
  /\ Goto(p, "read_copy")
  /\ UNCHANGED <<pipe, lock, fds, killed>>

\* One byte more.  When it cannot be copied to the caller's memory it is lost, and
\* the call ends.
ReadByte(p) ==
  /\ At(p, "read_copy") /\ thr[p].i < thr[p].n
  /\ ~ Empty
  /\ nread' = (nread + 1) % UINT
  /\ \/ thr' = [thr EXCEPT ![p].i = @ + 1]
     \/ Goto(p, "read_done")
  /\ UNCHANGED <<data, nwrite, readopen, writeopen, lock, fds, killed>>

\* Mutant: the writers are not woken.
ReadDoneSilently(p) ==
  /\ At(p, "read_done") \/ (At(p, "read_copy") /\ (thr[p].i >= thr[p].n \/ Empty))
  /\ lock' = NoProc
  /\ thr' = [thr EXCEPT ![p] = Idle]
  /\ UNCHANGED <<pipe, fds, killed>>

ReadDone(p) ==
  /\ At(p, "read_done") \/ (At(p, "read_copy") /\ (thr[p].i >= thr[p].n \/ Empty))
  /\ lock' = NoProc
  /\ thr' = Awoken([thr EXCEPT ![p] = Idle], "write_asleep")
  /\ UNCHANGED <<pipe, fds, killed>>

-----------------------------------------------------------------------------
\* fileclose(), by close() or exit(): the last one out closes the end.
LastOpen(p, e) == \A q \in Proc \ {p} : e \notin fds[q]

PipeClose(e) ==
  /\ readopen'  = (readopen /\ e # "read")
  /\ writeopen' = (writeopen /\ e # "write")
  /\ Wakeup(IF e = "read" THEN "write_asleep" ELSE "read_asleep")

Close(p) ==
  /\ At(p, "idle")
  /\ lock = NoProc
  /\ \E e \in fds[p] :
       /\ fds' = [fds EXCEPT ![p] = @ \ {e}]
       /\ IF LastOpen(p, e) THEN PipeClose(e) ELSE UNCHANGED <<readopen, writeopen, thr>>
  /\ UNCHANGED <<data, nread, nwrite, lock, killed>>

\* Mutant: a sleeping victim is not woken.
KillAsleep(p) ==
  /\ p \in Victims \ killed
  /\ OneCPU => lock = NoProc
  /\ killed' = killed \cup {p}
  /\ UNCHANGED <<pipe, lock, fds, thr>>

\* kill(): the victim is marked, and woken if it sleeps.
Kill(p) ==
  /\ p \in Victims \ killed
  /\ OneCPU => lock = NoProc
  /\ killed' = killed \cup {p}
  /\ Goto(p, CASE At(p, "read_asleep")  -> "read_enter"
               [] At(p, "write_asleep") -> "write_enter"
               [] OTHER -> thr[p].pc)
  /\ UNCHANGED <<pipe, lock, fds>>

-----------------------------------------------------------------------------
WriteStep(p) == WriteFail(p) \/ WriteFull(p) \/ WriteByte(p) \/ WriteDone(p)
ReadStep(p)  == ReadWait(p) \/ ReadStart(p) \/ ReadByte(p) \/ ReadDone(p)

\* What the kernel does of its own accord for p.
KernelStep(p) == Sleep(p) \/ WriteStep(p) \/ ReadStep(p)

Next == \E p \in Proc : Call(p) \/ Acquire(p) \/ KernelStep(p) \/ Close(p) \/ Kill(p)

Spec == Init /\ [][Next]_vars

\* A spinlock that is free again and again is acquired by who waits for it, what
\* runs under it goes on, and a killed process exits, which closes its files.
FairSpec ==
  /\ Spec
  /\ \A p \in Proc : /\ WF_vars(KernelStep(p)) /\ SF_vars(Acquire(p))
                     /\ SF_vars(p \in killed /\ Close(p))

-----------------------------------------------------------------------------
Asleep == {"read_asleep", "write_asleep"}
Locked == {"read", "read_sleep", "read_copy", "read_done", "write", "write_sleep"}
Reading == {p \in Proc : thr[p].pc \in {"read_enter", "read", "read_sleep", "read_asleep",
                                        "read_copy", "read_done"}}
Writing == {p \in Proc : thr[p].pc \in {"write_enter", "write", "write_sleep", "write_asleep"}}
Labels == {"idle", "read_enter", "write_enter"} \cup Asleep \cup Locked

\* The type of the state; who is in a critical section holds the lock.
TypeOK ==
  /\ data \in [0 .. PIPESIZE - 1 -> Byte]
  /\ nread \in 0 .. UINT - 1 /\ nwrite \in 0 .. UINT - 1
  /\ readopen \in BOOLEAN /\ writeopen \in BOOLEAN
  /\ lock \in Proc \cup {NoProc}
  /\ fds \in [Proc -> SUBSET {"read", "write"}]
  /\ killed \subseteq Proc
  /\ thr \in [Proc -> [pc : Labels, n : Nat, i : Nat]]
  /\ \A p \in Proc : lock = p <=> thr[p].pc \in Locked

\* The bytes in the ring, oldest first.
Count == (nwrite - nread) % UINT
Queue == [k \in 1 .. Count |-> data[(nread + k - 1) % PIPESIZE]]

\* The pipe is a bounded FIFO: the unsigned counters may wrap around, several
\* processes may write and read at once, and an end may be closed under way.
Fifo == INSTANCE Channel WITH queue <- Queue, Capacity <- PIPESIZE
BoundedFifo == Fifo!Spec

\* "pipe-empty", "pipewrite-full": while nobody is in the pipe, a reader sleeps only if
\* the pipe is empty and somebody may still write, a writer only if it is full and
\* somebody may still read.
NoLostWakeup ==
  lock = NoProc =>
    \A p \in Proc : /\ At(p, "read_asleep")  => Empty /\ writeopen
                    /\ At(p, "write_asleep") => Full /\ readopen

\* When one end is closed, whoever is in a call at the other, asleep or not, returns
\* (a reader after it took what is left).
ClosedReturns ==
  \A p \in Proc : /\ (~ writeopen /\ p \in Reading) ~> p \notin Reading
                  /\ (~ readopen /\ p \in Writing) ~> p \notin Writing

\* A killed process leaves the pipe, also when it sleeps there.
KilledLeaves == \A p \in Proc : p \in killed ~> fds[p] = {}

\* No call is stuck in the pipe for ever: neither once the other end is closed, nor
\* once its process is killed.
Returns == ClosedReturns /\ KilledLeaves
=============================================================================
