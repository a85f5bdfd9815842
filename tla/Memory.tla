------------------------------- MODULE Memory -------------------------------
(***************************************************************************)
(* The memory of the processes: fork(), exec(), sbrk(), exit() and wait()  *)
(* over the page tables of Vm, down to the last free page, and the page in *)
(* which usertrap() keeps the trapframe while an alarm handler runs.       *)
(* Source: kernel/proc.c, kernel/exec.c, kernel/sysfile.c (sys_exec),      *)
(* kernel/sysproc.c (sys_sigalarm, sys_sigreturn), kernel/trap.c.          *)
(*                                                                         *)
(* A call is one action: it works on tables that nobody else sees, and of  *)
(* the others it notices only how many pages they have left.               *)
(***************************************************************************)
EXTENDS Vm

CONSTANTS Proc,
          InitProc,    \* initproc
          NoProc,      \* no parent
          InitSize,    \* p->sz of userinit()
          Programs,    \* what exec() finds: the loaded segments [vaddr, memsz, filesz]
          MAXARG,
          Increments,  \* the n of sbrk()
          Intervals,   \* the intervals of sigalarm()
          UserTop      \* bound: no process grows beyond it; memory ends long before TRAPFRAME

ASSUME MemoryAssumption == /\ InitProc \in Proc /\ NoProc \notin Proc
                           /\ InitSize \in 1 .. PGSIZE
                           /\ UserTop <= TRAPFRAME * PGSIZE /\ UserTop < WORD
                           /\ \A prog \in Programs : \A k \in DOMAIN prog :
                                 prog[k].vaddr % PGSIZE = 0 /\ prog[k].filesz <= prog[k].memsz

VARIABLES free,      \* kmem.freelist
          state,     \* "unused", "run" or "zombie"
          parent,
          table,     \* p->pagetable: dir and leaf as in Vm
          sz,
          trapframe, \* its page, 0 if there is none
          alarm,     \* alarm_trapframe, interval, now_ticks and sigalarm_status
          ret,       \* what the last call returned: "ok" or "error"
          panic,     \* why the kernel panicked
          dropped    \* ghost: pages that alarm_trapframe was the only pointer to

vars == <<free, state, parent, table, sz, trapframe, alarm, ret, panic, dropped>>

NoTable == [dir |-> Nothing, leaf |-> Nothing]
NoAlarm == [page |-> 0, interval |-> 0, now |-> 0, inside |-> FALSE]
Kept(m) == [dir |-> m.dir, leaf |-> m.leaf]
Of(p) == [Table(free) EXCEPT !.dir = table[p].dir, !.leaf = table[p].leaf]

-----------------------------------------------------------------------------
\* allocproc(): m.trapframe is its page; without a page table that is given back.
WithTrapframe(m, page) == IF m.ok THEN m @@ [trapframe |-> page]
                          ELSE Kfree(m, {page}) @@ [trapframe |-> 0]
Allocproc(pages) == IF pages = {} THEN Failed(Table(pages), 0) @@ [trapframe |-> 0]
                    ELSE WithTrapframe(ProcPagetable(Taken(Table(pages)), Min(pages)), Min(pages))

\* freeproc() of the trapframe, the alarm's page if any, and the page table.
Freeproc(m, page, alarmPage, size) ==
    Kfree(ProcFreepagetable(m, size), {page} \cup ({alarmPage} \ {0}))

\* userinit() and uvmfirst().
FirstTable == Grow(Allocproc(Page), 0, TRUE)
Init == /\ free = FirstTable.free
        /\ state = [p \in Proc |-> IF p = InitProc THEN "run" ELSE "unused"]
        /\ parent = [p \in Proc |-> NoProc]
        /\ table = [p \in Proc |-> IF p = InitProc THEN Kept(FirstTable) ELSE NoTable]
        /\ sz = [p \in Proc |-> IF p = InitProc THEN InitSize ELSE 0]
        /\ trapframe = [p \in Proc |-> IF p = InitProc THEN FirstTable.trapframe ELSE 0]
        /\ alarm = [p \in Proc |-> NoAlarm]
        /\ ret = "ok" /\ panic = "none" /\ dropped = {}

Runs(p) == panic = "none" /\ state[p] = "run"
Return(ok) == ret' = IF ok THEN "ok" ELSE "error"

-----------------------------------------------------------------------------
(* fork().                                                                 *)
ForkCopied(m, size) == IF m.ok THEN m ELSE [Freeproc(m, m.trapframe, 0, 0) EXCEPT !.ok = FALSE]
ForkTable(p) == LET m == Allocproc(free)
                IN IF m.ok THEN ForkCopied(Uvmcopy(m, table[p].leaf, sz[p]), sz[p]) ELSE m

Fork(p) == \E c \in Proc, m \in {ForkTable(p)} :
    /\ Runs(p) /\ state[c] = "unused"
    /\ free' = m.free
    /\ panic' = m.panic
    /\ Return(m.ok)
    /\ IF m.ok THEN /\ state' = [state EXCEPT ![c] = "run"]
                    /\ parent' = [parent EXCEPT ![c] = p]
                    /\ table' = [table EXCEPT ![c] = Kept(m)]
                    /\ sz' = [sz EXCEPT ![c] = sz[p]]
                    /\ trapframe' = [trapframe EXCEPT ![c] = m.trapframe]
       ELSE UNCHANGED <<state, parent, table, sz, trapframe>>
    /\ UNCHANGED <<alarm, dropped>>

-----------------------------------------------------------------------------
(* sys_exec() and exec().  m.sz is the size so far.  Where the file or the *)
(* arguments are bad, exec() gives up: at the header, in a segment or at   *)
(* the stack.                                                              *)
Sized(m) == IF m.res = 0 THEN [m EXCEPT !.ok = FALSE] ELSE [m EXCEPT !.sz = m.res]

\* loadseg() reads into pages that are mapped.
Loadseg(m, seg) ==
    IF m.ok /\ \E va \in seg.vaddr \div PGSIZE .. PgUp(seg.vaddr + seg.filesz) - 1 : Walkaddr(m.leaf, va) = 0
    THEN Panic(m, "loadseg: address should exist") ELSE m
LoadSegment(m, seg) == IF ~m.ok THEN m
                       ELSE Loadseg(Sized(Uvmalloc(m, m.sz, seg.vaddr + seg.memsz)), seg)
Load(m, prog) == FoldLeft(LoadSegment, m, prog)

StackTop(m) == (PgUp(m.sz) + 2) * PGSIZE
Guarded(m) == IF m.ok THEN Uvmclear(m, PgUp(m.sz) - 2) ELSE m
Stack(m) == IF m.ok THEN Guarded(Sized(Uvmalloc(m, PgUp(m.sz) * PGSIZE, StackTop(m)))) ELSE m

Bad(m, here) == IF here THEN [m EXCEPT !.ok = FALSE] ELSE m
ExecImage(m, prog, bad) ==
    IF m.ok THEN Bad(Stack(Bad(Load(m @@ [sz |-> 0], prog), bad = "segment")), bad = "stack")
    ELSE m @@ [sz |-> 0]

\* The new table or the old one is freed, and the pages of the arguments.
ExecDone(p, m, args) ==
    LET old == ProcFreepagetable([Of(p) EXCEPT !.free = m.free \cup args], sz[p])
        undone == IF m.dir = Nothing THEN m ELSE ProcFreepagetable(m, m.sz)
    IN IF m.ok THEN /\ table' = [table EXCEPT ![p] = Kept(m)]
                    /\ sz' = [sz EXCEPT ![p] = m.sz]
                    /\ free' = old.free
                    /\ panic' = Panic(m, old.panic).panic
       ELSE /\ free' = undone.free \cup args
            /\ panic' = undone.panic
            /\ UNCHANGED <<table, sz>>

\* The pages that sys_exec() takes for n arguments.
ArgPages(n) == {page \in free : Cardinality({q \in free : q < page}) < n}

\* n arguments, of which all were copied in unless bad is "argument".
Exec(p) == \E n \in 0 .. MAXARG, prog \in Programs, bad \in {"no", "argument", "header", "segment", "stack"} :
    /\ Runs(p)
    /\ IF n > Cardinality(free) \/ bad \in {"argument", "header"}
       THEN Return(FALSE) /\ UNCHANGED <<free, panic, table, sz>>
       ELSE \E m \in {ExecImage(ProcPagetable(Table(free \ ArgPages(n)), trapframe[p]), prog, bad)} :
              Return(m.ok) /\ ExecDone(p, m, ArgPages(n))
    /\ UNCHANGED <<state, parent, trapframe, alarm, dropped>>

-----------------------------------------------------------------------------
(* sbrk(): growproc().  sz - n below 0 is a large address.                 *)
Growproc(p, n) == CASE n > 0 -> Uvmalloc(Of(p), sz[p], sz[p] + n)
                    [] n < 0 -> Uvmdealloc(Of(p), sz[p], (sz[p] + n) % WORD)
                    [] OTHER -> [Of(p) EXCEPT !.res = sz[p]]
Sbrk(p) == \E n \in Increments : \E m \in {Growproc(p, n)} :
    LET failed == n > 0 /\ m.res = 0
    IN /\ Runs(p) /\ sz[p] + n <= UserTop
       /\ free' = m.free
       /\ table' = [table EXCEPT ![p] = Kept(m)]
       /\ sz' = [sz EXCEPT ![p] = IF failed THEN @ ELSE m.res]
       /\ panic' = m.panic
       /\ Return(~failed)
       /\ UNCHANGED <<state, parent, trapframe, alarm, dropped>>

-----------------------------------------------------------------------------
(* exit() and wait().                                                      *)
Exit(p) == /\ Runs(p) /\ p # InitProc
           /\ state' = [state EXCEPT ![p] = "zombie"]
           /\ parent' = [q \in Proc |-> IF parent[q] = p THEN InitProc ELSE parent[q]]
           /\ Return(TRUE)
           /\ UNCHANGED <<free, table, sz, trapframe, alarm, panic, dropped>>

ReapIf(c, m, reaped) ==
    IF reaped THEN /\ free' = m.free /\ panic' = m.panic
                   /\ state' = [state EXCEPT ![c] = "unused"]
                   /\ parent' = [parent EXCEPT ![c] = NoProc]
                   /\ table' = [table EXCEPT ![c] = NoTable]
                   /\ sz' = [sz EXCEPT ![c] = 0]
                   /\ trapframe' = [trapframe EXCEPT ![c] = 0]
                   /\ alarm' = [alarm EXCEPT ![c] = NoAlarm]
    ELSE UNCHANGED <<free, panic, state, parent, table, sz, trapframe, alarm>>
\* A mutant: the child is freed before its status is copied out.
ReapFirst(c, m, copied) == ReapIf(c, m, TRUE)
Reap(c, m, copied) == ReapIf(c, m, copied)

\* The status is copied out, to addr if that is not 0, before the child is freed.
Wait(p) == \E c \in Proc, addr \in {0, PGSIZE - 1, UserTop} :
    LET copied == addr = 0 \/ Copy(table[p].leaf, addr, 2).ok
    IN /\ Runs(p) /\ parent[c] = p /\ state[c] = "zombie"
       /\ Return(copied)
       /\ Reap(c, Freeproc(Of(c), trapframe[c], alarm[c].page, sz[c]), copied)
       /\ UNCHANGED dropped

-----------------------------------------------------------------------------
(* Alarms.                                                                 *)
SysSigalarm(p) == \E n \in Intervals :
    /\ Runs(p)
    /\ alarm' = [alarm EXCEPT ![p] = [@ EXCEPT !.interval = n, !.now = 0, !.inside = FALSE]]
    /\ Return(TRUE)
    /\ UNCHANGED <<free, state, parent, table, sz, trapframe, panic, dropped>>

\* A timer interrupt in user mode that is not yet the alarm; inside the handler
\* now_ticks only has to pass the interval (bound).
Due(p) == ~alarm[p].inside /\ alarm[p].now + 1 >= alarm[p].interval
Tick(p) == /\ Runs(p) /\ alarm[p].interval > 0 /\ ~Due(p)
           /\ alarm' = [alarm EXCEPT ![p].now = Least(@ + 1, alarm[p].interval)]
           /\ UNCHANGED <<free, state, parent, table, sz, trapframe, ret, panic, dropped>>

\* The alarm: a page that is still there from an earlier one is forgotten.
TickAlarm(p) == /\ Runs(p) /\ alarm[p].interval > 0 /\ Due(p)
                /\ IF free = {}
                   THEN panic' = "usertrap: no page" /\ UNCHANGED <<free, alarm, dropped>>
                   ELSE /\ free' = free \ {Min(free)}
                        /\ alarm' = [alarm EXCEPT ![p] =
                              [@ EXCEPT !.page = Min(free), !.now = 0, !.inside = TRUE]]
                        /\ dropped' = dropped \cup ({alarm[p].page} \ {0})
                        /\ UNCHANGED panic
                /\ UNCHANGED <<state, parent, table, sz, trapframe, ret>>

SysSigreturn(p) == /\ Runs(p)
                   /\ IF alarm[p].page = 0
                      THEN panic' = "sigreturn: no page" /\ UNCHANGED <<free, alarm>>
                      ELSE /\ free' = free \cup {alarm[p].page}
                           /\ alarm' = [alarm EXCEPT ![p] = [@ EXCEPT !.page = 0, !.now = 0, !.inside = FALSE]]
                           /\ UNCHANGED panic
                   /\ Return(TRUE)
                   /\ UNCHANGED <<state, parent, table, sz, trapframe, dropped>>

Next == \E p \in Proc : \/ Fork(p) \/ Exec(p) \/ Sbrk(p) \/ Exit(p) \/ Wait(p)
                        \/ SysSigalarm(p) \/ Tick(p) \/ TickAlarm(p) \/ SysSigreturn(p)
Spec == Init /\ [][Next]_vars

\* What a state is but for the numbers of the pages: runs that differ in those
\* only are the same.
Users(p) == [va \in DOMAIN table[p].leaf |-> table[p].leaf[va].user]
Shape == <<Cardinality(free), Cardinality(dropped), state, parent, sz, ret, panic,
           [p \in Proc |-> <<DOMAIN table[p].dir, Users(p), trapframe[p] = 0,
                             [alarm[p] EXCEPT !.page = IF @ = 0 THEN 0 ELSE 1]>>]>>

-----------------------------------------------------------------------------
(* Properties.                                                             *)
TypeOK == /\ free \subseteq Page /\ dropped \subseteq Page
          /\ state \in [Proc -> {"unused", "run", "zombie"}]
          /\ parent \in [Proc -> Proc \cup {NoProc}]
          /\ ret \in {"ok", "error"}

\* The pages a process has, by what they are for.
UserPages(p) == {va \in DOMAIN table[p].leaf : va < TRAPFRAME}
Uses(p) == {<<p, "dir", n>> : n \in DOMAIN table[p].dir} \cup {<<p, "user", va>> : va \in UserPages(p)}
           \cup {<<p, "trapframe", 0>>, <<p, "alarm", 0>>}
PageOf(u) == CASE u[2] = "dir" -> table[u[1]].dir[u[3]]
               [] u[2] = "user" -> table[u[1]].leaf[u[3]].page
               [] u[2] = "trapframe" -> trapframe[u[1]]
               [] OTHER -> alarm[u[1]].page
InUse == {u \in UNION {Uses(p) : p \in Proc} : PageOf(u) # 0}

\* However far a call came before memory ran out: a page is free or has one use
\* or an alarm has dropped it, and what is mapped is what p->sz says, which is
\* what fork, exec and wait rely on.
PagesOnce ==
    /\ TypeOK
    /\ Page = free \cup dropped \cup {PageOf(u) : u \in InUse}
    /\ \A u \in InUse : PageOf(u) \notin free \cup dropped
    /\ \A u, v \in InUse : PageOf(u) = PageOf(v) => u = v
    /\ free \cap dropped = {}
    /\ \A p \in Proc : state[p] # "unused" =>
          /\ DOMAIN table[p].leaf = (0 .. PgUp(sz[p]) - 1) \cup {TRAPFRAME, TRAMPOLINE}
          /\ table[p].leaf[TRAPFRAME].page = trapframe[p]
          /\ ~table[p].leaf[TRAPFRAME].user /\ ~table[p].leaf[TRAMPOLINE].user

\* The checks of the page-table functions never fail: only alarms bring the
\* kernel down, by a handler's page that is not there.
OnlyAlarmsPanic == panic \in {"none", "usertrap: no page", "sigreturn: no page"}

\* A call that fails leaves the processes and what they have mapped as they were.
FailedCallKeeps == [][ret' = "error" /\ panic' = "none" =>
    /\ state' = state /\ sz' = sz
    /\ \A p \in Proc : table'[p].leaf = table[p].leaf]_vars

\* A copy visits, byte by byte, what the page table says, and fails at the first
\* byte without a user mapping; the length of a string is found the same way.
ByteOk(p, addr) == Walkaddr(table[p].leaf, addr \div PGSIZE) # 0
ByteAt(p, addr) == <<Walkaddr(table[p].leaf, addr \div PGSIZE), addr % PGSIZE>>
CopiesAgree == \A p \in Proc : state[p] = "run" =>
    \A addr \in 0 .. UserTop, len \in 0 .. 2 * PGSIZE + 1 :
       /\ \E c \in {Copy(table[p].leaf, addr, len)} :
             /\ c.ok <=> \A i \in 0 .. len - 1 : ByteOk(p, addr + i)
             /\ c.ok => c.at = [i \in 1 .. len |-> ByteAt(p, addr + i - 1)]
       /\ \A n \in 0 .. PGSIZE : \E c \in {Copyinstr(table[p].leaf, addr, n, len)} :
             /\ c.ok <=> n < len /\ \A i \in 0 .. n : ByteOk(p, addr + i)
             /\ c.ok => c.n = n
=============================================================================
