--------------------------------- MODULE Vm ---------------------------------
(***************************************************************************)
(* Page tables of kernel/vm.c over the free list of kernel/kalloc.c.       *)
(* Virtual pages are 0..7: a table has three levels of two entries each.   *)
(* A table that is worked on is a record m: the free pages, the pages of   *)
(* the table itself by the path that leads to them (dir), the mappings     *)
(* (leaf: a page and PTE_U), ok: no kalloc() has failed, at: the virtual   *)
(* page where one did, res: what uvmalloc() returned, panic.  Sizes and    *)
(* addresses of bytes have PGSIZE units to the page.                       *)
(***************************************************************************)
EXTENDS Integers, Sequences, SequencesExt

CONSTANTS NPAGE,   \* the pages of physical memory that kinit() frees
          PGSIZE,
          WORD     \* 2^64: addresses wrap around

ASSUME VmAssumption == NPAGE \in Nat /\ PGSIZE \in Nat \ {0} /\ WORD \in Nat \ {0}

Page == 1 .. NPAGE
MAXVA == 8
TRAMPOLINE == MAXVA - 1
TRAPFRAME == TRAMPOLINE - 1
TrampolineText == 0          \* a page of the kernel, never allocated

Nothing == [x \in {} |-> x]
Table(free) == [free |-> free, dir |-> Nothing, leaf |-> Nothing, ok |-> TRUE, at |-> 0,
                res |-> 0, panic |-> "none"]
PgUp(n) == (n + PGSIZE - 1) \div PGSIZE
From(a, b) == [i \in 1 .. (IF b > a THEN b - a ELSE 0) |-> a + i - 1]
Panic(m, why) == [m EXCEPT !.panic = IF @ = "none" THEN why ELSE @]

Kfree(m, pages) == [m EXCEPT !.free = @ \cup pages]
Failed(m, at) == [m EXCEPT !.ok = FALSE, !.at = at]
\* The page that kalloc() returns; the list is not empty.
Kalloc(m) == Min(m.free)
Taken(m) == [m EXCEPT !.free = @ \ {Kalloc(m)}]

-----------------------------------------------------------------------------
\* walk(alloc = 1): the missing tables on the way down, as many as there are pages for.
Descend(m, path) ==
    IF ~m.ok \/ path \in DOMAIN m.dir THEN m
    ELSE IF m.free = {} THEN Failed(m, 0)
    ELSE [Taken(m) EXCEPT !.dir = @ @@ (path :> Kalloc(m))]
Walk(m, va) == Descend(Descend(m, <<va \div 4>>), <<va \div 4, (va \div 2) % 2>>)

Mapped(m, va, page, user) ==
    IF va \in DOMAIN m.leaf THEN Panic(m, "mappages: remap")
    ELSE [m EXCEPT !.leaf = @ @@ (va :> [page |-> page, user |-> user])]
MapWalked(w, va, page, user) == IF w.ok THEN Mapped(w, va, page, user) ELSE w
Mappages(m, va, page, user) == MapWalked(Walk(m, va), va, page, user)

Unmapped(leaf, vas) == [va \in DOMAIN leaf \ vas |-> leaf[va]]
Uvmunmap(m, vas, free) ==
    IF ~(vas \subseteq DOMAIN m.leaf) THEN Panic(m, "uvmunmap: not mapped")
    ELSE [m EXCEPT !.leaf = Unmapped(@, vas),
                   !.free = IF free THEN @ \cup {m.leaf[va].page : va \in vas} ELSE @]

Uvmdealloc(m, oldsz, newsz) ==
    IF newsz >= oldsz THEN [m EXCEPT !.res = oldsz]
    ELSE [Uvmunmap(m, PgUp(newsz) .. PgUp(oldsz) - 1, TRUE) EXCEPT !.res = newsz]

\* One page more at va: without a page table for it the page is given back.
\* A mutant: it is kept.
GrowLeaky(m, page, va) == IF m.ok THEN m ELSE Failed(m, va)
GrowWith(m, page, va) == IF m.ok THEN m ELSE Kfree(Failed(m, va), {page})
Grow(m, va, user) ==
    IF ~m.ok THEN m
    ELSE IF m.free = {} THEN Failed(m, va)
    ELSE GrowWith(Mappages(Taken(m), va, Kalloc(m), user), Kalloc(m), va)

Undone(m, oldsz) == Uvmdealloc(m, m.at * PGSIZE, PgUp(oldsz) * PGSIZE)
Grown(m, oldsz, newsz) == IF m.ok THEN [m EXCEPT !.res = newsz]
                          ELSE [Undone(m, oldsz) EXCEPT !.res = 0]
Uvmalloc(m, oldsz, newsz) ==
    IF newsz < oldsz THEN [m EXCEPT !.res = oldsz]
    ELSE Grown(FoldLeft(LAMBDA x, va : Grow(x, va, TRUE), m, From(PgUp(oldsz), PgUp(newsz))), oldsz, newsz)

Freewalk(m) == IF DOMAIN m.leaf # {} THEN Panic(m, "freewalk: leaf")
               ELSE [m EXCEPT !.free = @ \cup {m.dir[n] : n \in DOMAIN m.dir}, !.dir = Nothing]
Uvmfree(m, sz) == Freewalk(Uvmunmap(m, 0 .. PgUp(sz) - 1, TRUE))

\* uvmcopy() into m of the mappings old.
CopyPage(m, old, va) == IF va \notin DOMAIN old THEN Panic(m, "uvmcopy: pte should exist")
                        ELSE Grow(m, va, old[va].user)
Copied(m) == IF m.ok THEN m ELSE Uvmunmap(m, 0 .. m.at - 1, TRUE)
\* A mutant: one page too many.
UvmcopyPast(m, old, sz) == Copied(FoldLeft(LAMBDA x, va : CopyPage(x, old, va), m, From(0, PgUp(sz) + 1)))
Uvmcopy(m, old, sz) == Copied(FoldLeft(LAMBDA x, va : CopyPage(x, old, va), m, From(0, PgUp(sz))))

Uvmclear(m, va) == [m EXCEPT !.leaf[va].user = FALSE]

-----------------------------------------------------------------------------
(* proc_pagetable() and proc_freepagetable() of kernel/proc.c.             *)
Uvmcreate(m) == [Taken(m) EXCEPT !.dir = (<<>> :> Kalloc(m))]
TrapframeMapped(m) == IF m.ok THEN m ELSE Uvmfree(Uvmunmap(m, {TRAMPOLINE}, FALSE), 0)
TrampolineMapped(m, trapframe) == IF m.ok THEN TrapframeMapped(Mappages(m, TRAPFRAME, trapframe, FALSE))
                                  ELSE Uvmfree(m, 0)
ProcPagetable(m, trapframe) ==
    IF m.free = {} THEN Failed(m, 0)
    ELSE TrampolineMapped(Mappages(Uvmcreate(m), TRAMPOLINE, TrampolineText, FALSE), trapframe)
ProcFreepagetable(m, sz) == Uvmfree(Uvmunmap(m, {TRAMPOLINE, TRAPFRAME}, FALSE), sz)

-----------------------------------------------------------------------------
(* Copies between the kernel and user addresses.  A copy is the sequence   *)
(* of the physical addresses that it visits.                               *)
Walkaddr(leaf, va) == IF va \in DOMAIN leaf /\ leaf[va].user THEN leaf[va].page ELSE 0

Least(a, b) == IF a < b THEN a ELSE b
\* A mutant: a copy that starts within a page takes a whole one.
ChunkWhole(addr, len) == Least(PGSIZE, len)
Chunk(addr, len) == Least(PGSIZE - (addr % PGSIZE), len)

\* copyout(), copyin(): page by page, until one has no user mapping.
RECURSIVE CopyFrom(_, _, _, _)
CopyFrom(leaf, addr, len, done) ==
    IF len = 0 THEN [ok |-> TRUE, at |-> done]
    ELSE IF Walkaddr(leaf, addr \div PGSIZE) = 0 THEN [ok |-> FALSE, at |-> done]
    ELSE CopyFrom(leaf, (addr \div PGSIZE + 1) * PGSIZE, len - Chunk(addr, len),
                  done \o [i \in 1 .. Chunk(addr, len) |->
                             <<Walkaddr(leaf, addr \div PGSIZE), (addr % PGSIZE) + i - 1>>])
Copy(leaf, addr, len) == CopyFrom(leaf, addr, len, <<>>)

\* copyinstr() of a string whose '\0' is after n bytes: the bytes are looked at
\* a page at a time, and the copy goes on as long as none of them was the '\0'.
RECURSIVE CopyStrFrom(_, _, _, _, _)
CopyStrFrom(leaf, addr, n, max, done) ==
    IF max = 0 \/ Walkaddr(leaf, addr \div PGSIZE) = 0 THEN [ok |-> FALSE, n |-> done]
    ELSE IF n < Chunk(addr, max) THEN [ok |-> TRUE, n |-> done + n]
    ELSE CopyStrFrom(leaf, (addr \div PGSIZE + 1) * PGSIZE, n - Chunk(addr, max),
                     max - Chunk(addr, max), done + Chunk(addr, max))
Copyinstr(leaf, addr, n, max) == CopyStrFrom(leaf, addr, n, max, 0)
=============================================================================
