------------------------------ MODULE Umalloc ------------------------------
(***************************************************************************)
(* malloc() and free() of the user library: first fit on a circular list   *)
(* of free blocks in the order of their addresses.                         *)
(* Source: user/umalloc.c.                                                 *)
(*                                                                         *)
(* Memory is counted in headers.  The static header base is at 0, and what *)
(* sbrk() grants lies behind it, from 1 on.  Sizes are within an int, the  *)
(* argument of sbrk(), as those of the programs here are.                  *)
(***************************************************************************)
EXTENDS Integers

CONSTANTS Chunk,   \* the least that morecore() asks for: 4096
          Limit    \* external: no memory from here on

VARIABLES ptr, size,  \* of each header
          freep,
          brk,        \* sbrk(0)
          used        \* history: the blocks that the program has
vars == <<ptr, size, freep, brk, used>>

Addr == 0 .. Limit - 1
base == 0
Null == -1

Init == /\ ptr = [a \in Addr |-> Null] /\ size = [a \in Addr |-> 0]
        /\ freep = Null /\ brk = 1 /\ used = {}

\* What the functions change, as one value.
Heap == [ptr |-> ptr, size |-> size, freep |-> freep, brk |-> brk]

\* free(): the free block behind which bp belongs ...
RECURSIVE Before(_, _, _)
Before(h, bp, p) ==
    LET q == h.ptr[p]
    IN IF (p < bp /\ bp < q) \/ (p >= q /\ (bp > p \/ bp < q)) THEN p ELSE Before(h, bp, q)

\* ... joined with the next one and with that one, if they touch.
JoinNext(h, bp, p) ==
    LET q == h.ptr[p]
    IN IF bp + h.size[bp] = q
       THEN [h EXCEPT !.size[bp] = @ + h.size[q], !.ptr[bp] = h.ptr[q]]
       ELSE [h EXCEPT !.ptr[bp] = q]
\* A mutant: not joined with the one before.
LinkPrev(h, bp, p) == [h EXCEPT !.ptr[p] = bp]
JoinPrev(h, bp, p) ==
    IF p + h.size[p] = bp
    THEN [h EXCEPT !.size[p] = @ + h.size[bp], !.ptr[p] = h.ptr[bp]]
    ELSE [h EXCEPT !.ptr[p] = bp]
Joined(h, bp, p) == [JoinPrev(JoinNext(h, bp, p), bp, p) EXCEPT !.freep = p]
Freed(h, bp) == Joined(h, bp, Before(h, bp, h.freep))

\* morecore(): a new block, freed.
Morecore(h, nu) == Freed([h EXCEPT !.size[h.brk] = nu, !.brk = @ + nu], h.brk)
Asks(n) == IF n < Chunk THEN Chunk ELSE n
Granted(h, n) == h.brk + Asks(n) <= Limit

\* malloc(): the whole block at p, or its end.
Taken(h, prevp, p, n) ==
    IF h.size[p] = n
    THEN [heap |-> [h EXCEPT !.ptr[prevp] = h.ptr[p], !.freep = prevp], at |-> p]
    ELSE [heap |-> [h EXCEPT !.size[p] = @ - n, !.size[p + h.size[p] - n] = n, !.freep = prevp],
          at |-> p + h.size[p] - n]
Failed(h) == [heap |-> h, at |-> Null]
RECURSIVE Search(_, _, _, _)
Search(h, prevp, p, n) ==
    CASE h.size[p] >= n -> Taken(h, prevp, p, n)
      [] h.size[p] < n /\ p # h.freep -> Search(h, p, h.ptr[p], n)
      [] OTHER -> IF ~Granted(h, n) THEN Failed(h)
                  ELSE LET g == Morecore(h, Asks(n)) IN Search(g, g.freep, g.ptr[g.freep], n)
Started(h) == IF h.freep # Null THEN h ELSE [h EXCEPT !.ptr[base] = base, !.freep = base]
Malloced(h, n) == Search(h, h.freep, h.ptr[h.freep], n)

Becomes(h) == ptr' = h.ptr /\ size' = h.size /\ freep' = h.freep /\ brk' = h.brk
Malloc == \E n \in 1 .. Limit : \E m \in {Malloced(Started(Heap), n)} :
              /\ Becomes(m.heap)
              /\ used' = used \cup ({m.at} \ {Null})
Free == \E a \in used : Becomes(Freed(Heap, a)) /\ used' = used \ {a}

Next == Malloc \/ Free
Spec == Init /\ [][Next]_vars

-----------------------------------------------------------------------------
\* The free blocks, along the list.
FreeBlocks == LET next[i \in 0 .. Limit] == IF i = 0 THEN base ELSE ptr[next[i - 1]]
              IN {next[i] : i \in 0 .. Limit}
Units(a) == a .. a + size[a] - 1

\* Between them the free blocks and those of the program make up the memory: they do
\* not overlap, none is lost, and no two free ones touch; the list, with freep on it,
\* goes round by address.
HeapSound ==
    freep # Null =>
      LET free == FreeBlocks IN
      /\ freep \in free /\ free \cap used = {}
      /\ \A a, b \in free \cup used : a # b => Units(a) \cap Units(b) = {}
      /\ UNION {Units(a) : a \in free \cup used} = 1 .. brk - 1
      /\ \A a \in free \ {base} : size[a] > 0 /\ ptr[a] # a + size[a]
      /\ \A a \in free : (ptr[a] > a \/ ptr[a] = base) /\ ptr[a] \in free
=============================================================================
