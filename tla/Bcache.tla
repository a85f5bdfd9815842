------------------------------- MODULE Bcache -------------------------------
(***************************************************************************)
(* The buffer cache and the sleep locks of its buffers.                    *)
(* Source: kernel/bio.c, kernel/sleeplock.c.                               *)
(*                                                                         *)
(* What is done under bcache.lock, or under the spinlock of a sleep lock,  *)
(* is one action.  A process uses one buffer at a time.  Its callers are   *)
(* those of log.c: who changes a block passes it to log_write(), which     *)
(* pins it, before brelse(); a commit writes it home and unpins it.        *)
(***************************************************************************)
EXTENDS Naturals, FiniteSets

CONSTANTS Proc, NoProc,
          NBUF,      \* the buffers are 1 .. NBUF
          Block, NoBlock, Value,
          MaxPins    \* the blocks that fit in the log

ASSUME BcacheAssumption == /\ NBUF \in Nat \ {0} /\ MaxPins \in Nat /\ IsFiniteSet(Proc)
                           /\ NoProc \notin Proc /\ NoBlock \notin Block

Buf == 1 .. NBUF

VARIABLES
  lru,       \* the list from head.next to head.prev
  block, valid, refcnt, data,   \* fields of struct buf
  holder,    \* b->lock: who has it
  disk,
  pinned,    \* the blocks in log.lh
  thr        \* where each process stands, its buffer and the block it asked for

bufs == <<block, valid, refcnt, data>>
vars == <<lru, bufs, holder, disk, pinned, thr>>

Idle == [pc |-> "idle", b |-> 1, blk |-> NoBlock]

Init ==
  /\ lru = [i \in Buf |-> NBUF + 1 - i]
  /\ block = [b \in Buf |-> NoBlock] /\ valid = [b \in Buf |-> FALSE]
  /\ refcnt = [b \in Buf |-> 0]
  /\ data \in [Buf -> Value]
  /\ holder = [b \in Buf |-> NoProc]
  /\ disk \in [Block -> Value]
  /\ pinned = {}
  /\ thr = [p \in Proc |-> Idle]

At(p, l)   == thr[p].pc = l
Goto(p, l) == thr' = [thr EXCEPT ![p].pc = l]
Bf(p)      == thr[p].b
Blk(p)     == thr[p].blk
Has(p, b, k) == thr' = [thr EXCEPT ![p] = [pc |-> "want", b |-> b, blk |-> k]]

-----------------------------------------------------------------------------
\* bget(): the block is cached.
BgetHit(p, k) ==
  /\ At(p, "idle")
  /\ \E b \in Buf : /\ block[b] = k
                    /\ refcnt' = [refcnt EXCEPT ![b] = @ + 1]
                    /\ Has(p, b, k)
  /\ UNCHANGED <<lru, block, valid, data, holder, disk, pinned>>

Unused == {i \in 1 .. NBUF : refcnt[lru[i]] = 0}

\* Mutant: the search for the block and the recycling are two critical sections.
BgetRecycleLate(p, k) ==
  /\ At(p, "idle")
  /\ \E i \in Unused :
       /\ \A j \in Unused : j <= i
       /\ block' = [block EXCEPT ![lru[i]] = k] /\ valid' = [valid EXCEPT ![lru[i]] = FALSE]
       /\ refcnt' = [refcnt EXCEPT ![lru[i]] = 1]
       /\ Has(p, lru[i], k)
  /\ UNCHANGED <<lru, data, holder, disk, pinned>>

\* It is not: the least recently used buffer that nobody refers to is recycled.
BgetRecycle(p, k) ==
  /\ At(p, "idle")
  /\ \A b \in Buf : block[b] # k
  /\ \E i \in Unused :
       /\ \A j \in Unused : j <= i
       /\ block' = [block EXCEPT ![lru[i]] = k] /\ valid' = [valid EXCEPT ![lru[i]] = FALSE]
       /\ refcnt' = [refcnt EXCEPT ![lru[i]] = 1]
       /\ Has(p, lru[i], k)
  /\ UNCHANGED <<lru, data, holder, disk, pinned>>

\* "bget: no buffers"
BgetPanic(p, k) ==
  /\ At(p, "idle")
  /\ \A b \in Buf : block[b] # k
  /\ Unused = {}
  /\ Goto(p, "panic")
  /\ UNCHANGED <<lru, bufs, holder, disk, pinned>>

\* acquiresleep(&b->lock)
AcquireSleep(p) ==
  /\ At(p, "want")
  /\ holder[Bf(p)] = NoProc
  /\ holder' = [holder EXCEPT ![Bf(p)] = p]
  /\ Goto(p, "locked")
  /\ UNCHANGED <<lru, bufs, disk, pinned>>

AcquireWait(p) ==
  /\ At(p, "want")
  /\ holder[Bf(p)] # NoProc
  /\ Goto(p, "asleep")
  /\ UNCHANGED <<lru, bufs, holder, disk, pinned>>

\* Mutant: the buffer is not read.
BreadStale(p) ==
  /\ At(p, "locked")
  /\ Goto(p, "held")
  /\ valid' = [valid EXCEPT ![Bf(p)] = TRUE]
  /\ UNCHANGED <<lru, block, refcnt, data, holder, disk, pinned>>

\* bread(): a buffer that is not valid is read from the disk.
Bread(p) ==
  /\ At(p, "locked")
  /\ Goto(p, IF valid[Bf(p)] THEN "held" ELSE "reading")
  /\ UNCHANGED <<lru, bufs, holder, disk, pinned>>

ReadDone(p) ==
  /\ At(p, "reading")
  /\ data' = [data EXCEPT ![Bf(p)] = disk[block[Bf(p)]]]
  /\ valid' = [valid EXCEPT ![Bf(p)] = TRUE]
  /\ Goto(p, "held")
  /\ UNCHANGED <<lru, block, refcnt, holder, disk, pinned>>

-----------------------------------------------------------------------------
\* The callers: begin_op() has made room in the log for the block.
Logging == pinned \cup {Blk(q) : q \in {r \in Proc : At(r, "changed")}}

Change(p) ==
  /\ At(p, "held")
  /\ Cardinality(Logging \cup {Blk(p)}) <= MaxPins
  /\ \E v \in Value : data' = [data EXCEPT ![Bf(p)] = v]
  /\ Goto(p, "changed")
  /\ UNCHANGED <<lru, block, valid, refcnt, holder, disk, pinned>>

\* log_write(): bpin(), unless the block is in the log already.
LogWrite(p) ==
  /\ At(p, "changed")
  /\ pinned' = pinned \cup {Blk(p)}
  /\ refcnt' = [refcnt EXCEPT ![Bf(p)] = IF Blk(p) \in pinned THEN @ ELSE @ + 1]
  /\ Goto(p, "held")
  /\ UNCHANGED <<lru, block, valid, data, holder, disk>>

\* install_trans(): bwrite(), then bunpin().
Bwrite(p) ==
  /\ At(p, "held") /\ Blk(p) \in pinned
  /\ disk' = [disk EXCEPT ![block[Bf(p)]] = data[Bf(p)]]
  /\ Goto(p, "written")
  /\ UNCHANGED <<lru, bufs, holder, pinned>>

Bunpin(p) ==
  /\ At(p, "written")
  /\ refcnt' = [refcnt EXCEPT ![Bf(p)] = @ - 1]
  /\ pinned' = pinned \ {Blk(p)}
  /\ Goto(p, "held")
  /\ UNCHANGED <<lru, block, valid, data, holder, disk>>

-----------------------------------------------------------------------------
\* Mutant: releasesleep() wakes nobody.
ReleaseSleepSilently(p) ==
  /\ At(p, "held")
  /\ holder' = [holder EXCEPT ![Bf(p)] = NoProc]
  /\ Goto(p, "released")
  /\ UNCHANGED <<lru, bufs, disk, pinned>>

\* brelse(): releasesleep(), which wakes all who wait for the buffer ...
ReleaseSleep(p) ==
  /\ At(p, "held")
  /\ holder' = [holder EXCEPT ![Bf(p)] = NoProc]
  /\ thr' = [q \in Proc |->
       IF q = p THEN [thr[q] EXCEPT !.pc = "released"]
       ELSE IF At(q, "asleep") /\ Bf(q) = Bf(p) THEN [thr[q] EXCEPT !.pc = "want"] ELSE thr[q]]
  /\ UNCHANGED <<lru, bufs, disk, pinned>>

\* The list l with b in front.
ToFront(l, b) == LET i == CHOOSE i \in Buf : l[i] = b
                 IN [j \in Buf |-> IF j = 1 THEN b ELSE IF j <= i THEN l[j - 1] ELSE l[j]]

\* ... and the reference is given up; the last one makes the buffer the most recently used.
Brelse(p) ==
  /\ At(p, "released")
  /\ refcnt' = [refcnt EXCEPT ![Bf(p)] = @ - 1]
  /\ lru' = IF refcnt[Bf(p)] = 1 THEN ToFront(lru, Bf(p)) ELSE lru
  /\ thr' = [thr EXCEPT ![p] = Idle]
  /\ UNCHANGED <<block, valid, data, holder, disk, pinned>>

-----------------------------------------------------------------------------
Bget(p) == \E k \in Block : BgetHit(p, k) \/ BgetRecycle(p, k) \/ BgetPanic(p, k)

\* What p does once it has asked for a block, apart from taking the lock.
Work(p) == \/ AcquireWait(p) \/ Bread(p) \/ ReadDone(p) \/ LogWrite(p) \/ Bunpin(p) \/ Brelse(p)

Next == \E p \in Proc : \/ Bget(p) \/ AcquireSleep(p) \/ Work(p)
                        \/ Change(p) \/ Bwrite(p) \/ ReleaseSleep(p)

Spec == Init /\ [][Next]_vars

\* Processes go on, disk transfers end, who has a buffer finally gives it back, and a
\* lock that is free again and again is finally had by who wants it.
FairSpec == Spec /\ \A p \in Proc : /\ WF_vars(Work(p)) /\ SF_vars(ReleaseSleep(p))
                                    /\ SF_vars(AcquireSleep(p))

-----------------------------------------------------------------------------
Using == {"held", "changed", "written"}
Holds == {"locked", "reading"} \cup Using
Refers == {"want", "asleep", "released"} \cup Holds

\* The type of the state.
ThrType == [pc : Refers \cup {"idle", "panic"}, b : Buf, blk : Block \cup {NoBlock}]
TypeOK ==
  /\ lru \in [Buf -> Buf]
  /\ block \in [Buf -> Block \cup {NoBlock}]
  /\ valid \in [Buf -> BOOLEAN] /\ refcnt \in [Buf -> Nat] /\ data \in [Buf -> Value]
  /\ holder \in [Buf -> Proc \cup {NoProc}]
  /\ disk \in [Block -> Value]
  /\ pinned \subseteq Block
  /\ thr \in [Proc -> ThrType]

\* The list has no buffer twice.
LruOnce == \A i, j \in Buf : lru[i] = lru[j] => i = j

\* A lock and its holder agree.
HoldersKnow == \A p \in Proc, b \in Buf : holder[b] = p <=> thr[p].pc \in Holds /\ Bf(p) = b

\* A block is in at most one buffer.
OneCopy == \A b, c \in Buf : block[b] = block[c] /\ block[b] # NoBlock => b = c

\* A buffer counts exactly those that refer to it, and the log's pin: none is recycled
\* while a process waits for it, has it or is about to let go, nor while its change is
\* not at home; and none is lost to the cache.
Refs(b) == {p \in Proc : thr[p].pc \in Refers /\ Bf(p) = b}
Pin(b) == IF block[b] \in pinned THEN 1 ELSE 0
RefCounts == \A b \in Buf : refcnt[b] = Cardinality(Refs(b)) + Pin(b)

\* The buffer that bread() returned holds the block that was asked for.
RightBlock == \A p \in Proc : thr[p].pc \in Refers =>
                /\ block[Bf(p)] = Blk(p)
                /\ thr[p].pc \in Using => valid[Bf(p)]

\* The cache is sound, whatever is asked of it at once: the fields have their types,
\* no block is cached twice, nobody's buffer is recycled under it, no reference is lost.
CacheSound == TypeOK /\ LruOnce /\ HoldersKnow /\ OneCopy /\ RightBlock /\ RefCounts

\* The cache as the file system sees it.
Member(S) == CHOOSE x \in S : TRUE
Cached(k) == {b \in Buf : block[b] = k /\ valid[b]}
Content == [k \in Block |-> IF Cached(k) = {} THEN disk[k] ELSE data[Member(Cached(k))]]
Users(k) == {p \in Proc : thr[p].pc \in Using /\ Blk(p) = k}
User == [k \in Block |-> IF Users(k) = {} THEN NoProc ELSE Member(Users(k))]

Store == INSTANCE BlockStore WITH content <- Content, user <- User
CacheIsStore == Store!Spec

\* Who asks for a block gets it.
BlockIsHad == \A p \in Proc : At(p, "want") ~> At(p, "held")
=============================================================================
