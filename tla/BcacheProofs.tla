---------------------------- MODULE BcacheProofs ----------------------------
(***************************************************************************)
(* The buffer cache is sound, for any number of processes and buffers.     *)
(*                                                                         *)
(* The argument.  CacheSound is nearly inductive.  A buffer is recycled    *)
(* when its count is 0: then, the count being exact, nobody refers to it   *)
(* and the log has not pinned it.  That the count is right again needs     *)
(* more: the new block is not pinned, since a pinned block is cached; and  *)
(* a commit unpins a block that is still pinned, since it has the lock.    *)
(***************************************************************************)
EXTENDS Bcache, FiniteSetTheorems, TLAPS

Labels == Refers \cup {"idle", "panic"}

\* The list has every buffer.
Listed == \A b \in Buf : \E i \in Buf : lru[i] = b

\* Who refers to a buffer has asked for a block.
Asked == \A p \in Proc : thr[p].pc \in Refers => Blk(p) \in Block

\* A pinned block is cached, and stays pinned until it is unpinned.
Pins == /\ \A k \in pinned : \E b \in Buf : block[b] = k
        /\ \A p \in Proc : At(p, "written") => Blk(p) \in pinned

IInv == CacheSound /\ Listed /\ Asked /\ Pins

-----------------------------------------------------------------------------
LEMMA Moved ==
  ASSUME TypeOK, NEW p \in Proc, NEW l \in Labels, Goto(p, l)
  PROVE  /\ thr' \in [Proc -> ThrType]
         /\ thr'[p].pc = l /\ thr'[p].b = thr[p].b /\ thr'[p].blk = thr[p].blk
         /\ \A q \in Proc : q # p => thr'[q] = thr[q]
<1>1. thr \in [Proc -> ThrType] /\ thr' = [thr EXCEPT ![p].pc = l]
  BY DEF TypeOK, Goto
<1>2. thr[p] \in ThrType
  BY <1>1
<1>3. QED BY <1>1, <1>2 DEF ThrType, Labels

LEMMA RefsFinite == \A b \in Buf : IsFiniteSet(Refs(b)) /\ Cardinality(Refs(b)) \in Nat
<1> TAKE b \in Buf
<1>1. IsFiniteSet(Proc) /\ Refs(b) \subseteq Proc
  BY BcacheAssumption DEF Refs
<1>2. QED BY <1>1, FS_Subset, FS_CardinalityType

\* A reference that is there is counted.
LEMMA Counted ==
  ASSUME TypeOK, RefCounts, NEW p \in Proc, thr[p].pc \in Refers
  PROVE  /\ Bf(p) \in Buf /\ refcnt[Bf(p)] \in Nat /\ p \in Refs(Bf(p))
         /\ refcnt[Bf(p)] >= 1 + Pin(Bf(p))
<1>1. Bf(p) \in Buf
  BY DEF TypeOK, ThrType, Bf
<1>2. refcnt[Bf(p)] \in Nat /\ p \in Refs(Bf(p))
  BY <1>1 DEF TypeOK, Refs
<1>3. Cardinality(Refs(Bf(p))) # 0
  BY <1>1, <1>2, RefsFinite, FS_EmptySet
<1>4. Pin(Bf(p)) \in {0, 1}
  BY DEF Pin
<1>5. Cardinality(Refs(Bf(p))) \in Nat /\ refcnt[Bf(p)] = Cardinality(Refs(Bf(p))) + Pin(Bf(p))
  BY <1>1, RefsFinite DEF RefCounts
<1>6. QED BY <1>1, <1>2, <1>3, <1>4, <1>5

\* And one that is not counted is not there.
LEMMA NotCounted ==
  ASSUME TypeOK, RefCounts, NEW b \in Buf, refcnt[b] = 0
  PROVE  Refs(b) = {} /\ block[b] \notin pinned
<1>1. Pin(b) \in {0, 1} /\ (block[b] \in pinned => Pin(b) = 1)
  BY DEF Pin
<1>2. Cardinality(Refs(b)) \in Nat /\ IsFiniteSet(Refs(b))
  BY RefsFinite
<1>3. Cardinality(Refs(b)) = 0 /\ Pin(b) = 0
  BY <1>1, <1>2 DEF RefCounts
<1>4. QED BY <1>1, <1>2, <1>3, FS_EmptySet

\* A step of who refers to a buffer before it and after it, that changes no reference.
LEMMA Path ==
  ASSUME IInv, NEW p \in Proc, thr[p].pc \in Refers,
         NEW l \in Refers \ {"written"}, Goto(p, l),
         UNCHANGED <<lru, block, refcnt, pinned>>,
         \A b \in Buf : valid[b] => valid'[b],
         l \in Using => valid'[Bf(p)]
  PROVE  LruOnce' /\ Listed' /\ OneCopy' /\ RightBlock' /\ RefCounts' /\ Asked' /\ Pins'
<1>1. /\ thr'[p].pc = l /\ thr'[p].b = thr[p].b /\ thr'[p].blk = thr[p].blk
      /\ \A q \in Proc : q # p => thr'[q] = thr[q]
  BY Moved DEF Labels, IInv, CacheSound
<1>2. LruOnce' /\ Listed' /\ OneCopy'
  BY DEF IInv, CacheSound, LruOnce, Listed, OneCopy
<1>3. \A b \in Buf : Refs(b)' = Refs(b) /\ Pin(b)' = Pin(b)
  BY <1>1 DEF Refs, Pin, Bf
<1>4. RefCounts'
  BY <1>3 DEF IInv, CacheSound, RefCounts
<1>5. Asked' /\ Pins'
  BY <1>1 DEF IInv, Asked, Pins, At, Blk
<1>6. \A q \in Proc : thr[q].b \in Buf
  BY DEF IInv, CacheSound, TypeOK, ThrType
<1>7. RightBlock'
  BY <1>1, <1>6 DEF IInv, CacheSound, RightBlock, Bf, Blk
<1>8. QED BY <1>2, <1>4, <1>5, <1>7

-----------------------------------------------------------------------------
\* The steps on the way, but for releasing the lock.
LEMMA WayStep ==
  ASSUME IInv, NEW p \in Proc,
         AcquireSleep(p) \/ AcquireWait(p) \/ Bread(p) \/ ReadDone(p) \/ Change(p)
  PROVE  IInv'
<1>1. /\ TypeOK /\ HoldersKnow /\ RightBlock /\ thr[p] \in ThrType /\ Bf(p) \in Buf
      /\ NoProc \notin Proc
  BY BcacheAssumption DEF IInv, CacheSound, TypeOK, ThrType, Bf
<1>2. CASE AcquireSleep(p)
  <2>1. /\ Goto(p, "locked") /\ holder' = [holder EXCEPT ![Bf(p)] = p] /\ thr[p].pc = "want"
        /\ holder[Bf(p)] = NoProc /\ UNCHANGED <<lru, block, valid, refcnt, data, disk, pinned>>
    BY <1>2 DEF AcquireSleep, At, bufs
  <2>2. /\ thr' \in [Proc -> ThrType] /\ thr'[p].pc = "locked" /\ Bf(p)' = Bf(p)
        /\ \A q \in Proc : q # p => thr'[q] = thr[q]
    BY <1>1, <2>1, Moved DEF Labels, Refers, Holds, Bf
  <2>3. TypeOK'
    BY <1>1, <2>1, <2>2 DEF TypeOK
  <2>4. HoldersKnow'
    <3>1. ASSUME NEW q \in Proc, NEW b \in Buf
          PROVE  holder'[b] = q <=> thr'[q].pc \in Holds /\ thr'[q].b = b
      <4>1. holder[b] = q <=> thr[q].pc \in Holds /\ thr[q].b = b
        BY <1>1 DEF HoldersKnow, Bf
      <4>2. holder'[b] = IF b = Bf(p) THEN p ELSE holder[b]
        BY <1>1, <2>1 DEF TypeOK
      <4>3. CASE q = p
        BY <1>1, <2>1, <2>2, <4>1, <4>2, <4>3 DEF Holds, Using, Bf
      <4>4. CASE q # p
        BY <1>1, <2>1, <2>2, <4>1, <4>2, <4>4 DEF Bf
      <4>5. QED BY <4>3, <4>4
    <3>2. QED BY <3>1 DEF HoldersKnow, Bf
  <2>5. LruOnce' /\ Listed' /\ OneCopy' /\ RightBlock' /\ RefCounts' /\ Asked' /\ Pins'
    BY <2>1, Path DEF Refers, Holds, Using
  <2>6. QED BY <2>3, <2>4, <2>5 DEF IInv, CacheSound
<1>3. ASSUME NEW from \in Refers, NEW l \in Refers \ {"written"}, thr[p].pc = from,
             from \in Holds <=> l \in Holds, Goto(p, l),
             UNCHANGED <<lru, block, refcnt, pinned, holder, disk>>,
             valid' \in [Buf -> BOOLEAN], data' \in [Buf -> Value],
             \A b \in Buf : valid[b] => valid'[b],
             l \in Using => valid'[Bf(p)]
      PROVE  IInv'
  <2>1. /\ thr' \in [Proc -> ThrType] /\ thr'[p].pc = l /\ thr'[p].b = thr[p].b
        /\ \A q \in Proc : q # p => thr'[q] = thr[q]
    BY <1>1, <1>3, Moved DEF Labels
  <2>2. TypeOK'
    BY <1>1, <1>3, <2>1 DEF TypeOK
  <2>3. HoldersKnow'
    BY <1>1, <1>3, <2>1 DEF HoldersKnow, Bf
  <2>4. LruOnce' /\ Listed' /\ OneCopy' /\ RightBlock' /\ RefCounts' /\ Asked' /\ Pins'
    BY <1>3, Path
  <2>5. QED BY <2>2, <2>3, <2>4 DEF IInv, CacheSound
<1>4. CASE AcquireWait(p)
  <2>1. /\ thr[p].pc = "want" /\ Goto(p, "asleep")
        /\ UNCHANGED <<lru, block, refcnt, pinned, holder, disk, valid, data>>
    BY <1>4 DEF AcquireWait, At, bufs
  <2>2. QED BY <1>1, <1>3, <2>1 DEF TypeOK, Refers, Holds, Using
<1>5. CASE Bread(p)
  <2>1. /\ thr[p].pc = "locked" /\ Goto(p, IF valid[Bf(p)] THEN "held" ELSE "reading")
        /\ UNCHANGED <<lru, block, refcnt, pinned, holder, disk, valid, data>>
    BY <1>5 DEF Bread, At, bufs
  <2>2. CASE valid[Bf(p)]
    <3>1. Goto(p, "held")
      BY <2>1, <2>2
    <3>2. QED BY <1>1, <1>3, <2>1, <2>2, <3>1 DEF TypeOK, Refers, Holds, Using
  <2>3. CASE ~ valid[Bf(p)]
    <3>1. Goto(p, "reading")
      BY <2>1, <2>3
    <3>2. QED BY <1>1, <1>3, <2>1, <2>3, <3>1 DEF TypeOK, Refers, Holds, Using
  <2>4. QED BY <2>2, <2>3
<1>6. CASE ReadDone(p)
  <2>1. /\ thr[p].pc = "reading" /\ Goto(p, "held")
        /\ data' = [data EXCEPT ![Bf(p)] = disk[block[Bf(p)]]]
        /\ valid' = [valid EXCEPT ![Bf(p)] = TRUE]
        /\ UNCHANGED <<lru, block, refcnt, pinned, holder, disk>>
    BY <1>6 DEF ReadDone, At
  <2>2. block[Bf(p)] \in Block
    BY <1>1, <2>1 DEF IInv, Asked, RightBlock, Refers, Holds, Using
  <2>3. disk[block[Bf(p)]] \in Value
    BY <1>1, <2>2 DEF TypeOK
  <2>4. data' \in [Buf -> Value] /\ valid' \in [Buf -> BOOLEAN]
    BY <1>1, <2>1, <2>3 DEF TypeOK
  <2>5. valid'[Bf(p)] /\ \A b \in Buf : valid[b] => valid'[b]
    BY <1>1, <2>1 DEF TypeOK
  <2>6. QED BY <1>3, <2>1, <2>4, <2>5 DEF Refers, Holds, Using
<1>7. CASE Change(p)
  <2>1. /\ thr[p].pc = "held" /\ Goto(p, "changed")
        /\ UNCHANGED <<lru, block, refcnt, pinned, holder, disk, valid>>
        /\ \E v \in Value : data' = [data EXCEPT ![Bf(p)] = v]
    BY <1>7 DEF Change, At
  <2>2. data' \in [Buf -> Value] /\ valid[Bf(p)]
    BY <1>1, <2>1 DEF TypeOK, RightBlock, Refers, Holds, Using
  <2>3. QED BY <1>1, <1>3, <2>1, <2>2 DEF TypeOK, Refers, Holds, Using
<1>8. QED BY <1>2, <1>4, <1>5, <1>6, <1>7

\* Who holds a lock is alone: no other process refers to a block of the same number
\* while it has the lock of its buffer.
LEMMA Alone ==
  ASSUME IInv, NEW p \in Proc, NEW q \in Proc, thr[p].pc \in Holds, thr[q].pc \in Holds,
         Blk(p) = Blk(q)
  PROVE  p = q
<1>1. Bf(p) \in Buf /\ Bf(q) \in Buf /\ block[Bf(p)] = Blk(p) /\ block[Bf(q)] = Blk(q)
  BY DEF IInv, CacheSound, TypeOK, ThrType, RightBlock, Bf, Refers
<1>2. Blk(p) \in Block
  BY DEF IInv, Asked, Refers
<1>3. Bf(p) = Bf(q)
  BY <1>1, <1>2, BcacheAssumption DEF IInv, CacheSound, OneCopy
<1>4. holder[Bf(p)] = p /\ holder[Bf(p)] = q
  BY <1>1, <1>3 DEF IInv, CacheSound, HoldersKnow
<1>5. QED BY <1>4

\* What LogWrite, Bwrite and Bunpin have in common: p keeps the lock.
LEMMA Locked ==
  ASSUME IInv, NEW p \in Proc, NEW from \in Using, NEW l \in Using, thr[p].pc = from, Goto(p, l),
         UNCHANGED <<lru, block, valid, holder, data>>
  PROVE  /\ LruOnce' /\ Listed' /\ OneCopy' /\ RightBlock' /\ HoldersKnow' /\ Asked'
         /\ lru' \in [Buf -> Buf] /\ block' \in [Buf -> Block \cup {NoBlock}]
         /\ valid' \in [Buf -> BOOLEAN] /\ data' \in [Buf -> Value]
         /\ holder' \in [Buf -> Proc \cup {NoProc}] /\ thr' \in [Proc -> ThrType]
         /\ thr'[p].pc = l /\ thr'[p].b = thr[p].b /\ thr'[p].blk = thr[p].blk
         /\ \A q \in Proc : q # p => thr'[q] = thr[q]
         /\ Bf(p) \in Buf /\ Blk(p) \in Block /\ block[Bf(p)] = Blk(p)
         /\ \A b \in Buf : Refs(b)' = Refs(b)
<1>1. TypeOK /\ HoldersKnow /\ RightBlock /\ thr[p] \in ThrType /\ Bf(p) \in Buf
      /\ \A q \in Proc : thr[q].b \in Buf
  BY DEF IInv, CacheSound, TypeOK, ThrType, Bf
<1>2. from \in Holds /\ from \in Refers /\ l \in Holds /\ l \in Refers
  BY DEF Using, Holds, Refers
<1>3. /\ thr' \in [Proc -> ThrType] /\ thr'[p].pc = l /\ thr'[p].b = thr[p].b
      /\ thr'[p].blk = thr[p].blk /\ \A q \in Proc : q # p => thr'[q] = thr[q]
  BY <1>1, <1>2, Moved DEF Labels
<1>4. LruOnce' /\ Listed' /\ OneCopy'
  BY DEF IInv, CacheSound, LruOnce, Listed, OneCopy
<1>5. RightBlock' /\ Asked'
  BY <1>1, <1>2, <1>3 DEF IInv, RightBlock, Asked, Bf, Blk
<1>6. HoldersKnow'
  BY <1>1, <1>2, <1>3 DEF HoldersKnow, Bf
<1>7. \A b \in Buf : Refs(b)' = Refs(b)
  BY <1>2, <1>3 DEF Refs, Bf
<1>8. Blk(p) \in Block /\ block[Bf(p)] = Blk(p)
  BY <1>1, <1>2 DEF IInv, Asked, RightBlock
<1>9. QED BY <1>1, <1>3, <1>4, <1>5, <1>6, <1>7, <1>8 DEF TypeOK

LEMMA LogStep ==
  ASSUME IInv, NEW p \in Proc, LogWrite(p) \/ Bwrite(p) \/ Bunpin(p)
  PROVE  IInv'
<1>1. TypeOK /\ RefCounts /\ OneCopy /\ Pins /\ NoBlock \notin Block
  BY BcacheAssumption DEF IInv, CacheSound
<1>2. CASE LogWrite(p)
  <2>1. /\ thr[p].pc = "changed" /\ Goto(p, "held") /\ pinned' = pinned \cup {Blk(p)}
        /\ refcnt' = [refcnt EXCEPT ![Bf(p)] = IF Blk(p) \in pinned THEN @ ELSE @ + 1]
        /\ UNCHANGED <<lru, block, valid, data, holder, disk>>
    BY <1>2 DEF LogWrite, At
  <2>2. "changed" \in Using /\ "held" \in Using
    BY DEF Using
  <2>3. /\ Bf(p) \in Buf /\ Blk(p) \in Block /\ block[Bf(p)] = Blk(p)
        /\ thr'[p].pc = "held" /\ \A q \in Proc : q # p => thr'[q] = thr[q]
        /\ \A b \in Buf : Refs(b)' = Refs(b)
    BY <2>1, <2>2, Locked
  <2>4. TypeOK'
    <3>1. refcnt' \in [Buf -> Nat]
      BY <1>1, <2>1, <2>3 DEF TypeOK
    <3>2. pinned' \subseteq Block
      BY <1>1, <2>1, <2>3 DEF TypeOK
    <3>3. QED BY <1>1, <2>1, <2>2, <3>1, <3>2, Locked DEF TypeOK
  <2>5. RefCounts'
    <3>1. ASSUME NEW b \in Buf PROVE refcnt'[b] = Cardinality(Refs(b))' + Pin(b)'
      <4>1. refcnt[b] = Cardinality(Refs(b)) + Pin(b) /\ Cardinality(Refs(b)) \in Nat
        BY <1>1, RefsFinite DEF RefCounts
      <4>2. Cardinality(Refs(b))' = Cardinality(Refs(b))
        BY <2>3
      <4>3. CASE b = Bf(p)
        <5>1. Pin(b)' = 1 /\ Pin(b) = IF Blk(p) \in pinned THEN 1 ELSE 0
          BY <2>1, <2>3, <4>3 DEF Pin
        <5>2. refcnt'[b] = IF Blk(p) \in pinned THEN refcnt[b] ELSE refcnt[b] + 1
          BY <1>1, <2>1, <4>3 DEF TypeOK
        <5>3. QED BY <4>1, <4>2, <5>1, <5>2
      <4>4. CASE b # Bf(p)
        <5>1. block[b] # Blk(p)
          BY <1>1, <2>3, <4>4 DEF OneCopy
        <5>2. Pin(b)' = Pin(b)
          BY <2>1, <5>1 DEF Pin
        <5>3. refcnt'[b] = refcnt[b]
          BY <1>1, <2>1, <4>4 DEF TypeOK
        <5>4. QED BY <4>1, <4>2, <5>2, <5>3
      <4>5. QED BY <4>3, <4>4
    <3>2. QED BY <3>1 DEF RefCounts
  <2>6. Pins'
    BY <1>1, <2>1, <2>3 DEF Pins, At, Blk
  <2>7. QED BY <2>1, <2>2, <2>4, <2>5, <2>6, Locked DEF IInv, CacheSound
<1>3. CASE Bwrite(p)
  <2>1. /\ thr[p].pc = "held" /\ Goto(p, "written") /\ Blk(p) \in pinned
        /\ disk' = [disk EXCEPT ![block[Bf(p)]] = data[Bf(p)]]
        /\ UNCHANGED <<lru, block, valid, data, holder, refcnt, pinned>>
    BY <1>3 DEF Bwrite, At, bufs
  <2>2. "written" \in Using /\ "held" \in Using
    BY DEF Using
  <2>3. /\ Bf(p) \in Buf /\ Blk(p) \in Block /\ block[Bf(p)] = Blk(p)
        /\ thr'[p].pc = "written" /\ thr'[p].blk = thr[p].blk
        /\ \A q \in Proc : q # p => thr'[q] = thr[q]
        /\ \A b \in Buf : Refs(b)' = Refs(b)
    BY <2>1, <2>2, Locked
  <2>4. TypeOK'
    <3>1. data[Bf(p)] \in Value
      BY <1>1, <2>3 DEF TypeOK
    <3>2. disk' \in [Block -> Value]
      BY <1>1, <2>1, <2>3, <3>1 DEF TypeOK
    <3>3. QED BY <1>1, <2>1, <2>2, <3>2, Locked DEF TypeOK
  <2>5. RefCounts'
    <3>1. \A b \in Buf : Pin(b)' = Pin(b)
      BY <2>1 DEF Pin
    <3>2. QED BY <1>1, <2>1, <2>3, <3>1 DEF RefCounts
  <2>6. Pins'
    BY <1>1, <2>1, <2>3 DEF Pins, At, Blk
  <2>7. QED BY <2>1, <2>2, <2>4, <2>5, <2>6, Locked DEF IInv, CacheSound
<1>4. CASE Bunpin(p)
  <2>1. /\ thr[p].pc = "written" /\ Goto(p, "held") /\ pinned' = pinned \ {Blk(p)}
        /\ refcnt' = [refcnt EXCEPT ![Bf(p)] = @ - 1]
        /\ UNCHANGED <<lru, block, valid, data, holder, disk>>
    BY <1>4 DEF Bunpin, At
  <2>2. "written" \in Using /\ "held" \in Using /\ "written" \in Refers /\ "written" \in Holds
    BY DEF Using, Refers, Holds
  <2>3. /\ Bf(p) \in Buf /\ Blk(p) \in Block /\ block[Bf(p)] = Blk(p)
        /\ thr'[p].pc = "held" /\ \A q \in Proc : q # p => thr'[q] = thr[q]
        /\ \A b \in Buf : Refs(b)' = Refs(b)
    BY <2>1, <2>2, Locked
  <2>4. Blk(p) \in pinned /\ Pin(Bf(p)) = 1
    BY <1>1, <2>1, <2>3 DEF Pins, At, Pin
  <2>5. TypeOK'
    <3>1. refcnt[Bf(p)] \in Nat /\ refcnt[Bf(p)] >= 2
      BY <1>1, <2>1, <2>2, <2>4, Counted
    <3>2. refcnt[Bf(p)] - 1 \in Nat
      BY <3>1
    <3>3. refcnt' \in [Buf -> Nat]
      BY <1>1, <2>1, <3>2 DEF TypeOK
    <3>4. QED BY <1>1, <2>1, <2>2, <3>3, Locked DEF TypeOK
  <2>6. RefCounts'
    <3>1. ASSUME NEW b \in Buf PROVE refcnt'[b] = Cardinality(Refs(b))' + Pin(b)'
      <4>1. refcnt[b] = Cardinality(Refs(b)) + Pin(b) /\ Cardinality(Refs(b)) \in Nat
        BY <1>1, RefsFinite DEF RefCounts
      <4>2. Cardinality(Refs(b))' = Cardinality(Refs(b))
        BY <2>3
      <4>3. CASE b = Bf(p)
        <5>1. Pin(b)' = 0
          BY <2>1, <2>3, <4>3 DEF Pin
        <5>2. refcnt'[b] = refcnt[b] - 1
          BY <1>1, <2>1, <4>3 DEF TypeOK
        <5>3. QED BY <2>4, <4>1, <4>2, <4>3, <5>1, <5>2
      <4>4. CASE b # Bf(p)
        <5>1. block[b] # Blk(p)
          BY <1>1, <2>3, <4>4 DEF OneCopy
        <5>2. Pin(b)' = Pin(b)
          BY <2>1, <5>1 DEF Pin
        <5>3. refcnt'[b] = refcnt[b]
          BY <1>1, <2>1, <4>4 DEF TypeOK
        <5>4. QED BY <4>1, <4>2, <5>2, <5>3
      <4>5. QED BY <4>3, <4>4
    <3>2. QED BY <3>1 DEF RefCounts
  <2>7. Pins'
    <3>1. ASSUME NEW q \in Proc, thr'[q].pc = "written"
          PROVE  thr'[q].blk \in pinned'
      <4>1. q # p /\ thr'[q] = thr[q]
        BY <2>3, <3>1
      <4>2. Blk(q) \in pinned /\ thr[q].pc \in Holds
        BY <1>1, <2>2, <3>1, <4>1 DEF Pins, At
      <4>3. Blk(q) # Blk(p)
        BY <2>1, <2>2, <4>1, <4>2, Alone
      <4>4. QED BY <2>1, <4>1, <4>2, <4>3 DEF Blk
    <3>2. \A k \in pinned' : \E b \in Buf : block'[b] = k
      BY <1>1, <2>1 DEF Pins
    <3>3. QED BY <3>1, <3>2 DEF Pins, At, Blk
  <2>8. QED BY <2>1, <2>2, <2>5, <2>6, <2>7, Locked DEF IInv, CacheSound
<1>5. QED BY <1>2, <1>3, <1>4

-----------------------------------------------------------------------------
LEMMA ReleaseStep ==
  ASSUME IInv, NEW p \in Proc, ReleaseSleep(p)
  PROVE  IInv'
<1>1. /\ TypeOK /\ HoldersKnow /\ RightBlock /\ RefCounts /\ Pins /\ thr \in [Proc -> ThrType]
      /\ Bf(p) \in Buf /\ NoProc \notin Proc
      /\ \A q \in Proc : thr[q] \in ThrType /\ thr[q].b \in Buf
  BY BcacheAssumption DEF IInv, CacheSound, TypeOK, ThrType, Bf
<1>2. /\ thr[p].pc = "held" /\ holder' = [holder EXCEPT ![Bf(p)] = NoProc]
      /\ thr' = [q \in Proc |->
           IF q = p THEN [thr[q] EXCEPT !.pc = "released"]
           ELSE IF thr[q].pc = "asleep" /\ thr[q].b = thr[p].b THEN [thr[q] EXCEPT !.pc = "want"]
           ELSE thr[q]]
      /\ UNCHANGED <<lru, block, valid, refcnt, data, disk, pinned>>
  BY DEF ReleaseSleep, At, bufs, Bf
<1>3. ASSUME NEW q \in Proc
      PROVE  /\ thr'[q] \in ThrType /\ thr'[q].b = thr[q].b /\ thr'[q].blk = thr[q].blk
             /\ \/ thr'[q].pc = thr[q].pc /\ q # p
                \/ thr[q].pc = "held" /\ thr'[q].pc = "released" /\ q = p
                \/ thr[q].pc = "asleep" /\ thr'[q].pc = "want" /\ q # p
  <2>1. thr[q] \in [pc : Labels, b : Buf, blk : Block \cup {NoBlock}]
    BY <1>1 DEF ThrType, Labels
  <2>2. "released" \in Labels /\ "want" \in Labels
    BY DEF Labels, Refers
  <2>3. QED BY <1>2, <2>1, <2>2 DEF ThrType, Labels
<1>4. TypeOK'
  <2>1. thr' \in [Proc -> ThrType]
    BY <1>2, <1>3
  <2>2. QED BY <1>1, <1>2, <2>1 DEF TypeOK
<1>5. HoldersKnow'
  <2>1. ASSUME NEW q \in Proc, NEW b \in Buf
        PROVE  holder'[b] = q <=> thr'[q].pc \in Holds /\ thr'[q].b = b
    <3>1. holder[b] = q <=> thr[q].pc \in Holds /\ thr[q].b = b
      BY <1>1 DEF HoldersKnow, Bf
    <3>2. holder'[b] = IF b = Bf(p) THEN NoProc ELSE holder[b]
      BY <1>1, <1>2 DEF TypeOK
    <3>3. holder[Bf(p)] = p
      BY <1>1, <1>2 DEF HoldersKnow, Holds, Using, Bf
    <3>4. QED BY <1>1, <1>2, <1>3, <3>1, <3>2, <3>3 DEF Holds, Using, Bf
  <2>2. QED BY <2>1 DEF HoldersKnow, Bf
<1>6. LruOnce' /\ Listed' /\ OneCopy'
  BY <1>2 DEF IInv, CacheSound, LruOnce, Listed, OneCopy
<1>7. \A q \in Proc : (thr'[q].pc \in Refers <=> thr[q].pc \in Refers)
                     /\ (thr'[q].pc \in Using => thr[q].pc \in Using)
                     /\ (thr'[q].pc = "written" => thr[q].pc = "written")
  BY <1>3 DEF Refers, Holds, Using
<1>8. RightBlock' /\ Asked' /\ Pins'
  BY <1>1, <1>2, <1>3, <1>7 DEF IInv, RightBlock, Asked, Pins, At, Bf, Blk
<1>9. RefCounts'
  <2>1. \A b \in Buf : Refs(b)' = Refs(b) /\ Pin(b)' = Pin(b)
    BY <1>2, <1>3, <1>7 DEF Refs, Pin, Bf
  <2>2. QED BY <1>1, <1>2, <2>1 DEF RefCounts
<1>10. QED BY <1>4, <1>5, <1>6, <1>8, <1>9 DEF IInv, CacheSound

-----------------------------------------------------------------------------
\* What the steps of p that are not on the way leave alone: nobody but p moves, and p
\* neither has a lock before nor after.
LEMMA Unlocked ==
  ASSUME TypeOK, HoldersKnow, NEW p \in Proc, thr[p].pc \notin Holds,
         thr' \in [Proc -> ThrType], thr'[p].pc \notin Holds, holder' = holder,
         \A q \in Proc : q # p => thr'[q] = thr[q]
  PROVE  HoldersKnow'
BY DEF HoldersKnow, Bf

\* A new reference to buffer b.
LEMMA RefAdded ==
  ASSUME NEW p \in Proc, NEW b \in Buf, thr[p].pc \notin Refers,
         thr'[p].pc \in Refers, thr'[p].b = b,
         \A q \in Proc : q # p => thr'[q] = thr[q]
  PROVE  /\ Cardinality(Refs(b))' = Cardinality(Refs(b)) + 1
         /\ \A c \in Buf : c # b => Refs(c)' = Refs(c)
<1>1. Refs(b)' = Refs(b) \cup {p} /\ p \notin Refs(b)
  BY DEF Refs, Bf
<1>2. Cardinality(Refs(b) \cup {p}) = Cardinality(Refs(b)) + 1
  BY <1>1, RefsFinite, FS_AddElement
<1>3. \A c \in Buf : c # b => Refs(c)' = Refs(c)
  BY DEF Refs, Bf
<1>4. QED BY <1>1, <1>2, <1>3

\* The reference of p is given up.
LEMMA RefRemoved ==
  ASSUME NEW p \in Proc, Bf(p) \in Buf, thr[p].pc \in Refers, thr'[p].pc \notin Refers,
         \A q \in Proc : q # p => thr'[q] = thr[q]
  PROVE  /\ Cardinality(Refs(Bf(p)) \ {p}) = Cardinality(Refs(Bf(p))) - 1
         /\ \A c \in Buf : Refs(c)' = IF c = Bf(p) THEN Refs(c) \ {p} ELSE Refs(c)
<1>1. p \in Refs(Bf(p))
  BY DEF Refs
<1>2. Cardinality(Refs(Bf(p)) \ {p}) = Cardinality(Refs(Bf(p))) - 1
  BY <1>1, RefsFinite, FS_RemoveElement
<1>3. \A c \in Buf : Refs(c)' = IF c = Bf(p) THEN Refs(c) \ {p} ELSE Refs(c)
  BY DEF Refs, Bf
<1>4. QED BY <1>2, <1>3

LEMMA BgetStep ==
  ASSUME IInv, NEW p \in Proc, NEW k \in Block,
         BgetHit(p, k) \/ BgetRecycle(p, k) \/ BgetPanic(p, k)
  PROVE  IInv'
<1>1. /\ TypeOK /\ HoldersKnow /\ OneCopy /\ RightBlock /\ RefCounts /\ Asked /\ Pins
      /\ thr[p].pc = "idle" /\ thr \in [Proc -> ThrType] /\ NoBlock \notin Block
      /\ UNCHANGED <<lru, data, holder, disk, pinned>>
  BY BcacheAssumption DEF IInv, CacheSound, TypeOK, BgetHit, BgetRecycle, BgetPanic, At, bufs
<1>2. "idle" \notin Refers /\ "want" \in Refers /\ "want" \notin Holds /\ "idle" \notin Holds
      /\ "panic" \notin Refers /\ "panic" \notin Holds /\ Using \subseteq Holds
      /\ Holds \subseteq Refers /\ "written" # "want" /\ "written" # "panic"
      /\ "written" \in Refers
  BY DEF Refers, Holds, Using
<1>3. LruOnce' /\ Listed'
  BY <1>1 DEF IInv, CacheSound, LruOnce, Listed
<1>4. ASSUME NEW b \in Buf, Has(p, b, k)
      PROVE  /\ thr' \in [Proc -> ThrType] /\ thr'[p].pc = "want" /\ thr'[p].b = b
             /\ thr'[p].blk = k /\ \A q \in Proc : q # p => thr'[q] = thr[q]
  BY <1>1, <1>2, <1>4 DEF Has, ThrType
<1>5. CASE BgetHit(p, k)
  <2>1. PICK b \in Buf : /\ block[b] = k /\ refcnt' = [refcnt EXCEPT ![b] = @ + 1]
                         /\ Has(p, b, k) /\ UNCHANGED <<block, valid>>
    BY <1>5 DEF BgetHit
  <2>2. /\ thr' \in [Proc -> ThrType] /\ thr'[p].pc = "want" /\ thr'[p].b = b
        /\ thr'[p].blk = k /\ \A q \in Proc : q # p => thr'[q] = thr[q]
    BY <1>4, <2>1
  <2>3. TypeOK'
    <3>1. refcnt' \in [Buf -> Nat]
      BY <1>1, <2>1 DEF TypeOK
    <3>2. QED BY <1>1, <2>1, <2>2, <3>1 DEF TypeOK
  <2>4. HoldersKnow'
    BY <1>1, <1>2, <2>2, Unlocked
  <2>5. OneCopy' /\ RightBlock' /\ Asked' /\ Pins'
    BY <1>1, <1>2, <2>1, <2>2 DEF OneCopy, RightBlock, Asked, Pins, At, Bf, Blk
  <2>6. RefCounts'
    <3>1. /\ Cardinality(Refs(b))' = Cardinality(Refs(b)) + 1
          /\ \A c \in Buf : c # b => Refs(c)' = Refs(c)
      BY <1>1, <1>2, <2>2, RefAdded
    <3>2. ASSUME NEW c \in Buf PROVE refcnt'[c] = Cardinality(Refs(c))' + Pin(c)'
      <4>1. Pin(c)' = Pin(c) /\ Pin(c) \in Nat
        BY <1>1, <2>1 DEF Pin
      <4>2. refcnt[c] = Cardinality(Refs(c)) + Pin(c) /\ Cardinality(Refs(c)) \in Nat
        BY <1>1, RefsFinite DEF RefCounts
      <4>3. refcnt'[c] = IF c = b THEN refcnt[c] + 1 ELSE refcnt[c]
        BY <1>1, <2>1 DEF TypeOK
      <4>4. QED BY <3>1, <4>1, <4>2, <4>3
    <3>3. QED BY <3>2 DEF RefCounts
  <2>7. QED BY <1>3, <2>3, <2>4, <2>5, <2>6 DEF IInv, CacheSound
<1>6. CASE BgetRecycle(p, k)
  <2>1. PICK b \in Buf : /\ refcnt[b] = 0 /\ Has(p, b, k)
                         /\ block' = [block EXCEPT ![b] = k]
                         /\ valid' = [valid EXCEPT ![b] = FALSE]
                         /\ refcnt' = [refcnt EXCEPT ![b] = 1]
    <3>1. \A i \in Unused : lru[i] \in Buf /\ refcnt[lru[i]] = 0
      BY <1>1 DEF TypeOK, Unused, Buf
    <3>2. QED BY <1>6, <3>1 DEF BgetRecycle
  <2>2. \A c \in Buf : block[c] # k
    BY <1>6 DEF BgetRecycle
  <2>3. /\ thr' \in [Proc -> ThrType] /\ thr'[p].pc = "want" /\ thr'[p].b = b
        /\ thr'[p].blk = k /\ \A q \in Proc : q # p => thr'[q] = thr[q]
    BY <1>4, <2>1
  <2>4. TypeOK'
    <3>1. /\ refcnt' \in [Buf -> Nat] /\ valid' \in [Buf -> BOOLEAN]
          /\ block' \in [Buf -> Block \cup {NoBlock}]
      BY <1>1, <2>1 DEF TypeOK
    <3>2. QED BY <1>1, <2>3, <3>1 DEF TypeOK
  <2>5. \A c \in Buf : /\ block'[c] = IF c = b THEN k ELSE block[c]
                       /\ valid'[c] = IF c = b THEN FALSE ELSE valid[c]
                       /\ refcnt'[c] = IF c = b THEN 1 ELSE refcnt[c]
    BY <1>1, <2>1 DEF TypeOK
  <2>6. HoldersKnow'
    BY <1>1, <1>2, <2>3, Unlocked
  <2>7. OneCopy'
    BY <1>1, <2>2, <2>5 DEF OneCopy
  <2>8. Refs(b) = {} /\ block[b] \notin pinned /\ k \notin pinned
    BY <1>1, <2>1, <2>2, NotCounted DEF Pins
  <2>9. ASSUME NEW q \in Proc, q # p, thr[q].pc \in Refers
        PROVE  Bf(q) \in Buf \ {b} /\ Bf(q)' = Bf(q) /\ Blk(q)' = Blk(q)
    <3>1. Bf(q) \in Buf
      BY <1>1 DEF ThrType, Bf
    <3>2. Bf(q) # b
      BY <2>8, <2>9 DEF Refs
    <3>3. QED BY <2>3, <2>9, <3>1, <3>2 DEF Bf, Blk
  <2>10. RightBlock'
    <3>1. ASSUME NEW q \in Proc, thr'[q].pc \in Refers
          PROVE  block'[Bf(q)'] = Blk(q)' /\ (thr'[q].pc \in Using => valid'[Bf(q)'])
      <4>1. CASE q = p
        BY <1>2, <2>1, <2>3, <2>5, <4>1 DEF Bf, Blk
      <4>2. CASE q # p
        <5>1. thr[q].pc \in Refers /\ thr'[q] = thr[q]
          BY <2>3, <3>1, <4>2
        <5>2. Bf(q) \in Buf \ {b} /\ Bf(q)' = Bf(q) /\ Blk(q)' = Blk(q)
          BY <2>9, <4>2, <5>1
        <5>3. block[Bf(q)] = Blk(q) /\ (thr[q].pc \in Using => valid[Bf(q)])
          BY <1>1, <5>1 DEF RightBlock
        <5>4. block'[Bf(q)] = block[Bf(q)] /\ valid'[Bf(q)] = valid[Bf(q)]
          BY <2>5, <5>2
        <5>5. QED BY <5>1, <5>2, <5>3, <5>4
      <4>3. QED BY <4>1, <4>2
    <3>2. QED BY <3>1 DEF RightBlock
  <2>11. Asked'
    BY <1>1, <1>2, <2>3 DEF Asked, Blk
  <2>12. Pins'
    <3>1. ASSUME NEW c \in pinned' PROVE \E d \in Buf : block'[d] = c
      <4>1. PICK d \in Buf : block[d] = c
        BY <1>1, <3>1 DEF Pins
      <4>2. d # b
        BY <1>1, <2>8, <3>1, <4>1
      <4>3. QED BY <2>5, <4>1, <4>2
    <3>2. \A q \in Proc : At(q, "written")' => Blk(q)' \in pinned'
      BY <1>1, <1>2, <2>3 DEF Pins, At, Blk
    <3>3. QED BY <3>1, <3>2 DEF Pins
  <2>13. RefCounts'
    <3>1. /\ Cardinality(Refs(b))' = Cardinality(Refs(b)) + 1
          /\ \A c \in Buf : c # b => Refs(c)' = Refs(c)
      BY <1>1, <1>2, <2>3, RefAdded
    <3>2. Cardinality(Refs(b)) = 0
      BY <2>8, FS_EmptySet
    <3>3. ASSUME NEW c \in Buf PROVE refcnt'[c] = Cardinality(Refs(c))' + Pin(c)'
      <4>1. CASE c = b
        <5>1. Pin(c)' = 0
          BY <1>1, <2>5, <2>8, <4>1 DEF Pin
        <5>2. Cardinality(Refs(b))' = 1
          BY <3>1, <3>2
        <5>3. refcnt'[c] = 1
          BY <2>5, <4>1
        <5>4. Cardinality(Refs(c))' = 1
          BY <4>1, <5>2
        <5>5. QED BY <5>1, <5>3, <5>4
      <4>2. CASE c # b
        <5>1. Pin(c)' = Pin(c)
          BY <1>1, <2>5, <4>2 DEF Pin
        <5>2. QED BY <1>1, <2>5, <3>1, <4>2, <5>1 DEF RefCounts
      <4>3. QED BY <4>1, <4>2
    <3>4. QED BY <3>3 DEF RefCounts
  <2>14. QED BY <1>3, <2>4, <2>6, <2>7, <2>10, <2>11, <2>12, <2>13 DEF IInv, CacheSound
<1>7. CASE BgetPanic(p, k)
  <2>1. Goto(p, "panic") /\ UNCHANGED <<block, valid, refcnt>>
    BY <1>7 DEF BgetPanic, bufs
  <2>2. /\ thr' \in [Proc -> ThrType] /\ thr'[p].pc = "panic"
        /\ \A q \in Proc : q # p => thr'[q] = thr[q]
    BY <1>1, <2>1, Moved DEF Labels
  <2>3. TypeOK'
    BY <1>1, <2>1, <2>2 DEF TypeOK
  <2>4. HoldersKnow'
    BY <1>1, <1>2, <2>2, Unlocked
  <2>5. OneCopy' /\ RightBlock' /\ Asked' /\ Pins'
    BY <1>1, <1>2, <2>1, <2>2 DEF OneCopy, RightBlock, Asked, Pins, At, Bf, Blk
  <2>6. \A c \in Buf : Refs(c)' = Refs(c) /\ Pin(c)' = Pin(c)
    BY <1>1, <1>2, <2>1, <2>2 DEF Refs, Pin, Bf
  <2>7. RefCounts'
    BY <1>1, <2>1, <2>6 DEF RefCounts
  <2>8. QED BY <1>3, <2>3, <2>4, <2>5, <2>7 DEF IInv, CacheSound
<1>8. QED BY <1>5, <1>6, <1>7

\* A buffer that is moved to the front is in the list as before, and so are the others.
LEMMA InFront ==
  ASSUME TypeOK, LruOnce, Listed, NEW b \in Buf, NEW l, l = ToFront(lru, b)
  PROVE  /\ l \in [Buf -> Buf] /\ \A i, j \in Buf : l[i] = l[j] => i = j
         /\ \A c \in Buf : \E i \in Buf : l[i] = c
<1> DEFINE i == CHOOSE i \in Buf : lru[i] = b
           from(j) == IF j = 1 THEN i ELSE IF j <= i THEN j - 1 ELSE j
<1>1. i \in Buf /\ lru[i] = b
  BY DEF Listed
<1>2. l = [j \in Buf |-> IF j = 1 THEN b ELSE IF j <= i THEN lru[j - 1] ELSE lru[j]]
  BY DEF ToFront
<1> HIDE DEF i
<1>3. lru \in [Buf -> Buf] /\ NBUF \in Nat \ {0} /\ Buf = 1 .. NBUF
  BY BcacheAssumption DEF TypeOK, Buf
<1>4. \A j \in Buf : from(j) \in Buf
  BY <1>1, <1>3
<1>5. l = [j \in Buf |-> lru[from(j)]]
  BY <1>1, <1>2
<1>6. \A m, n \in Buf : from(m) = from(n) => m = n
  BY <1>1, <1>3
<1>7. ASSUME NEW c \in Buf PROVE \E j \in Buf : from(j) = c
  <2>1. CASE c = i
    <3>1. 1 \in Buf /\ from(1) = c
      BY <1>3, <2>1
    <3>2. QED BY <3>1
  <2>2. CASE c < i
    <3>1. c + 1 \in Buf /\ from(c + 1) = c
      BY <1>1, <1>3, <2>2
    <3>2. QED BY <3>1
  <2>3. CASE c > i
    <3>1. from(c) = c
      BY <1>1, <1>3, <2>3
    <3>2. QED BY <3>1
  <2>4. QED BY <1>1, <1>3, <2>1, <2>2, <2>3
<1> HIDE DEF from
<1>8. l \in [Buf -> Buf]
  BY <1>3, <1>4, <1>5
<1>9. \A m, n \in Buf : l[m] = l[n] => m = n
  BY <1>4, <1>5, <1>6 DEF LruOnce
<1>10. \A c \in Buf : \E j \in Buf : l[j] = c
  <2> TAKE c \in Buf
  <2>1. PICK k \in Buf : lru[k] = c
    BY DEF Listed
  <2>2. PICK j \in Buf : from(j) = k
    BY <1>7
  <2>3. QED BY <1>5, <2>1, <2>2
<1>11. QED BY <1>8, <1>9, <1>10

LEMMA BrelseStep ==
  ASSUME IInv, NEW p \in Proc, Brelse(p)
  PROVE  IInv'
<1>1. /\ TypeOK /\ LruOnce /\ Listed /\ HoldersKnow /\ OneCopy /\ RightBlock /\ RefCounts
      /\ Asked /\ Pins /\ thr \in [Proc -> ThrType] /\ Bf(p) \in Buf
  BY DEF IInv, CacheSound, TypeOK, ThrType, Bf
<1>2. /\ thr[p].pc = "released" /\ refcnt' = [refcnt EXCEPT ![Bf(p)] = @ - 1]
      /\ lru' = IF refcnt[Bf(p)] = 1 THEN ToFront(lru, Bf(p)) ELSE lru
      /\ thr' = [thr EXCEPT ![p] = Idle]
      /\ UNCHANGED <<block, valid, data, holder, disk, pinned>>
  BY DEF Brelse, At
<1>3. "idle" \notin Refers /\ "released" \in Refers /\ "released" \notin Holds
      /\ "idle" \notin Holds /\ Using \subseteq Holds /\ Holds \subseteq Refers
      /\ "written" \in Refers
  BY DEF Refers, Holds, Using
<1>4. thr' \in [Proc -> ThrType] /\ thr'[p].pc = "idle" /\ \A q \in Proc : q # p => thr'[q] = thr[q]
  <2>1. Idle \in ThrType /\ Idle.pc = "idle"
    BY BcacheAssumption DEF Idle, ThrType, Buf
  <2>2. QED BY <1>1, <1>2, <2>1
<1>5. lru' \in [Buf -> Buf] /\ LruOnce' /\ Listed'
  <2>1. CASE lru' = lru
    BY <1>1, <2>1 DEF TypeOK, LruOnce, Listed
  <2>2. CASE lru' = ToFront(lru, Bf(p))
    <3>1. /\ lru' \in [Buf -> Buf] /\ \A i, j \in Buf : lru'[i] = lru'[j] => i = j
          /\ \A c \in Buf : \E i \in Buf : lru'[i] = c
      BY <1>1, <2>2, InFront, ZenonT(30)
    <3>2. QED BY <3>1 DEF LruOnce, Listed
  <2>3. QED BY <1>2, <2>1, <2>2
<1>6. refcnt[Bf(p)] \in Nat /\ refcnt[Bf(p)] - 1 \in Nat
  <2>1. refcnt[Bf(p)] \in Nat /\ refcnt[Bf(p)] >= 1 + Pin(Bf(p)) /\ Pin(Bf(p)) \in Nat
    BY <1>1, <1>2, <1>3, Counted DEF Pin
  <2>2. QED BY <2>1
<1>7. TypeOK'
  <2>1. refcnt' \in [Buf -> Nat]
    BY <1>1, <1>2, <1>6 DEF TypeOK
  <2>2. QED BY <1>1, <1>2, <1>4, <1>5, <2>1 DEF TypeOK
<1>8. HoldersKnow'
  BY <1>1, <1>2, <1>3, <1>4, Unlocked
<1>9. OneCopy' /\ RightBlock' /\ Asked' /\ Pins'
  BY <1>1, <1>2, <1>3, <1>4 DEF OneCopy, RightBlock, Asked, Pins, At, Bf, Blk
<1>10. RefCounts'
  <2>1. /\ Cardinality(Refs(Bf(p)) \ {p}) = Cardinality(Refs(Bf(p))) - 1
        /\ \A c \in Buf : Refs(c)' = IF c = Bf(p) THEN Refs(c) \ {p} ELSE Refs(c)
    BY <1>1, <1>2, <1>3, <1>4, RefRemoved
  <2>2. ASSUME NEW c \in Buf PROVE refcnt'[c] = Cardinality(Refs(c))' + Pin(c)'
    <3>1. Pin(c)' = Pin(c) /\ Pin(c) \in Nat
      BY <1>2 DEF Pin
    <3>2. refcnt[c] = Cardinality(Refs(c)) + Pin(c) /\ Cardinality(Refs(c)) \in Nat
      BY <1>1, RefsFinite DEF RefCounts
    <3>3. refcnt'[c] = IF c = Bf(p) THEN refcnt[c] - 1 ELSE refcnt[c]
      BY <1>1, <1>2 DEF TypeOK
    <3>4. CASE c = Bf(p)
      <4>1. Cardinality(Refs(c))' = Cardinality(Refs(c)) - 1
        BY <2>1, <3>4
      <4>2. QED BY <3>1, <3>2, <3>3, <3>4, <4>1
    <3>5. CASE c # Bf(p)
      <4>1. Cardinality(Refs(c))' = Cardinality(Refs(c))
        BY <2>1, <3>5
      <4>2. QED BY <3>1, <3>2, <3>3, <3>5, <4>1
    <3>6. QED BY <3>4, <3>5
  <2>3. QED BY <2>2 DEF RefCounts
<1>11. QED BY <1>5, <1>7, <1>8, <1>9, <1>10 DEF IInv, CacheSound

-----------------------------------------------------------------------------
LEMMA InitInv == Init => IInv
<1> SUFFICES ASSUME Init PROVE IInv
  OBVIOUS
<1>1. TypeOK
  <2>1. lru \in [Buf -> Buf] /\ Idle \in ThrType
    BY BcacheAssumption DEF Init, Buf, Idle, ThrType
  <2>2. QED BY <2>1 DEF Init, TypeOK
<1>2. LruOnce /\ Listed
  <2>1. NBUF \in Nat /\ \A i \in 1 .. NBUF : lru[i] = NBUF + 1 - i
    BY BcacheAssumption DEF Init, Buf
  <2>2. LruOnce
    BY <2>1 DEF LruOnce, Buf
  <2>3. ASSUME NEW b \in 1 .. NBUF PROVE NBUF + 1 - b \in 1 .. NBUF /\ lru[NBUF + 1 - b] = b
    <3>1. NBUF + 1 - b \in 1 .. NBUF /\ NBUF + 1 - (NBUF + 1 - b) = b
      BY <2>1
    <3>2. QED BY <2>1, <3>1
  <2>4. Listed
    BY <2>3 DEF Listed, Buf
  <2>5. QED BY <2>2, <2>4
<1>3. \A p \in Proc : thr[p].pc = "idle"
  BY DEF Init, Idle
<1>4. HoldersKnow
  BY <1>3, BcacheAssumption DEF Init, HoldersKnow, Holds, Using
<1>5. OneCopy /\ RightBlock /\ Asked /\ Pins
  BY <1>3 DEF Init, OneCopy, RightBlock, Asked, Pins, Refers, Holds, Using, At
<1>6. RefCounts
  <2>1. ASSUME NEW b \in Buf PROVE refcnt[b] = Cardinality(Refs(b)) + Pin(b)
    <3>1. Refs(b) = {}
      BY <1>3 DEF Refs, Refers, Holds, Using
    <3>2. Cardinality(Refs(b)) = 0
      BY <3>1, FS_EmptySet
    <3>3. refcnt[b] = 0 /\ Pin(b) = 0
      BY DEF Init, Pin
    <3>4. QED BY <3>2, <3>3
  <2>2. QED BY <2>1 DEF RefCounts
<1>7. QED BY <1>1, <1>2, <1>4, <1>5, <1>6 DEF IInv, CacheSound

LEMMA StepInv == IInv /\ [Next]_vars => IInv'
<1> SUFFICES ASSUME IInv, [Next]_vars PROVE IInv'
  OBVIOUS
<1>1. CASE UNCHANGED vars
  BY <1>1 DEF vars, bufs, IInv, CacheSound, TypeOK, LruOnce, HoldersKnow, OneCopy, RightBlock,
              RefCounts, Refs, Pin, Listed, Asked, Pins, At, Bf, Blk
<1>2. CASE Next
  <2>1. PICK p \in Proc : Bget(p) \/ AcquireSleep(p) \/ Work(p) \/ Change(p) \/ Bwrite(p)
                          \/ ReleaseSleep(p)
    BY <1>2 DEF Next
  <2>2. QED BY <2>1, BgetStep, WayStep, LogStep, ReleaseStep, BrelseStep DEF Bget, Work
<1>3. QED BY <1>1, <1>2

\* However many processes ask for however many blocks at once, the cache is sound: no
\* block is cached twice, no buffer is recycled under a process or before its change is
\* at home, the counts are exact and the list of buffers loses none.
THEOREM CacheIsSound == Spec => []CacheSound
<1>1. IInv => CacheSound
  BY DEF IInv
<1>2. QED BY <1>1, InitInv, StepInv, PTL DEF Spec

-----------------------------------------------------------------------------
(* The cache implements BlockStore.  The argument.  A buffer that can be   *)
(* recycled holds what the disk holds, and a read finds a buffer that      *)
(* nobody could take for valid: so neither changes a content that is seen. *)

\* A valid buffer differs from the disk only when it is pinned, or is about to be; it
\* does not when its block has been written home; and what is being read was not valid.
Coherent ==
  /\ \A b \in Buf : valid[b] /\ block[b] \in Block /\ block[b] \notin pinned =>
       data[b] = disk[block[b]] \/ \E p \in Proc : At(p, "changed") /\ Bf(p) = b
  /\ \A p \in Proc : At(p, "written") => data[Bf(p)] = disk[Blk(p)]
  /\ \A p \in Proc : At(p, "reading") => ~ valid[Bf(p)]

\* What the store sees of a block, and who has it.
ContentRight ==
  \A k \in Block :
    /\ \A b \in Buf : block[b] = k /\ valid[b] => Content[k] = data[b]
    /\ (\A b \in Buf : ~ (block[b] = k /\ valid[b])) => Content[k] = disk[k]
UserRight ==
  \A k \in Block :
    /\ \A p \in Proc : thr[p].pc \in Using /\ Blk(p) = k => User[k] = p
    /\ (\A p \in Proc : ~ (thr[p].pc \in Using /\ Blk(p) = k)) => User[k] = NoProc

LEMMA ContentIs == IInv => ContentRight
<1> SUFFICES ASSUME IInv, NEW k \in Block
             PROVE  /\ \A b \in Buf : block[b] = k /\ valid[b] => Content[k] = data[b]
                    /\ (\A b \in Buf : ~ (block[b] = k /\ valid[b])) => Content[k] = disk[k]
  BY DEF ContentRight
<1>1. ASSUME NEW b \in Buf, block[b] = k, valid[b] PROVE Content[k] = data[b]
  <2>1. b \in Cached(k) /\ \A c \in Cached(k) : c = b
    BY <1>1, BcacheAssumption DEF Cached, IInv, CacheSound, OneCopy
  <2>2. Member(Cached(k)) = b
    BY <2>1 DEF Member
  <2>3. QED BY <2>1, <2>2 DEF Content
<1>2. ASSUME \A b \in Buf : ~ (block[b] = k /\ valid[b]) PROVE Content[k] = disk[k]
  BY <1>2 DEF Content, Cached
<1>3. QED BY <1>1, <1>2

LEMMA UserIs == IInv => UserRight
<1> SUFFICES ASSUME IInv, NEW k \in Block
             PROVE  /\ \A p \in Proc : thr[p].pc \in Using /\ Blk(p) = k => User[k] = p
                    /\ (\A p \in Proc : ~ (thr[p].pc \in Using /\ Blk(p) = k)) => User[k] = NoProc
  BY DEF UserRight
<1>1. ASSUME NEW p \in Proc, thr[p].pc \in Using, Blk(p) = k PROVE User[k] = p
  <2>1. p \in Users(k) /\ \A q \in Users(k) : q = p
    BY <1>1, Alone DEF Users, Holds
  <2>2. Member(Users(k)) = p
    BY <2>1 DEF Member
  <2>3. QED BY <2>1, <2>2 DEF User
<1>2. ASSUME \A p \in Proc : ~ (thr[p].pc \in Using /\ Blk(p) = k) PROVE User[k] = NoProc
  BY <1>2 DEF User, Users
<1>3. QED BY <1>1, <1>2

LEMMA OwnBuffer ==
  ASSUME IInv, NEW p \in Proc, NEW q \in Proc, thr[p].pc \in Holds, thr[q].pc \in Holds,
         Bf(p) = Bf(q)
  PROVE  p = q
<1>1. Bf(p) \in Buf
  BY DEF IInv, CacheSound, TypeOK, ThrType, Bf
<1>2. holder[Bf(p)] = p /\ holder[Bf(p)] = q
  BY <1>1 DEF IInv, CacheSound, HoldersKnow
<1>3. QED BY <1>2

Label(p, l) == (thr'[p].pc = l) <=> (thr[p].pc = l)

\* Steps in which nobody begins or ends to change, to write home or to read.
LEMMA CoherentKept ==
  ASSUME Coherent, UNCHANGED <<block, valid, data, disk, pinned>>,
         \A q \in Proc : Label(q, "changed") /\ Label(q, "written") /\ Label(q, "reading"),
         \A q \in Proc : thr[q].pc \in {"changed", "written", "reading"} =>
                           thr'[q].b = thr[q].b /\ thr'[q].blk = thr[q].blk
  PROVE  Coherent'
<1>1. ASSUME NEW q \in Proc
      PROVE  /\ At(q, "changed")' <=> At(q, "changed")
             /\ At(q, "written")' <=> At(q, "written")
             /\ At(q, "reading")' <=> At(q, "reading")
  BY DEF At, Label
<1>2. \A q \in Proc : At(q, "changed") \/ At(q, "written") \/ At(q, "reading") =>
                        Bf(q)' = Bf(q) /\ Blk(q)' = Blk(q)
  BY DEF At, Bf, Blk
<1>3. QED BY <1>1, <1>2 DEF Coherent

\* The steps that the store does not see.
Quiet == Content' = Content /\ User' = User

LEMMA UserKept ==
  ASSUME \A q \in Proc : thr'[q].pc \in Using <=> thr[q].pc \in Using,
         \A q \in Proc : thr[q].pc \in Using => thr'[q].blk = thr[q].blk
  PROVE  User' = User
<1>1. \A k \in Block : Users(k)' = Users(k)
  BY DEF Users, Blk
<1>2. QED BY <1>1 DEF User

LEMMA ContentKept ==
  ASSUME UNCHANGED <<block, valid, data, disk>>
  PROVE  Content' = Content
BY DEF Content, Cached

LEMMA ContentAway ==
  ASSUME NEW k \in Block, Cached(k)' = Cached(k), \A b \in Cached(k) : data'[b] = data[b],
         disk'[k] = disk[k]
  PROVE  Content'[k] = Content[k]
<1>1. CASE Cached(k) = {}
  BY <1>1 DEF Content
<1>2. CASE Cached(k) # {}
  <2>1. Member(Cached(k)) \in Cached(k)
    BY <1>2 DEF Member
  <2>2. QED BY <1>2, <2>1 DEF Content
<1>3. QED BY <1>1, <1>2

\* bread() returns.
LEMMA Takes ==
  ASSUME IInv, IInv', NEW p \in Proc, thr[p].pc \in {"locked", "reading"},
         thr'[p].pc = "held", thr'[p].blk = thr[p].blk, Content' = Content,
         \A q \in Proc : q # p => thr'[q] = thr[q]
  PROVE  \E k \in Block : Store!Take(p, k)
<1>1. Blk(p) \in Block /\ "held" \in Using /\ thr[p].pc \in Holds /\ thr[p].pc \notin Using
  BY DEF IInv, Asked, Refers, Holds, Using
<1>2. \A q \in Proc : ~ (thr[q].pc \in Using /\ Blk(q) = Blk(p))
  BY <1>1, Alone DEF Holds
<1>3. User[Blk(p)] = NoProc
  BY <1>1, <1>2, UserIs DEF UserRight
<1>4. User'[Blk(p)] = p
  <2>1. thr'[p].pc \in Using /\ Blk(p)' = Blk(p)
    BY <1>1 DEF Blk
  <2>2. UserRight'
    BY UserIs, PTL
  <2>3. QED BY <1>1, <2>1, <2>2 DEF UserRight
<1>5. \A k \in Block : k # Blk(p) => User'[k] = User[k]
  <2>1. ASSUME NEW k \in Block, k # Blk(p) PROVE Users(k)' = Users(k)
    BY <1>1, <2>1 DEF Users, Blk
  <2>2. QED BY <2>1 DEF User
<1>6. User' = [User EXCEPT ![Blk(p)] = p]
  BY <1>1, <1>4, <1>5 DEF User
<1>7. QED BY <1>1, <1>3, <1>6 DEF Store!Take

-----------------------------------------------------------------------------
\* Every step keeps Coherent, and is a step of the store or changes nothing there.
Refines == Coherent' /\ (Store!Next \/ Quiet)

LEMMA QuietStep ==
  ASSUME IInv, IInv', Coherent, NEW p \in Proc,
         \/ AcquireSleep(p) \/ AcquireWait(p) \/ Brelse(p)
         \/ \E k \in Block : BgetHit(p, k) \/ BgetPanic(p, k)
  PROVE  Refines
<1>1. TypeOK /\ thr \in [Proc -> ThrType] /\ thr[p] \in ThrType
  BY DEF IInv, CacheSound, TypeOK
<1>2. UNCHANGED <<block, valid, data, disk, pinned>>
  BY DEF AcquireSleep, AcquireWait, Brelse, BgetHit, BgetPanic, bufs
<1>3. \A q \in Proc : q # p => thr'[q] = thr[q]
  BY <1>1 DEF AcquireSleep, AcquireWait, Brelse, BgetHit, BgetPanic, Goto, Has
<1>4. /\ thr[p].pc \in {"idle", "want", "released"}
      /\ thr'[p].pc \in {"want", "locked", "asleep", "idle", "panic"}
  <2>1. CASE AcquireSleep(p) \/ AcquireWait(p)
    BY <1>1, <2>1, Moved DEF AcquireSleep, AcquireWait, At, Labels, Refers, Holds
  <2>2. CASE Brelse(p)
    BY <1>1, <2>2 DEF Brelse, At, Idle
  <2>3. CASE \E k \in Block : BgetHit(p, k)
    BY <1>1, <2>3 DEF BgetHit, At, Has
  <2>4. CASE \E k \in Block : BgetPanic(p, k)
    BY <1>1, <2>4, Moved DEF BgetPanic, At, Labels
  <2>5. QED BY <2>1, <2>2, <2>3, <2>4
<1>5. Coherent'
  BY <1>2, <1>3, <1>4, CoherentKept DEF Label
<1>6. User' = User
  BY <1>3, <1>4, UserKept DEF Using
<1>7. QED BY <1>2, <1>5, <1>6, ContentKept DEF Refines, Quiet

LEMMA BreadRefines ==
  ASSUME IInv, IInv', Coherent, NEW p \in Proc, Bread(p) \/ ReadDone(p)
  PROVE  Refines
<1>1. TypeOK /\ OneCopy /\ RightBlock /\ thr[p] \in ThrType /\ Bf(p) \in Buf
      /\ NoBlock \notin Block
  BY BcacheAssumption DEF IInv, CacheSound, TypeOK, ThrType, Bf
<1>2. CASE Bread(p)
  <2>1. /\ thr[p].pc = "locked" /\ Goto(p, IF valid[Bf(p)] THEN "held" ELSE "reading")
        /\ UNCHANGED <<block, valid, data, disk, pinned>>
    BY <1>2 DEF Bread, At, bufs
  <2>2. /\ thr'[p].pc = (IF valid[Bf(p)] THEN "held" ELSE "reading")
        /\ thr'[p].b = thr[p].b /\ thr'[p].blk = thr[p].blk
        /\ \A q \in Proc : q # p => thr'[q] = thr[q]
    BY <1>1, <2>1, Moved DEF Labels, Refers, Holds, Using
  <2>3. Content' = Content
    BY <2>1, ContentKept
  <2>4. Coherent'
    BY <1>1, <2>1, <2>2 DEF Coherent, At, Bf, Blk
  <2>5. CASE valid[Bf(p)]
    <3>1. \E k \in Block : Store!Take(p, k)
      BY <2>1, <2>2, <2>3, <2>5, Takes
    <3>2. QED BY <2>4, <3>1 DEF Refines, Store!Next
  <2>6. CASE ~ valid[Bf(p)]
    <3>1. User' = User
      BY <2>1, <2>2, <2>6, UserKept DEF Using
    <3>2. QED BY <2>3, <2>4, <3>1 DEF Refines, Quiet
  <2>7. QED BY <2>5, <2>6
<1>3. CASE ReadDone(p)
  <2>1. /\ thr[p].pc = "reading" /\ Goto(p, "held")
        /\ data' = [data EXCEPT ![Bf(p)] = disk[block[Bf(p)]]]
        /\ valid' = [valid EXCEPT ![Bf(p)] = TRUE]
        /\ UNCHANGED <<block, disk, pinned>>
    BY <1>3 DEF ReadDone, At
  <2>2. /\ thr'[p].pc = "held" /\ thr'[p].b = thr[p].b /\ thr'[p].blk = thr[p].blk
        /\ \A q \in Proc : q # p => thr'[q] = thr[q]
    BY <1>1, <2>1, Moved DEF Labels, Refers, Holds, Using
  <2>3. /\ Blk(p) \in Block /\ block[Bf(p)] = Blk(p) /\ ~ valid[Bf(p)] /\ thr[p].pc \in Holds
    BY <1>1, <2>1 DEF Coherent, At, IInv, Asked, RightBlock, Refers, Holds, Using
  <2>4. \A b \in Buf : /\ data'[b] = IF b = Bf(p) THEN disk[Blk(p)] ELSE data[b]
                       /\ valid'[b] = IF b = Bf(p) THEN TRUE ELSE valid[b]
    BY <1>1, <2>1, <2>3 DEF TypeOK
  <2>5. \A q \in Proc : q # p /\ thr[q].pc \in Holds => Bf(q) \in Buf \ {Bf(p)}
    BY <1>1, <2>3, OwnBuffer DEF TypeOK, ThrType, Bf
  <2>6. Coherent'
    <3>1. ASSUME NEW b \in Buf, valid'[b], block[b] \in Block, block[b] \notin pinned
          PROVE  data'[b] = disk[block[b]] \/ \E q \in Proc : At(q, "changed")' /\ Bf(q)' = b
      <4>1. CASE b = Bf(p)
        BY <2>3, <2>4, <4>1
      <4>2. CASE b # Bf(p) /\ data[b] = disk[block[b]]
        BY <2>4, <4>2
      <4>3. CASE b # Bf(p) /\ \E q \in Proc : At(q, "changed") /\ Bf(q) = b
        BY <2>1, <2>2, <4>3 DEF At, Bf
      <4>4. QED BY <2>4, <3>1, <4>1, <4>2, <4>3 DEF Coherent
    <3>2. ASSUME NEW q \in Proc, At(q, "written")' PROVE data'[Bf(q)'] = disk[Blk(q)']
      <4>1. q # p /\ thr'[q] = thr[q] /\ At(q, "written") /\ thr[q].pc \in Holds
        BY <2>2, <3>2 DEF At, Holds, Using
      <4>2. data[Bf(q)] = disk[Blk(q)] /\ data'[Bf(q)] = data[Bf(q)]
        BY <2>4, <2>5, <4>1 DEF Coherent
      <4>3. QED BY <4>1, <4>2 DEF Bf, Blk
    <3>3. ASSUME NEW q \in Proc, At(q, "reading")' PROVE ~ valid'[Bf(q)']
      <4>1. q # p /\ thr'[q] = thr[q] /\ At(q, "reading") /\ thr[q].pc \in Holds
        BY <2>2, <3>3 DEF At, Holds
      <4>2. ~ valid[Bf(q)] /\ valid'[Bf(q)] = valid[Bf(q)]
        BY <2>4, <2>5, <4>1 DEF Coherent
      <4>3. QED BY <4>1, <4>2 DEF Bf
    <3>4. QED BY <2>1, <3>1, <3>2, <3>3 DEF Coherent
  <2>7. Content' = Content
    <3>1. ContentRight /\ ContentRight'
      BY ContentIs, PTL
    <3>2. ASSUME NEW k \in Block PROVE Content'[k] = Content[k]
      <4>1. CASE k = Blk(p)
        <5>1. \A b \in Buf : ~ (block[b] = k /\ valid[b])
          BY <1>1, <2>3, <4>1 DEF OneCopy
        <5>2. Content[k] = disk[k]
          BY <3>1, <5>1 DEF ContentRight
        <5>3. block'[Bf(p)] = k /\ valid'[Bf(p)] /\ data'[Bf(p)] = disk[k]
          BY <1>1, <2>1, <2>3, <2>4, <4>1
        <5>4. QED BY <1>1, <3>1, <5>2, <5>3 DEF ContentRight
      <4>2. CASE k # Blk(p)
        <5>1. Cached(k)' = Cached(k) /\ \A b \in Cached(k) : data'[b] = data[b]
          BY <2>1, <2>3, <2>4, <4>2 DEF Cached
        <5>2. QED BY <2>1, <5>1, ContentAway
      <4>3. QED BY <4>1, <4>2
    <3>3. QED BY <3>2 DEF Content
  <2>8. \E k \in Block : Store!Take(p, k)
    BY <2>1, <2>2, <2>7, Takes
  <2>9. QED BY <2>6, <2>8 DEF Refines, Store!Next
<1>4. QED BY <1>2, <1>3

\* What the steps of a caller that has a buffer have in common.
LEMMA InUse ==
  ASSUME IInv, NEW p \in Proc, NEW from \in Using, NEW l \in Using, thr[p].pc = from, Goto(p, l)
  PROVE  /\ thr'[p].pc = l /\ thr'[p].b = thr[p].b /\ thr'[p].blk = thr[p].blk
         /\ \A q \in Proc : q # p => thr'[q] = thr[q]
         /\ User' = User /\ Bf(p) \in Buf /\ Blk(p) \in Block /\ block[Bf(p)] = Blk(p)
         /\ valid[Bf(p)] /\ Content[Blk(p)] = data[Bf(p)] /\ User[Blk(p)] = p
         /\ \A b \in Buf : b # Bf(p) => block[b] # Blk(p)
         /\ \A q \in Proc : q # p /\ thr[q].pc \in Holds =>
              Bf(q) \in Buf \ {Bf(p)} /\ Blk(q) \in Block \ {Blk(p)}
<1>1. /\ TypeOK /\ OneCopy /\ RightBlock /\ Asked /\ Bf(p) \in Buf /\ NoBlock \notin Block
      /\ \A q \in Proc : Bf(q) \in Buf
  BY BcacheAssumption DEF IInv, CacheSound, TypeOK, ThrType, Bf
<1>2. from \in Holds /\ from \in Refers /\ l \in Labels
  BY DEF Using, Holds, Refers, Labels
<1>3. /\ thr'[p].pc = l /\ thr'[p].b = thr[p].b /\ thr'[p].blk = thr[p].blk
      /\ \A q \in Proc : q # p => thr'[q] = thr[q]
  BY <1>1, <1>2, Moved
<1>4. User' = User
  BY <1>3, UserKept
<1>5. Blk(p) \in Block /\ block[Bf(p)] = Blk(p) /\ valid[Bf(p)]
  BY <1>1, <1>2 DEF Asked, RightBlock
<1>6. Content[Blk(p)] = data[Bf(p)] /\ User[Blk(p)] = p
  BY <1>1, <1>5, ContentIs, UserIs DEF ContentRight, UserRight
<1>7. \A b \in Buf : b # Bf(p) => block[b] # Blk(p)
  BY <1>1, <1>5 DEF OneCopy
<1>8. \A q \in Proc : q # p /\ thr[q].pc \in Holds =>
        Bf(q) \in Buf \ {Bf(p)} /\ Blk(q) \in Block \ {Blk(p)}
  BY <1>1, <1>2, OwnBuffer, Alone DEF Asked, Refers
<1>9. QED BY <1>1, <1>3, <1>4, <1>5, <1>6, <1>7, <1>8

LEMMA ChangeRefines ==
  ASSUME IInv, IInv', Coherent, NEW p \in Proc, Change(p)
  PROVE  Refines
<1>1. PICK v \in Value : data' = [data EXCEPT ![Bf(p)] = v]
  BY DEF Change
<1>2. /\ thr[p].pc = "held" /\ Goto(p, "changed") /\ UNCHANGED <<block, valid, disk, pinned>>
      /\ "held" \in Using /\ "changed" \in Using /\ data \in [Buf -> Value]
  BY DEF Change, At, Using, IInv, CacheSound, TypeOK
<1>3. /\ thr'[p].pc = "changed" /\ thr'[p].b = thr[p].b /\ thr'[p].blk = thr[p].blk
      /\ \A q \in Proc : q # p => thr'[q] = thr[q]
      /\ User' = User /\ Bf(p) \in Buf /\ Blk(p) \in Block /\ block[Bf(p)] = Blk(p)
      /\ valid[Bf(p)] /\ User[Blk(p)] = p
      /\ \A b \in Buf : b # Bf(p) => block[b] # Blk(p)
      /\ \A q \in Proc : q # p /\ thr[q].pc \in Holds => Bf(q) \in Buf \ {Bf(p)}
  BY <1>2, InUse
<1>4. \A b \in Buf : data'[b] = IF b = Bf(p) THEN v ELSE data[b]
  BY <1>1, <1>2
<1>5. Coherent'
  <2>1. ASSUME NEW b \in Buf, valid[b], block[b] \in Block, block[b] \notin pinned
        PROVE  data'[b] = disk[block[b]] \/ \E q \in Proc : At(q, "changed")' /\ Bf(q)' = b
    <3>1. CASE b = Bf(p)
      BY <1>3, <3>1 DEF At, Bf
    <3>2. CASE b # Bf(p) /\ data[b] = disk[block[b]]
      BY <1>4, <3>2
    <3>3. CASE b # Bf(p) /\ \E q \in Proc : At(q, "changed") /\ Bf(q) = b
      BY <1>2, <1>3, <3>3 DEF At, Bf
    <3>4. QED BY <2>1, <3>1, <3>2, <3>3 DEF Coherent
  <2>2. ASSUME NEW q \in Proc, At(q, "written")' PROVE data'[Bf(q)'] = disk[Blk(q)']
    <3>1. q # p /\ thr'[q] = thr[q] /\ At(q, "written") /\ thr[q].pc \in Holds
      BY <1>3, <2>2 DEF At, Holds, Using
    <3>2. data[Bf(q)] = disk[Blk(q)] /\ data'[Bf(q)] = data[Bf(q)]
      BY <1>3, <1>4, <3>1 DEF Coherent
    <3>3. QED BY <3>1, <3>2 DEF Bf, Blk
  <2>3. ASSUME NEW q \in Proc, At(q, "reading")' PROVE ~ valid[Bf(q)']
    <3>1. q # p /\ thr'[q] = thr[q] /\ At(q, "reading")
      BY <1>3, <2>3 DEF At
    <3>2. QED BY <3>1 DEF Coherent, Bf
  <2>4. QED BY <1>2, <2>1, <2>2, <2>3 DEF Coherent
<1>6. Content' = [Content EXCEPT ![Blk(p)] = v]
  <2>1. ContentRight'
    BY ContentIs, PTL
  <2>2. Content'[Blk(p)] = v
    BY <1>2, <1>3, <1>4, <2>1 DEF ContentRight
  <2>3. ASSUME NEW k \in Block, k # Blk(p) PROVE Content'[k] = Content[k]
    <3>1. Cached(k)' = Cached(k) /\ \A b \in Cached(k) : data'[b] = data[b]
      BY <1>2, <1>3, <1>4, <2>3 DEF Cached
    <3>2. QED BY <1>2, <3>1, ContentAway
  <2>4. QED BY <1>3, <2>2, <2>3 DEF Content
<1>7. Store!Change(p, Blk(p))
  BY <1>3, <1>6 DEF Store!Change
<1>8. QED BY <1>3, <1>5, <1>7 DEF Refines, Store!Next

LEMMA LogWriteRefines ==
  ASSUME IInv, IInv', Coherent, NEW p \in Proc, LogWrite(p)
  PROVE  Refines
<1>1. /\ thr[p].pc = "changed" /\ Goto(p, "held") /\ pinned' = pinned \cup {Blk(p)}
      /\ UNCHANGED <<block, valid, data, disk>> /\ "held" \in Using /\ "changed" \in Using
  BY DEF LogWrite, At, Using
<1>2. /\ thr'[p].pc = "held" /\ \A q \in Proc : q # p => thr'[q] = thr[q]
      /\ User' = User /\ Bf(p) \in Buf /\ block[Bf(p)] = Blk(p)
  BY <1>1, InUse
<1>3. Coherent'
  <2>1. ASSUME NEW b \in Buf, valid[b], block[b] \in Block, block[b] \notin pinned'
        PROVE  data[b] = disk[block[b]] \/ \E q \in Proc : At(q, "changed")' /\ Bf(q)' = b
    <3>1. b # Bf(p) /\ block[b] \notin pinned
      BY <1>1, <1>2, <2>1
    <3>2. ASSUME NEW q \in Proc, At(q, "changed"), Bf(q) = b
          PROVE  At(q, "changed")' /\ Bf(q)' = b
      BY <1>2, <3>1, <3>2 DEF At, Bf
    <3>3. QED BY <2>1, <3>1, <3>2 DEF Coherent
  <2>2. ASSUME NEW q \in Proc, At(q, "written")' \/ At(q, "reading")'
        PROVE  q # p /\ thr'[q] = thr[q]
    BY <1>2, <2>2 DEF At
  <2>3. QED BY <1>1, <2>1, <2>2 DEF Coherent, At, Bf, Blk
<1>4. QED BY <1>1, <1>2, <1>3, ContentKept DEF Refines, Quiet

LEMMA BwriteRefines ==
  ASSUME IInv, IInv', Coherent, NEW p \in Proc, Bwrite(p)
  PROVE  Refines
<1>1. /\ thr[p].pc = "held" /\ Goto(p, "written") /\ Blk(p) \in pinned
      /\ disk' = [disk EXCEPT ![block[Bf(p)]] = data[Bf(p)]]
      /\ UNCHANGED <<block, valid, data, pinned>> /\ "held" \in Using /\ "written" \in Using
      /\ disk \in [Block -> Value]
  BY DEF Bwrite, At, Using, bufs, IInv, CacheSound, TypeOK
<1>2. /\ thr'[p].pc = "written" /\ thr'[p].b = thr[p].b /\ thr'[p].blk = thr[p].blk
      /\ \A q \in Proc : q # p => thr'[q] = thr[q]
      /\ User' = User /\ Bf(p) \in Buf /\ Blk(p) \in Block /\ block[Bf(p)] = Blk(p)
      /\ valid[Bf(p)] /\ Content[Blk(p)] = data[Bf(p)]
      /\ \A b \in Buf : b # Bf(p) => block[b] # Blk(p)
      /\ \A q \in Proc : q # p /\ thr[q].pc \in Holds => Blk(q) \in Block \ {Blk(p)}
  BY <1>1, InUse
<1>3. \A k \in Block : disk'[k] = IF k = Blk(p) THEN data[Bf(p)] ELSE disk[k]
  BY <1>1, <1>2
<1>4. Coherent'
  <2>1. ASSUME NEW b \in Buf, valid[b], block[b] \in Block, block[b] \notin pinned
        PROVE  data[b] = disk'[block[b]] \/ \E q \in Proc : At(q, "changed")' /\ Bf(q)' = b
    <3>1. b # Bf(p) /\ block[b] # Blk(p)
      BY <1>1, <1>2, <2>1
    <3>2. ASSUME NEW q \in Proc, At(q, "changed"), Bf(q) = b
          PROVE  At(q, "changed")' /\ Bf(q)' = b
      BY <1>2, <3>1, <3>2 DEF At, Bf
    <3>3. QED BY <1>3, <2>1, <3>1, <3>2 DEF Coherent
  <2>2. ASSUME NEW q \in Proc, At(q, "written")' PROVE data[Bf(q)'] = disk'[Blk(q)']
    <3>1. CASE q = p
      BY <1>2, <1>3, <3>1 DEF Bf, Blk
    <3>2. CASE q # p
      <4>1. thr'[q] = thr[q] /\ At(q, "written") /\ thr[q].pc \in Holds
        BY <1>2, <2>2, <3>2 DEF At, Holds, Using
      <4>2. data[Bf(q)] = disk[Blk(q)] /\ disk'[Blk(q)] = disk[Blk(q)]
        BY <1>2, <1>3, <3>2, <4>1 DEF Coherent
      <4>3. QED BY <4>1, <4>2 DEF Bf, Blk
    <3>3. QED BY <3>1, <3>2
  <2>3. ASSUME NEW q \in Proc, At(q, "reading")' PROVE ~ valid[Bf(q)']
    <3>1. q # p /\ thr'[q] = thr[q] /\ At(q, "reading")
      BY <1>2, <2>3 DEF At
    <3>2. QED BY <3>1 DEF Coherent, Bf
  <2>4. QED BY <1>1, <2>1, <2>2, <2>3 DEF Coherent
<1>5. Content' = Content
  <2>1. ContentRight'
    BY ContentIs, PTL
  <2>2. Content'[Blk(p)] = Content[Blk(p)]
    BY <1>1, <1>2, <2>1 DEF ContentRight
  <2>3. ASSUME NEW k \in Block, k # Blk(p) PROVE Content'[k] = Content[k]
    <3>1. Cached(k)' = Cached(k)
      BY <1>1 DEF Cached
    <3>2. QED BY <1>1, <1>3, <2>3, <3>1, ContentAway
  <2>4. QED BY <2>2, <2>3 DEF Content
<1>6. QED BY <1>2, <1>4, <1>5 DEF Refines, Quiet

LEMMA BunpinRefines ==
  ASSUME IInv, IInv', Coherent, NEW p \in Proc, Bunpin(p)
  PROVE  Refines
<1>1. /\ thr[p].pc = "written" /\ Goto(p, "held") /\ pinned' = pinned \ {Blk(p)}
      /\ UNCHANGED <<block, valid, data, disk>> /\ "held" \in Using /\ "written" \in Using
  BY DEF Bunpin, At, Using
<1>2. /\ thr'[p].pc = "held" /\ \A q \in Proc : q # p => thr'[q] = thr[q]
      /\ User' = User /\ Bf(p) \in Buf /\ block[Bf(p)] = Blk(p)
      /\ \A b \in Buf : b # Bf(p) => block[b] # Blk(p)
  BY <1>1, InUse
<1>3. data[Bf(p)] = disk[Blk(p)]
  BY <1>1 DEF Coherent, At
<1>4. Coherent'
  <2>1. ASSUME NEW b \in Buf, valid[b], block[b] \in Block, block[b] \notin pinned'
        PROVE  data[b] = disk[block[b]] \/ \E q \in Proc : At(q, "changed")' /\ Bf(q)' = b
    <3>1. CASE b = Bf(p)
      BY <1>2, <1>3, <3>1
    <3>2. CASE b # Bf(p)
      <4>1. block[b] \notin pinned
        BY <1>1, <1>2, <2>1, <3>2
      <4>2. ASSUME NEW q \in Proc, At(q, "changed"), Bf(q) = b
            PROVE  At(q, "changed")' /\ Bf(q)' = b
        BY <1>1, <1>2, <4>2 DEF At, Bf
      <4>3. QED BY <2>1, <4>1, <4>2 DEF Coherent
    <3>3. QED BY <3>1, <3>2
  <2>2. ASSUME NEW q \in Proc, At(q, "written")' \/ At(q, "reading")'
        PROVE  q # p /\ thr'[q] = thr[q]
    BY <1>2, <2>2 DEF At
  <2>3. QED BY <1>1, <2>1, <2>2 DEF Coherent, At, Bf, Blk
<1>5. QED BY <1>1, <1>2, <1>4, ContentKept DEF Refines, Quiet

LEMMA ReleaseRefines ==
  ASSUME IInv, IInv', Coherent, NEW p \in Proc, ReleaseSleep(p)
  PROVE  Refines
<1>1. thr[p].pc = "held" /\ UNCHANGED <<block, valid, data, disk, pinned>> /\ "held" \in Using
      /\ thr \in [Proc -> ThrType] /\ "held" \in Holds
  BY DEF ReleaseSleep, At, bufs, Using, Holds, IInv, CacheSound, TypeOK
<1>2. thr' = [q \in Proc |->
        IF q = p THEN [thr[q] EXCEPT !.pc = "released"]
        ELSE IF thr[q].pc = "asleep" /\ thr[q].b = thr[p].b THEN [thr[q] EXCEPT !.pc = "want"]
        ELSE thr[q]]
  BY DEF ReleaseSleep, At, Bf
<1>3. ASSUME NEW q \in Proc
      PROVE  /\ thr'[q].b = thr[q].b /\ thr'[q].blk = thr[q].blk
             /\ \/ thr'[q].pc = thr[q].pc /\ q # p
                \/ thr[q].pc = "held" /\ thr'[q].pc = "released" /\ q = p
                \/ thr[q].pc = "asleep" /\ thr'[q].pc = "want" /\ q # p
  BY <1>1, <1>2 DEF ThrType
<1>4. Coherent'
  <2>1. \A q \in Proc : Label(q, "changed") /\ Label(q, "written") /\ Label(q, "reading")
    BY <1>3 DEF Label
  <2>2. QED BY <1>1, <1>3, <2>1, CoherentKept
<1>5. Content' = Content
  BY <1>1, ContentKept
<1>6. Blk(p) \in Block /\ User[Blk(p)] = p
  BY <1>1, UserIs DEF IInv, Asked, Refers, UserRight
<1>7. \A q \in Proc : thr'[q].pc \in Using <=> q # p /\ thr[q].pc \in Using
  BY <1>1, <1>3 DEF Using
<1>8. User'[Blk(p)] = NoProc
  <2>1. UserRight'
    BY UserIs, PTL
  <2>2. ASSUME NEW q \in Proc, thr'[q].pc \in Using, Blk(q)' = Blk(p) PROVE FALSE
    <3>1. q # p /\ thr[q].pc \in Using /\ Blk(q) = Blk(p)
      BY <1>3, <1>7, <2>2 DEF Blk
    <3>2. QED BY <1>1, <3>1, Alone DEF Holds
  <2>3. QED BY <1>6, <2>1, <2>2 DEF UserRight
<1>9. ASSUME NEW k \in Block, k # Blk(p) PROVE User'[k] = User[k]
  <2>1. Users(k)' = Users(k)
    BY <1>3, <1>7, <1>9 DEF Users, Blk
  <2>2. QED BY <2>1 DEF User
<1>10. User' = [User EXCEPT ![Blk(p)] = NoProc]
  BY <1>6, <1>8, <1>9 DEF User
<1>11. Store!Give(p, Blk(p))
  BY <1>5, <1>6, <1>10 DEF Store!Give
<1>12. QED BY <1>4, <1>6, <1>11 DEF Refines, Store!Next

LEMMA RecycleRefines ==
  ASSUME IInv, IInv', Coherent, NEW p \in Proc, NEW k \in Block, BgetRecycle(p, k)
  PROVE  Refines
<1>1. /\ TypeOK /\ RefCounts /\ OneCopy /\ thr \in [Proc -> ThrType] /\ thr[p].pc = "idle"
      /\ UNCHANGED <<data, disk, pinned>> /\ \A c \in Buf : block[c] # k
  BY DEF IInv, CacheSound, TypeOK, BgetRecycle, At
<1>2. PICK b \in Buf : /\ refcnt[b] = 0 /\ Has(p, b, k)
                       /\ block' = [block EXCEPT ![b] = k] /\ valid' = [valid EXCEPT ![b] = FALSE]
  <2>1. \A i \in Unused : lru[i] \in Buf /\ refcnt[lru[i]] = 0
    BY <1>1 DEF TypeOK, Unused, Buf
  <2>2. QED BY <2>1 DEF BgetRecycle
<1>3. \A c \in Buf : /\ block'[c] = IF c = b THEN k ELSE block[c]
                     /\ valid'[c] = IF c = b THEN FALSE ELSE valid[c]
  BY <1>1, <1>2 DEF TypeOK
<1>4. thr'[p].pc = "want" /\ \A q \in Proc : q # p => thr'[q] = thr[q]
  BY <1>1, <1>2 DEF Has
<1>5. Refs(b) = {} /\ block[b] \notin pinned
  BY <1>1, <1>2, NotCounted
\* What is thrown away is what the disk has.
<1>6. valid[b] /\ block[b] \in Block => data[b] = disk[block[b]]
  <2>1. \A q \in Proc : ~ (At(q, "changed") /\ Bf(q) = b)
    BY <1>5 DEF Refs, At, Refers, Holds, Using
  <2>2. QED BY <1>5, <2>1 DEF Coherent
<1>7. Coherent'
  <2>1. ASSUME NEW c \in Buf, valid'[c], block'[c] \in Block, block'[c] \notin pinned
        PROVE  data[c] = disk[block'[c]] \/ \E q \in Proc : At(q, "changed")' /\ Bf(q)' = c
    <3>1. c # b /\ valid[c] /\ block'[c] = block[c]
      BY <1>3, <2>1
    <3>2. ASSUME NEW q \in Proc, At(q, "changed"), Bf(q) = c
          PROVE  At(q, "changed")' /\ Bf(q)' = c
      BY <1>1, <1>4, <3>2 DEF At, Bf
    <3>3. QED BY <2>1, <3>1, <3>2 DEF Coherent
  <2>2. ASSUME NEW q \in Proc, At(q, "written")' \/ At(q, "reading")'
        PROVE  q # p /\ thr'[q] = thr[q] /\ Bf(q) \in Buf
    BY <1>1, <1>4, <2>2 DEF At, ThrType, Bf
  <2>3. ASSUME NEW q \in Proc, At(q, "reading")' PROVE ~ valid'[Bf(q)']
    BY <1>3, <2>2, <2>3, ZenonT(30) DEF Coherent, At, Bf
  <2>4. ASSUME NEW q \in Proc, At(q, "written")' PROVE data[Bf(q)'] = disk[Blk(q)']
    BY <2>2, <2>4 DEF Coherent, At, Bf, Blk
  <2>5. QED BY <1>1, <2>1, <2>3, <2>4 DEF Coherent
<1>8. Content' = Content
  <2>1. ContentRight /\ ContentRight'
    BY ContentIs, PTL
  <2>2. ASSUME NEW j \in Block PROVE Content'[j] = Content[j]
    <3>1. CASE \A c \in Buf : ~ (block[c] = j /\ valid[c])
      <4>1. \A c \in Buf : ~ (block'[c] = j /\ valid'[c])
        BY <1>3, <3>1
      <4>2. Content[j] = disk[j] /\ Content'[j] = disk'[j]
        BY <2>1, <3>1, <4>1 DEF ContentRight
      <4>3. QED BY <1>1, <4>2
    <3>2. ASSUME NEW c \in Buf, block[c] = j, valid[c] PROVE Content'[j] = Content[j]
      <4>1. Content[j] = data[c]
        BY <2>1, <3>2 DEF ContentRight
      <4>2. CASE c = b
        <5>1. \A d \in Buf : ~ (block'[d] = j /\ valid'[d])
          BY <1>1, <1>3, <3>2, <4>2, BcacheAssumption DEF OneCopy
        <5>2. Content'[j] = disk'[j]
          BY <2>1, <5>1 DEF ContentRight
        <5>3. QED BY <1>1, <1>6, <3>2, <4>1, <4>2, <5>2
      <4>3. CASE c # b
        <5>1. block'[c] = j /\ valid'[c]
          BY <1>3, <3>2, <4>3
        <5>2. Content'[j] = data'[c]
          BY <2>1, <5>1 DEF ContentRight
        <5>3. QED BY <1>1, <4>1, <5>2
      <4>4. QED BY <4>2, <4>3
    <3>3. QED BY <3>1, <3>2
  <2>3. QED BY <2>2 DEF Content
<1>9. User' = User
  BY <1>1, <1>4, UserKept DEF Using
<1>10. QED BY <1>7, <1>8, <1>9 DEF Refines, Quiet

-----------------------------------------------------------------------------
LEMMA InitRefines == Init => Coherent /\ Store!Init
<1> SUFFICES ASSUME Init PROVE Coherent /\ Store!Init
  OBVIOUS
<1>1. \A p \in Proc : thr[p].pc = "idle"
  BY DEF Init, Idle
<1>2. \A b \in Buf : ~ valid[b]
  BY DEF Init
<1>3. Coherent
  BY <1>1, <1>2 DEF Coherent, At
<1>4. \A k \in Block : Cached(k) = {} /\ Users(k) = {}
  BY <1>1, <1>2 DEF Cached, Users, Using
<1>5. Content \in [Block -> Value] /\ User = [k \in Block |-> NoProc]
  BY <1>4 DEF Content, User, Init
<1>6. QED BY <1>3, <1>5 DEF Store!Init

LEMMA NextRefines == IInv /\ IInv' /\ Coherent /\ [Next]_vars => Coherent' /\ [Store!Next]_(Store!vars)
<1> SUFFICES ASSUME IInv, IInv', Coherent, [Next]_vars PROVE Refines
  BY DEF Refines, Quiet, Store!vars
<1>1. CASE UNCHANGED vars
  <2>1. UNCHANGED <<block, valid, data, disk, pinned, thr>>
    BY <1>1 DEF vars, bufs
  <2>2. Coherent'
    BY <2>1, CoherentKept DEF Label
  <2>3. QED BY <2>1, <2>2, UserKept, ContentKept DEF Refines, Quiet
<1>2. CASE Next
  <2>1. PICK p \in Proc : Bget(p) \/ AcquireSleep(p) \/ Work(p) \/ Change(p) \/ Bwrite(p)
                          \/ ReleaseSleep(p)
    BY <1>2 DEF Next
  <2>2. CASE Bget(p)
    BY <2>2, QuietStep, RecycleRefines DEF Bget
  <2>3. CASE Work(p)
    BY <2>3, QuietStep, BreadRefines, LogWriteRefines, BunpinRefines DEF Work
  <2>4. QED BY <2>1, <2>2, <2>3, QuietStep, ChangeRefines, BwriteRefines, ReleaseRefines
<1>3. QED BY <1>1, <1>2

\* The cache implements the store, whatever the number of processes, buffers and blocks:
\* no eviction, late read or write home can be seen in what bread() returns, and a block
\* is changed by the one process that has it.
THEOREM CacheImplementsStore == Spec => CacheIsStore
<1>1. Spec => []IInv
  BY InitInv, StepInv, PTL DEF Spec
<1>2. QED BY <1>1, InitRefines, NextRefines, PTL DEF Spec, CacheIsStore, Store!Spec
=============================================================================
