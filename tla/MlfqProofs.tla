----------------------------- MODULE MlfqProofs -----------------------------
(***************************************************************************)
(* The queues of the MLFQ scheduler stay consistent, for every number of   *)
(* slots and levels, every time slice and every aging time.                *)
(*                                                                         *)
(* The argument.  QueueInv: who stands in a queue has in_queue set, is     *)
(* runnable and of that queue's level, and stands there once; and whoever  *)
(* has in_queue set stands somewhere.  CpuInv: the process that scheduler()*)
(* has chosen, or that runs, is in no queue, so that its level and state   *)
(* may change.  That no queue overflows follows from QueueInv: a queue     *)
(* without repetitions holds at most NPROC slots.                          *)
(***************************************************************************)
EXTENDS Mlfq, SequenceTheorems, FiniteSetTheorems, TLAPS

\* No slot stands twice in q.
NoRepeat(q) == \A i, j \in 1 .. Len(q) : q[i] = q[j] => i = j

\* s stands in q.
StandsIn(s, q) == \E i \in 1 .. Len(q) : q[i] = s

QueueInv ==
  /\ \A l \in Level : NoRepeat(mlfq[l])
  /\ \A l \in Level : \A s \in Slot :
       StandsIn(s, mlfq[l]) <=> in_queue[s] /\ level[s] = l
  /\ \A s \in Slot : in_queue[s] => state[s] = "RUNNABLE"

\* The process on the CPU, or about to be, stands in no queue.
CpuInv ==
  /\ pc # "age" => p \in Slot
  /\ pc = "dispatch" => state[p] = "RUNNABLE" /\ ~ in_queue[p]
  /\ pc \in {"user", "kernel"} => state[p] = "RUNNING"

\* The type of the state, but for the lengths of the queues.
Typed ==
  /\ state \in [Slot -> {"UNUSED", "SLEEPING", "RUNNABLE", "RUNNING", "ZOMBIE"}]
  /\ level \in [Slot -> Level]
  /\ in_queue \in [Slot -> BOOLEAN]
  /\ change_queue \in [Slot -> Nat]
  /\ age \in [Slot -> 0 .. AGETICK]
  /\ mlfq \in [Level -> Seq(Slot)]
  /\ pc \in {"age", "enqueue", "dispatch", "user", "kernel"}
  /\ p \in 1 .. NPROC + 1

IInv == Typed /\ QueueInv /\ CpuInv

-----------------------------------------------------------------------------
\* A queue without repetitions is no longer than the process table.
LEMMA NoOverflow ==
  ASSUME NEW q \in Seq(Slot), NoRepeat(q)
  PROVE  Len(q) <= NPROC
  <1>1. SUFFICES ASSUME Len(q) > NPROC PROVE FALSE
    BY MlfqAssumption
  <1>2. /\ IsFiniteSet(1 .. Len(q)) /\ IsFiniteSet(Slot)
        /\ Cardinality(1 .. Len(q)) = Len(q) /\ Cardinality(Slot) = NPROC
    <2>1. Len(q) \in Nat /\ NPROC \in Nat /\ Slot = 1 .. NPROC /\ Len(q) >= 1 /\ NPROC >= 1
      BY <1>1, MlfqAssumption DEF Slot
    <2>2. \A n \in Nat : n >= 1 => IsFiniteSet(1 .. n) /\ Cardinality(1 .. n) = n
      <3>1. \A n \in Nat : n >= 1 => 1 \in Int /\ n \in Int /\ ~ (1 > n) /\ n - 1 + 1 = n
        OBVIOUS
      <3>2. QED
        BY <3>1, FS_Interval
    <2>3. QED
      BY <2>1, <2>2
  <1>3. q \in [1 .. Len(q) -> Slot]
    OBVIOUS
  <1>4. \E i, j \in 1 .. Len(q) : i # j /\ q[i] = q[j]
    BY <1>1, <1>2, <1>3, FS_PigeonHole
  <1>5. QED
    BY <1>4 DEF NoRepeat

\* Taking the entry at k from a queue takes nobody else out of it.
LEMMA TakeOut ==
  ASSUME NEW q \in Seq(Slot), NoRepeat(q), NEW k \in 1 .. Len(q)
  PROVE  LET r == RemoveAt(q, k) IN
         /\ r \in Seq(Slot) /\ NoRepeat(r)
         /\ \A s \in Slot : StandsIn(s, r) <=> StandsIn(s, q) /\ s # q[k]
  <1> DEFINE a == SubSeq(q, 1, k - 1)
             b == SubSeq(q, k + 1, Len(q))
             r == a \o b
             n == Len(q)
  <1>1. /\ a \in Seq(Slot) /\ Len(a) = k - 1 /\ \A i \in 1 .. k - 1 : a[i] = q[i]
        /\ b \in Seq(Slot) /\ Len(b) = n - k /\ \A i \in 1 .. n - k : b[i] = q[k + i]
    <2>1. /\ n \in Int /\ k \in Int /\ 1 <= k /\ k <= n
          /\ \A i \in 1 .. k - 1 : q[i] \in Slot
          /\ \A i \in k + 1 .. n : q[i] \in Slot
      OBVIOUS
    <2>2. /\ a \in Seq(Slot)
          /\ Len(a) = IF 1 <= k - 1 THEN (k - 1) - 1 + 1 ELSE 0
          /\ \A i \in 1 .. (k - 1) - 1 + 1 : a[i] = q[1 + i - 1]
      BY <2>1, SubSeqProperties
    <2>3. /\ b \in Seq(Slot)
          /\ Len(b) = IF k + 1 <= n THEN n - (k + 1) + 1 ELSE 0
          /\ \A i \in 1 .. n - (k + 1) + 1 : b[i] = q[(k + 1) + i - 1]
      BY <2>1, SubSeqProperties
    <2> HIDE DEF a, b
    <2>4. QED
      BY <2>1, <2>2, <2>3
  <1>2. /\ r \in Seq(Slot) /\ Len(r) = n - 1
        /\ \A i \in 1 .. n - 1 : r[i] = IF i < k THEN q[i] ELSE q[i + 1]
    <2>1. /\ r \in Seq(Slot) /\ Len(r) = Len(a) + Len(b)
          /\ \A i \in 1 .. Len(a) + Len(b) : r[i] = IF i <= Len(a) THEN a[i] ELSE b[i - Len(a)]
      <3> HIDE DEF a, b
      <3>1. QED
        BY <1>1, ConcatProperties
    <2>2. n \in Nat /\ k \in 1 .. n
      OBVIOUS
    <2> HIDE DEF a, b, r, n
    <2>3. Len(r) = n - 1
      BY <1>1, <2>1, <2>2
    <2>4. ASSUME NEW i \in 1 .. n - 1
          PROVE  r[i] = IF i < k THEN q[i] ELSE q[i + 1]
      <3>1. CASE i < k
        BY <1>1, <2>1, <2>2, <3>1
      <3>2. CASE ~ (i < k)
        <4>1. i - (k - 1) \in 1 .. n - k /\ k + (i - (k - 1)) = i + 1
          BY <2>2, <3>2
        <4>2. r[i] = b[i - (k - 1)]
          BY <1>1, <2>1, <2>2, <3>2
        <4>3. QED
          BY <1>1, <3>2, <4>1, <4>2
      <3>3. QED
        BY <3>1, <3>2
    <2>5. QED
      BY <2>1, <2>3, <2>4
  <1>3. RemoveAt(q, k) = r
    BY DEF RemoveAt
  <1> HIDE DEF r, a, b
  <1>4. NoRepeat(r)
    <2> DEFINE Was(i) == IF i < k THEN i ELSE i + 1
    <2>1. SUFFICES ASSUME NEW i \in 1 .. n - 1, NEW j \in 1 .. n - 1, r[i] = r[j]
                   PROVE  i = j
      BY <1>2 DEF NoRepeat
    <2>2. /\ Was(i) \in 1 .. n /\ Was(j) \in 1 .. n
          /\ q[Was(i)] = r[i] /\ q[Was(j)] = r[j]
      BY <1>2
    <2>3. Was(i) = Was(j)
      BY <2>1, <2>2 DEF NoRepeat
    <2>4. QED
      BY <2>3
  <1>5. ASSUME NEW s \in Slot
        PROVE  StandsIn(s, r) <=> StandsIn(s, q) /\ s # q[k]
    <2>1. ASSUME NEW i \in 1 .. Len(r), r[i] = s
          PROVE  StandsIn(s, q) /\ s # q[k]
      BY <1>2, <2>1 DEF NoRepeat, StandsIn
    <2>2. ASSUME NEW i \in 1 .. n, q[i] = s, s # q[k]
          PROVE  StandsIn(s, r)
      <3>1. CASE i < k
        BY <1>2, <2>2, <3>1 DEF StandsIn
      <3>2. CASE i > k
        <4>1. i - 1 \in 1 .. Len(r) /\ r[i - 1] = s
          BY <1>2, <2>2, <3>2
        <4>2. QED
          BY <4>1 DEF StandsIn
      <3>3. QED
        BY <2>2, <3>1, <3>2
    <2>3. QED
      BY <2>1, <2>2 DEF StandsIn
  <1>6. QED
    BY <1>2, <1>3, <1>4, <1>5

\* popfront() takes out the first.
LEMMA TakeFirst ==
  ASSUME NEW q \in Seq(Slot), NoRepeat(q), q # <<>>
  PROVE  /\ Head(q) \in Slot /\ StandsIn(Head(q), q)
         /\ Tail(q) \in Seq(Slot) /\ NoRepeat(Tail(q))
         /\ \A s \in Slot : StandsIn(s, Tail(q)) <=> StandsIn(s, q) /\ s # Head(q)
  <1>1. 1 \in 1 .. Len(q) /\ Head(q) = q[1]
    BY EmptySeq
  <1>2. Tail(q) = RemoveAt(q, 1)
    <2>1. SubSeq(q, 1, 0) = <<>> /\ SubSeq(q, 2, Len(q)) = Tail(q)
      BY SubSeqEmpty, TailIsSubSeq
    <2>2. Tail(q) \in Seq(Slot)
      BY <1>1
    <2>3. <<>> \o Tail(q) = Tail(q)
      BY <2>2, ConcatEmptySeq
    <2>4. QED
      BY <2>1, <2>3 DEF RemoveAt
  <1>3. LET r == RemoveAt(q, 1) IN
        /\ r \in Seq(Slot) /\ NoRepeat(r)
        /\ \A s \in Slot : StandsIn(s, r) <=> StandsIn(s, q) /\ s # q[1]
    BY <1>1, TakeOut
  <1>4. Head(q) \in Slot /\ StandsIn(Head(q), q)
    BY <1>1 DEF StandsIn
  <1>5. QED
    BY <1>1, <1>2, <1>3, <1>4

\* delete() takes out s, and only s, if s is there.
LEMMA DeleteTakesOut ==
  ASSUME NEW q \in Seq(Slot), NoRepeat(q), NEW s \in Slot, StandsIn(s, q)
  PROVE  /\ Delete(q, s) \in Seq(Slot) /\ NoRepeat(Delete(q, s))
         /\ \A t \in Slot : StandsIn(t, Delete(q, s)) <=> StandsIn(t, q) /\ t # s
  <1> DEFINE First(i) == q[i] = s /\ \A j \in 1 .. i - 1 : q[j] # s
  <1>1. \E i \in 1 .. Len(q) : First(i)
    <2>1. PICK i \in 1 .. Len(q) : q[i] = s
      BY DEF StandsIn
    <2>2. \A j \in 1 .. i - 1 : q[j] # s
      BY <2>1 DEF NoRepeat
    <2>3. QED
      BY <2>1, <2>2
  <1> DEFINE k == CHOOSE i \in 1 .. Len(q) : First(i)
  <1>2. k \in 1 .. Len(q) /\ q[k] = s
    BY <1>1
  <1>3. Delete(q, s) = RemoveAt(q, k)
    BY DEF Delete, StandsIn
  <1> HIDE DEF k
  <1>4. QED
    BY <1>2, <1>3, TakeOut

\* pushback() of one that is not there.
LEMMA PushBack ==
  ASSUME NEW q \in Seq(Slot), NoRepeat(q), NEW s \in Slot, ~ StandsIn(s, q)
  PROVE  /\ Append(q, s) \in Seq(Slot) /\ NoRepeat(Append(q, s))
         /\ \A t \in Slot : StandsIn(t, Append(q, s)) <=> StandsIn(t, q) \/ t = s
  <1> DEFINE r == Append(q, s)
  <1>1. /\ r \in Seq(Slot) /\ Len(r) = Len(q) + 1 /\ r[Len(q) + 1] = s
        /\ \A i \in 1 .. Len(q) : r[i] = q[i]
    BY AppendProperties
  <1> HIDE DEF r
  <1>2. NoRepeat(r)
    BY <1>1 DEF NoRepeat, StandsIn
  <1>3. ASSUME NEW t \in Slot
        PROVE  StandsIn(t, r) <=> StandsIn(t, q) \/ t = s
    <2>1. Len(q) + 1 \in 1 .. Len(r) /\ 1 .. Len(q) \subseteq 1 .. Len(r)
      BY <1>1
    <2>2. QED
      BY <1>1, <2>1 DEF StandsIn
  <1>4. QED
    BY <1>1, <1>2, <1>3 DEF r

-----------------------------------------------------------------------------
\* A step that leaves the queues and those who stand in them alone.
LEMMA QueuesKept ==
  ASSUME QueueInv, UNCHANGED <<mlfq, in_queue>>,
         \A s \in Slot : in_queue[s] => level'[s] = level[s] /\ state'[s] = state[s]
  PROVE  QueueInv'
  BY DEF QueueInv

\* s leaves the queue of its level; its level may change then.
LEMMA QueueLeft ==
  ASSUME Typed, QueueInv, NEW s \in Slot, NEW q \in Seq(Slot),
         mlfq' = [mlfq EXCEPT ![level[s]] = q],
         in_queue' = [in_queue EXCEPT ![s] = FALSE],
         UNCHANGED state, \A t \in Slot \ {s} : level'[t] = level[t],
         NoRepeat(q), \A t \in Slot : StandsIn(t, q) <=> StandsIn(t, mlfq[level[s]]) /\ t # s
  PROVE  QueueInv'
  <1>1. level[s] \in Level /\ mlfq \in [Level -> Seq(Slot)] /\ in_queue \in [Slot -> BOOLEAN]
    BY DEF Typed
  <1>2. \A l \in Level : mlfq'[l] = IF l = level[s] THEN q ELSE mlfq[l]
    BY <1>1
  <1>3. \A l \in Level : NoRepeat(mlfq'[l])
    BY <1>2 DEF QueueInv
  <1>4. ASSUME NEW l \in Level, NEW t \in Slot
        PROVE  StandsIn(t, mlfq'[l]) <=> in_queue'[t] /\ level'[t] = l
    BY <1>1, <1>2 DEF QueueInv
  <1>5. \A t \in Slot : in_queue'[t] => state'[t] = "RUNNABLE"
    BY <1>1 DEF QueueInv
  <1>6. QED
    BY <1>3, <1>4, <1>5 DEF QueueInv

\* s joins the queue of its level.
LEMMA QueueJoined ==
  ASSUME Typed, QueueInv, NEW s \in Slot, NEW q \in Seq(Slot),
         mlfq' = [mlfq EXCEPT ![level[s]] = q],
         in_queue' = [in_queue EXCEPT ![s] = TRUE],
         UNCHANGED <<state, level>>, ~ in_queue[s], state[s] = "RUNNABLE",
         NoRepeat(q), \A t \in Slot : StandsIn(t, q) <=> StandsIn(t, mlfq[level[s]]) \/ t = s
  PROVE  QueueInv'
  <1>1. level[s] \in Level /\ mlfq \in [Level -> Seq(Slot)] /\ in_queue \in [Slot -> BOOLEAN]
    BY DEF Typed
  <1>2. \A l \in Level : mlfq'[l] = IF l = level[s] THEN q ELSE mlfq[l]
    BY <1>1
  <1>3. \A l \in Level : NoRepeat(mlfq'[l])
    BY <1>2 DEF QueueInv
  <1>4. ASSUME NEW l \in Level, NEW t \in Slot
        PROVE  StandsIn(t, mlfq'[l]) <=> in_queue'[t] /\ level'[t] = l
    BY <1>1, <1>2 DEF QueueInv
  <1>5. \A t \in Slot : in_queue'[t] => state'[t] = "RUNNABLE"
    BY <1>1 DEF QueueInv
  <1>6. QED
    BY <1>3, <1>4, <1>5 DEF QueueInv

-----------------------------------------------------------------------------
\* The ranges of the loop variable of scheduler(), of the levels and of the counters.
LEMMA Ranges ==
  /\ 1 \in Slot /\ 1 \in 1 .. NPROC + 1 /\ Slot \subseteq 1 .. NPROC + 1
  /\ \A n \in 1 .. NPROC + 1 : n <= NPROC => n \in Slot
  /\ \A s \in Slot : s + 1 \in 1 .. NPROC + 1
  /\ 0 \in Level /\ 0 \in 0 .. AGETICK
  /\ \A l \in Level : /\ TICKS[l] \in Nat
                       /\ (IF l = 0 THEN 0 ELSE l - 1) \in Level
                       /\ (IF l + 1 # NMLFQ THEN l + 1 ELSE l) \in Level
  BY MlfqAssumption DEF Slot, Level

\* Aging takes a process out of its queue before it changes its level.
LEMMA AgeSlotInv ==
  ASSUME IInv, AgeSlot
  PROVE  IInv'
  <1>1. /\ p \in Slot /\ pc = "age" /\ pc' = "enqueue" /\ p' = p /\ UNCHANGED <<state, change_queue>>
        /\ Typed /\ QueueInv
    <2>1. p \in Slot
      BY Ranges DEF AgeSlot, IInv, Typed
    <2>2. QED
      BY <2>1 DEF AgeSlot, IInv
  <1>2. CpuInv'
    BY <1>1 DEF CpuInv
  <1>3. CASE UNCHANGED <<mlfq, in_queue, level, age>>
    <2>1. Typed'
      BY <1>1, <1>3 DEF Typed
    <2>2. QED
      BY <1>1, <1>2, <1>3, <2>1, QueuesKept DEF IInv
  <1>4. CASE /\ mlfq' = IF in_queue[p] THEN [mlfq EXCEPT ![level[p]] = Delete(@, p)] ELSE mlfq
             /\ in_queue' = [in_queue EXCEPT ![p] = FALSE]
             /\ level' = [level EXCEPT ![p] = IF @ = 0 THEN 0 ELSE @ - 1]
             /\ age' = [age EXCEPT ![p] = 0]
    <2>1. level' \in [Slot -> Level] /\ level[p] \in Level
          /\ age' \in [Slot -> 0 .. AGETICK] /\ in_queue' \in [Slot -> BOOLEAN]
      <3>1. /\ level \in [Slot -> Level] /\ age \in [Slot -> 0 .. AGETICK]
            /\ in_queue \in [Slot -> BOOLEAN] /\ level[p] \in Level
        BY <1>1 DEF Typed
      <3>2. (IF level[p] = 0 THEN 0 ELSE level[p] - 1) \in Level
        BY <3>1, Ranges
      <3>3. level' \in [Slot -> Level]
        BY <1>4, <3>1, <3>2
      <3>4. age' \in [Slot -> 0 .. AGETICK] /\ in_queue' \in [Slot -> BOOLEAN]
        BY <1>4, <3>1, Ranges
      <3>5. QED
        BY <3>1, <3>3, <3>4
    <2>2. CASE in_queue[p]
      <3> DEFINE q == Delete(mlfq[level[p]], p)
      <3>1. /\ q \in Seq(Slot) /\ NoRepeat(q)
            /\ \A t \in Slot : StandsIn(t, q) <=> StandsIn(t, mlfq[level[p]]) /\ t # p
        <4>1. /\ mlfq[level[p]] \in Seq(Slot) /\ NoRepeat(mlfq[level[p]])
              /\ StandsIn(p, mlfq[level[p]])
          BY <1>1, <2>1, <2>2 DEF QueueInv, Typed
        <4>2. QED
          BY <1>1, <4>1, DeleteTakesOut
      <3>2. mlfq' = [mlfq EXCEPT ![level[p]] = q]
        BY <1>4, <2>2
      <3> HIDE DEF q
      <3>3. Typed'
        BY <1>1, <2>1, <3>1, <3>2 DEF Typed
      <3>4. \A t \in Slot \ {p} : level'[t] = level[t]
        BY <1>1, <1>4 DEF Typed
      <3>5. QueueInv'
        BY <1>1, <1>4, <3>1, <3>2, <3>4, QueueLeft
      <3>6. QED
        BY <1>2, <3>3, <3>5 DEF IInv
    <2>3. CASE ~ in_queue[p]
      <3>1. UNCHANGED <<mlfq, in_queue>>
        BY <1>1, <1>4, <2>3 DEF Typed
      <3>2. \A s \in Slot : in_queue[s] => level'[s] = level[s]
        BY <1>1, <1>4, <2>3 DEF Typed
      <3>3. Typed'
        BY <1>1, <2>1, <3>1 DEF Typed
      <3>4. QED
        BY <1>1, <1>2, <3>1, <3>2, <3>3, QueuesKept DEF IInv
    <2>4. QED
      BY <2>2, <2>3
  <1>5. QED
    BY <1>3, <1>4 DEF AgeSlot

\* A runnable process that is in no queue joins the one of its level.
LEMMA EnqueueInv ==
  ASSUME IInv, Enqueue
  PROVE  IInv'
  <1>1. /\ p \in Slot /\ pc' = "age" /\ p' = p + 1 /\ p' \in 1 .. NPROC + 1
        /\ UNCHANGED <<state, level, change_queue, age>>
        /\ Typed /\ QueueInv /\ level[p] \in Level
    <2>1. p \in Slot /\ level[p] \in Level
      BY DEF Enqueue, IInv, CpuInv, Typed
    <2>2. p + 1 \in 1 .. NPROC + 1
      BY <2>1, Ranges
    <2>3. QED
      BY <2>1, <2>2 DEF Enqueue, IInv
  <1>2. CpuInv'
    BY <1>1 DEF CpuInv
  <1>3. CASE UNCHANGED <<mlfq, in_queue>>
    <2>1. Typed'
      BY <1>1, <1>3 DEF Typed
    <2>2. QED
      BY <1>1, <1>2, <1>3, <2>1, QueuesKept DEF IInv
  <1>4. CASE /\ state[p] = "RUNNABLE" /\ ~ in_queue[p]
             /\ mlfq' = [mlfq EXCEPT ![level[p]] = Append(@, p)]
             /\ in_queue' = [in_queue EXCEPT ![p] = TRUE]
    <2> DEFINE q == Append(mlfq[level[p]], p)
    <2>1. /\ q \in Seq(Slot) /\ NoRepeat(q)
          /\ \A t \in Slot : StandsIn(t, q) <=> StandsIn(t, mlfq[level[p]]) \/ t = p
      <3>1. /\ mlfq[level[p]] \in Seq(Slot) /\ NoRepeat(mlfq[level[p]])
            /\ ~ StandsIn(p, mlfq[level[p]])
        BY <1>1, <1>4 DEF QueueInv, Typed
      <3>2. QED
        BY <1>1, <3>1, PushBack
    <2>2. mlfq' = [mlfq EXCEPT ![level[p]] = q]
      BY <1>4
    <2> HIDE DEF q
    <2>3. Typed'
      BY <1>1, <1>4, <2>1, <2>2 DEF Typed
    <2>4. QueueInv'
      BY <1>1, <1>4, <2>1, <2>2, QueueJoined
    <2>5. QED
      BY <1>2, <2>3, <2>4 DEF IInv
  <1>5. QED
    BY <1>3, <1>4 DEF Enqueue

\* The front of a queue is of that queue's level, so that it is taken from there.
LEMMA PickInv ==
  ASSUME IInv, Pick
  PROVE  IInv'
  <1>1. PICK l \in Level :
          /\ mlfq[l] # <<>>
          /\ LET s == Head(mlfq[l]) IN
               /\ mlfq' = [mlfq EXCEPT ![level[s]] = Tail(@)]
               /\ in_queue' = [in_queue EXCEPT ![s] = FALSE]
               /\ IF state[s] = "RUNNABLE"
                  THEN pc' = "dispatch" /\ p' = s /\ age' = [age EXCEPT ![s] = 0]
                  ELSE UNCHANGED <<pc, p, age>>
    BY DEF Pick
  <1> DEFINE s == Head(mlfq[l])
             q == Tail(mlfq[l])
  <1>2. Typed /\ QueueInv /\ mlfq[l] \in Seq(Slot) /\ NoRepeat(mlfq[l])
        /\ pc = "age" /\ UNCHANGED <<state, level, change_queue>>
    BY DEF IInv, Typed, QueueInv, Pick
  <1>3. /\ s \in Slot /\ StandsIn(s, mlfq[l])
        /\ q \in Seq(Slot) /\ NoRepeat(q)
        /\ \A t \in Slot : StandsIn(t, q) <=> StandsIn(t, mlfq[l]) /\ t # s
    BY <1>1, <1>2, TakeFirst
  <1>4. level[s] = l /\ state[s] = "RUNNABLE"
    BY <1>2, <1>3 DEF QueueInv
  <1>5. /\ mlfq' = [mlfq EXCEPT ![level[s]] = q] /\ in_queue' = [in_queue EXCEPT ![s] = FALSE]
        /\ pc' = "dispatch" /\ p' = s /\ age' = [age EXCEPT ![s] = 0]
    BY <1>1, <1>4
  <1> HIDE DEF s, q
  <1>6. QueueInv'
    BY <1>2, <1>3, <1>4, <1>5, QueueLeft
  <1>7. Typed' /\ CpuInv'
    <2>1. Typed'
      BY <1>2, <1>3, <1>5, MlfqAssumption, SMTT(30) DEF Typed, Slot
    <2>2. CpuInv'
      BY <1>2, <1>3, <1>4, <1>5 DEF CpuInv, Typed
    <2>3. QED
      BY <2>1, <2>2
  <1>8. QED
    BY <1>6, <1>7 DEF IInv

\* The steps that leave all queues alone: they change nobody who stands in one.
LEMMA OtherInv ==
  ASSUME IInv,
         \/ PickNone \/ Dispatch \/ SchedTick \/ (\E s \in Slot : Wakeup(s))
         \/ ToUser \/ ToKernel \/ Fork \/ Reap \/ UserTick \/ GiveUp
  PROVE  IInv'
  <1>1. Typed /\ QueueInv /\ CpuInv
    BY DEF IInv
  <1>2. CASE PickNone
    <2>1. Typed' /\ CpuInv' /\ UNCHANGED <<mlfq, in_queue, level, state>>
      BY <1>1, <1>2, Ranges DEF PickNone, fields, Typed, CpuInv
    <2>2. QED
      BY <1>1, <2>1, QueuesKept DEF IInv
  <1>3. CASE Dispatch
    <2>1. p \in Slot /\ level[p] \in Level /\ TICKS[level[p]] \in Nat
      BY <1>1, <1>3, Ranges DEF Dispatch, CpuInv, Typed
    <2>2. Typed' /\ CpuInv' /\ UNCHANGED <<mlfq, in_queue, level>>
      BY <1>1, <1>3, <2>1, Ranges DEF Dispatch, Typed, CpuInv
    <2>3. \A s \in Slot : in_queue[s] => state'[s] = state[s]
      BY <1>1, <1>3 DEF Dispatch, Typed, CpuInv
    <2>4. QED
      BY <1>1, <2>2, <2>3, QueuesKept DEF IInv
  <1>4. ASSUME ClockIntr
        PROVE  age' \in [Slot -> 0 .. AGETICK]
    <2>1. \A s \in Slot : age[s] \in 0 .. AGETICK
      BY <1>1 DEF Typed
    <2>2. \A n \in 0 .. AGETICK : (IF n < AGETICK THEN n + 1 ELSE AGETICK) \in 0 .. AGETICK
      BY MlfqAssumption
    <2>3. age' \in [Slot -> 0 .. AGETICK]
      BY <1>4, <2>1, <2>2 DEF ClockIntr
    <2>4. QED
      BY <2>3
  <1>5. CASE SchedTick
    <2>1. Typed' /\ CpuInv' /\ UNCHANGED <<mlfq, in_queue, level, state>>
      BY <1>1, <1>4, <1>5 DEF SchedTick, fields, Typed, CpuInv
    <2>2. QED
      BY <1>1, <2>1, QueuesKept DEF IInv
  <1>6. CASE ToUser \/ ToKernel
    <2>1. Typed' /\ CpuInv' /\ UNCHANGED <<mlfq, in_queue, level, state>>
      BY <1>1, <1>6 DEF ToUser, ToKernel, fields, Typed, CpuInv
    <2>2. QED
      BY <1>1, <2>1, QueuesKept DEF IInv
  <1>7. CASE GiveUp
    <2>1. /\ p \in Slot /\ state[p] = "RUNNING" /\ ~ in_queue[p]
      BY <1>1, <1>7 DEF GiveUp, KernelTick, Sleep, Exit, CpuInv, QueueInv
    <2>2. /\ UNCHANGED <<level, in_queue, change_queue, mlfq>> /\ pc' = "age" /\ p' = 1
          /\ \E t \in {"RUNNABLE", "SLEEPING", "ZOMBIE"} : state' = [state EXCEPT ![p] = t]
          /\ age' \in [Slot -> 0 .. AGETICK]
      <3>1. CASE KernelTick
        BY <1>4, <3>1 DEF KernelTick, Switch
      <3>2. CASE Sleep \/ Exit
        BY <1>1, <3>2 DEF Sleep, Exit, Switch, Typed
      <3>3. QED
        BY <1>7, <3>1, <3>2 DEF GiveUp
    <2>3. Typed' /\ CpuInv'
      BY <1>1, <2>1, <2>2, Ranges DEF Typed, CpuInv
    <2>4. \A s \in Slot : in_queue[s] => state'[s] = state[s]
      BY <1>1, <2>1, <2>2 DEF Typed
    <2>5. QED
      BY <1>1, <2>2, <2>3, <2>4, QueuesKept DEF IInv
  <1>8. CASE UserTick
    <2>1. /\ p \in Slot /\ state[p] = "RUNNING" /\ ~ in_queue[p]
      BY <1>1, <1>8 DEF UserTick, CpuInv, QueueInv
    <2>2. /\ UNCHANGED <<in_queue, change_queue, mlfq>>
          /\ age' \in [Slot -> 0 .. AGETICK]
          /\ \/ UNCHANGED <<level, state, pc, p>>
             \/ /\ level' = [level EXCEPT ![p] = IF @ + 1 # NMLFQ THEN @ + 1 ELSE @]
                /\ state' = [state EXCEPT ![p] = "RUNNABLE"] /\ pc' = "age" /\ p' = 1
      BY <1>4, <1>8 DEF UserTick, Switch
    <2>3. Typed' /\ CpuInv'
      <3>1. level' \in [Slot -> Level]
        <4>1. level \in [Slot -> Level] /\ level[p] \in Level
          BY <1>1, <2>1 DEF Typed
        <4>2. (IF level[p] + 1 # NMLFQ THEN level[p] + 1 ELSE level[p]) \in Level
          BY <4>1, Ranges
        <4>3. QED
          BY <2>2, <4>1, <4>2
      <3>2. QED
        BY <1>1, <2>1, <2>2, <3>1, Ranges DEF Typed, CpuInv
    <2>4. \A s \in Slot : in_queue[s] => state'[s] = state[s] /\ level'[s] = level[s]
      BY <1>1, <2>1, <2>2 DEF Typed
    <2>5. QED
      BY <1>1, <2>2, <2>3, <2>4, QueuesKept DEF IInv
  <1>9. ASSUME NEW s \in Slot, Wakeup(s)
        PROVE  IInv'
    <2>1. ~ in_queue[s] /\ (pc # "age" /\ pc # "enqueue" => s # p)
      BY <1>1, <1>9 DEF Wakeup, QueueInv, CpuInv, Typed
    <2>2. Typed' /\ CpuInv' /\ UNCHANGED <<mlfq, in_queue, level>>
      BY <1>1, <1>9, <2>1 DEF Wakeup, Typed, CpuInv
    <2>3. \A t \in Slot : in_queue[t] => state'[t] = state[t]
      BY <1>1, <1>9, <2>1 DEF Wakeup, Typed
    <2>4. QED
      BY <1>1, <2>2, <2>3, QueuesKept DEF IInv
  <1>10. CASE Fork
    <2>1. PICK s \in Slot : state[s] = "UNUSED" /\ Born(s)
      BY <1>10 DEF Fork
    <2>2. /\ pc = "kernel" /\ UNCHANGED <<mlfq, pc, p>>
          /\ p \in Slot /\ s # p /\ ~ in_queue[s] /\ 0 \in Level /\ TICKS[0] \in Nat
      BY <1>1, <1>10, <2>1, Ranges DEF Fork, QueueInv, CpuInv
    <2>3. in_queue' = in_queue
      BY <1>1, <2>1, <2>2 DEF Born, Typed
    <2>4. Typed' /\ CpuInv'
      BY <1>1, <2>1, <2>2, <2>3, Ranges DEF Born, Typed, CpuInv
    <2>5. \A t \in Slot : in_queue[t] => state'[t] = state[t] /\ level'[t] = level[t]
      BY <1>1, <2>1, <2>2 DEF Born, Typed
    <2>6. QED
      BY <1>1, <2>2, <2>3, <2>4, <2>5, QueuesKept DEF IInv
  <1>11. CASE Reap
    <2>1. PICK s \in Slot : state[s] = "ZOMBIE" /\ state' = [state EXCEPT ![s] = "UNUSED"]
      BY <1>11 DEF Reap
    <2>2. /\ pc = "kernel" /\ UNCHANGED <<level, in_queue, change_queue, age, mlfq, pc, p>>
          /\ p \in Slot /\ s # p /\ ~ in_queue[s]
      BY <1>1, <1>11, <2>1 DEF Reap, QueueInv, CpuInv
    <2>3. Typed' /\ CpuInv'
      BY <1>1, <2>1, <2>2 DEF Typed, CpuInv
    <2>4. \A t \in Slot : in_queue[t] => state'[t] = state[t]
      BY <1>1, <2>1, <2>2 DEF Typed
    <2>5. QED
      BY <1>1, <2>2, <2>3, <2>4, QueuesKept DEF IInv
  <1>12. QED
    BY <1>2, <1>3, <1>5, <1>6, <1>7, <1>8, <1>9, <1>10, <1>11

\* After userinit() all queues are empty.
LEMMA InitInv == Init => IInv
  <1> SUFFICES ASSUME Init PROVE IInv
    OBVIOUS
  <1>1. Typed /\ CpuInv
    BY MlfqAssumption DEF Init, Typed, CpuInv, Slot, Level
  <1>2. \A l \in Level : mlfq[l] = <<>>
    BY DEF Init
  <1>3. QueueInv
    BY <1>2 DEF Init, QueueInv, NoRepeat, StandsIn
  <1>4. QED
    BY <1>1, <1>3 DEF IInv

\* Every step keeps the invariant.
LEMMA NextInv == IInv /\ [Next]_vars => IInv'
  <1> SUFFICES ASSUME IInv, [Next]_vars PROVE IInv'
    OBVIOUS
  <1>1. CASE UNCHANGED vars
    BY <1>1 DEF vars, fields, IInv, Typed, QueueInv, CpuInv
  <1>2. CASE Next
    BY <1>2, AgeSlotInv, EnqueueInv, PickInv, OtherInv DEF Next, Scheduler, Running
  <1>3. QED
    BY <1>1, <1>2

\* QueueInv and CpuInv hold in every reachable state of the MLFQ scheduler.
THEOREM Invariance == Spec => []IInv
  BY InitInv, NextInv, PTL DEF Spec

\* Where s stands, when its in_queue is set: once, in the queue of its level.
LEMMA OnePlace ==
  ASSUME IInv, NEW s \in Slot, in_queue[s]
  PROVE  \E i \in Slot : Positions(s) = {<<level[s], i>>}
  <1>1. /\ level[s] \in Level /\ mlfq[level[s]] \in Seq(Slot)
        /\ NoRepeat(mlfq[level[s]]) /\ StandsIn(s, mlfq[level[s]])
    BY DEF IInv, Typed, QueueInv
  <1>2. PICK i \in 1 .. Len(mlfq[level[s]]) : mlfq[level[s]][i] = s
    BY <1>1 DEF StandsIn
  <1>3. i \in Slot
    BY <1>1, NoOverflow, MlfqAssumption DEF Slot
  <1>4. <<level[s], i>> \in Positions(s)
    BY <1>1, <1>2, <1>3 DEF Positions
  <1>5. ASSUME NEW at \in Positions(s)
        PROVE  at = <<level[s], i>>
    <2>1. PICK l \in Level, j \in Slot : at = <<l, j>> /\ j <= Len(mlfq[l]) /\ mlfq[l][j] = s
      BY DEF Positions
    <2>2. mlfq[l] \in Seq(Slot) /\ j \in 1 .. Len(mlfq[l])
      BY <2>1 DEF IInv, Typed, Slot
    <2>3. l = level[s]
      BY <2>1, <2>2 DEF IInv, QueueInv, StandsIn
    <2>4. j = i
      BY <1>1, <1>2, <2>1, <2>2, <2>3 DEF NoRepeat
    <2>5. QED
      BY <2>1, <2>3, <2>4
  <1>6. QED
    BY <1>3, <1>4, <1>5

\* A process that is queued stands once, in the queue of its level, and is runnable; any
\* other stands in none; and no queue overflows.
THEOREM QueuesStayConsistent == Spec => []QueuesConsistent
  <1>1. ASSUME IInv PROVE QueuesConsistent
    <2>1. TypeOK
      <3>1. \A l \in Level : mlfq[l] \in Seq(Slot) /\ Len(mlfq[l]) <= NPROC
        BY <1>1, NoOverflow DEF IInv, Typed, QueueInv
      <3>2. QED
        BY <1>1, <3>1 DEF IInv, Typed, TypeOK
    <2>2. ASSUME NEW s \in Slot, ~ in_queue[s]
          PROVE  Positions(s) = {}
      <3>1. SUFFICES ASSUME NEW l \in Level, NEW j \in Slot, j <= Len(mlfq[l]), mlfq[l][j] = s
                     PROVE  FALSE
        BY DEF Positions
      <3>2. j \in 1 .. Len(mlfq[l])
        BY <1>1, <3>1 DEF IInv, Typed, Slot
      <3>3. QED
        BY <1>1, <2>2, <3>1, <3>2 DEF IInv, QueueInv, StandsIn
    <2>3. QED
      BY <1>1, <2>1, <2>2, OnePlace DEF QueuesConsistent, IInv, QueueInv
  <1>2. QED
    BY <1>1, Invariance, PTL
=============================================================================
