----------------------------- MODULE VirtioDisk -----------------------------
(***************************************************************************)
(* The virtio disk driver, its rings, the device and the interrupt.        *)
(* Source: kernel/virtio_disk.c, kernel/virtio.h.                          *)
(*                                                                         *)
(* disk.vdisk_lock protects the driver's side; the device does not take    *)
(* it and may act at any time.  virtio_disk_rw() is three stretches under  *)
(* the lock: up to the publication of the request (cut where the device    *)
(* can see a difference), the sleep, and what follows the completion.      *)
(***************************************************************************)
EXTENDS Integers, FiniteSets

CONSTANTS Proc,
          NoOne,     \* nobody: no lock holder, no buffer
          NUM,       \* descriptors, and entries of each ring
          IDX,       \* the ring indices are 16 bits wide: they wrap around at IDX
          Block, Value,
          Victims    \* who may be killed

ASSUME DiskAssumption == /\ NUM \in Nat /\ NUM >= 3
                         /\ IDX \in Nat /\ IDX >= NUM /\ IDX % NUM = 0
                         /\ {NoOne, "intr"} \cap Proc = {} /\ NoOne # "intr"
                         /\ Victims \subseteq Proc /\ Block # {}

Desc  == 0 .. NUM - 1
NoDesc == -1

VARIABLES
  free,      \* disk.free: the free descriptors
  desc,      \* disk.desc: of each descriptor its next and what it points to
  ops,       \* disk.ops: the header of each request
  info,      \* disk.info: buffer and status of each request
  avail, avail_idx, used, dev_used_idx,
             \* the two rings, with the idx of each.  Their readers leave NoDesc in a
             \* slot: a second read of it would show (in memory the number stays).
  used_idx,  \* disk.used_idx
  lock,      \* who has disk.vdisk_lock: a process, "intr" or nobody
  bdisk,     \* b->disk of each process's buffer
  buf,       \* b->data
  thr,       \* of each process: where it stands, its request and its idx[0]
  \* the device
  last_avail, taken, irq, disk

driver == <<free, desc, ops, avail, avail_idx>>
device == <<used, dev_used_idx, last_avail, taken, disk>>
vars   == <<driver, device, info, used_idx, lock, bdisk, buf, thr, irq>>

Idle  == [pc |-> "idle", write |-> FALSE, blk |-> CHOOSE k \in Block : TRUE, head |-> NoDesc]
Unset == [next |-> NoDesc, addr |-> NoOne]

Init ==
  /\ free = Desc
  /\ desc = [i \in Desc |-> Unset]
  /\ ops = [i \in Desc |-> [write |-> FALSE, blk |-> CHOOSE k \in Block : TRUE]]
  /\ info = [i \in Desc |-> [b |-> NoOne, status |-> "none"]]
  /\ avail = [i \in Desc |-> NoDesc] /\ avail_idx = 0
  /\ used = [i \in Desc |-> NoDesc] /\ dev_used_idx = 0 /\ used_idx = 0
  /\ lock = NoOne
  /\ bdisk = [p \in Proc |-> FALSE]
  /\ disk \in [Block -> Value]
  /\ buf \in [Proc -> Value]
  /\ thr = [p \in Proc |-> Idle]
  /\ last_avail = 0 /\ taken = {} /\ irq = FALSE

At(p, l) == thr[p].pc = l
Moved(p, l) == [thr EXCEPT ![p].pc = l]

\* wakeup(&disk.free[0]), with the threads at t.
Retry(t) == [q \in Proc |-> IF t[q].pc = "no_desc" THEN [t[q] EXCEPT !.pc = "alloc"] ELSE t[q]]

-----------------------------------------------------------------------------
\* virtio_disk_rw() is called.
Rw(p) ==
  /\ At(p, "idle")
  /\ \E w \in BOOLEAN, k \in Block, v \in Value :
       /\ thr' = [thr EXCEPT ![p] = [pc |-> "alloc", write |-> w, blk |-> k, head |-> NoDesc]]
       /\ w \/ v = buf[p]
       /\ buf' = [buf EXCEPT ![p] = v]
  /\ UNCHANGED <<driver, device, info, used_idx, lock, bdisk, irq>>

\* alloc_desc() takes the first that is free; here three times.
FirstThree(i, j, k) == /\ i < j /\ j < k
                       /\ \A m \in free : m < k => m \in {i, j}

\* Mutant: two descriptors left would do, and one is shared.
SubmitTwo(p) ==
  /\ At(p, "alloc") /\ lock = NoOne
  /\ lock' = p
  /\ \E i, j \in free :
       /\ i < j /\ \A m \in free : m < j => m = i
       /\ free' = free \ {i, j}
       /\ desc' = [desc EXCEPT ![i] = [next |-> j, addr |-> i],
                               ![j] = [next |-> NUM - 1, addr |-> p],
                               ![NUM - 1] = [next |-> NoDesc, addr |-> i]]
       /\ ops' = [ops EXCEPT ![i] = [write |-> thr[p].write, blk |-> thr[p].blk]]
       /\ info' = [info EXCEPT ![i] = [b |-> p, status |-> "busy"]]
       /\ avail' = [avail EXCEPT ![avail_idx % NUM] = i]
       /\ thr' = [thr EXCEPT ![p].pc = "publish", ![p].head = i]
  /\ bdisk' = [bdisk EXCEPT ![p] = TRUE]
  /\ UNCHANGED <<device, avail_idx, used_idx, buf, irq>>

\* Three descriptors are set up and their first is put in the avail ring.
Submit(p) ==
  /\ At(p, "alloc") /\ lock = NoOne
  /\ lock' = p
  /\ \E i, j, k \in free :
       /\ FirstThree(i, j, k)
       /\ free' = free \ {i, j, k}
       /\ desc' = [desc EXCEPT ![i] = [next |-> j, addr |-> i],
                               ![j] = [next |-> k, addr |-> p],
                               ![k] = [next |-> NoDesc, addr |-> i]]
       /\ ops' = [ops EXCEPT ![i] = [write |-> thr[p].write, blk |-> thr[p].blk]]
       /\ info' = [info EXCEPT ![i] = [b |-> p, status |-> "busy"]]
       /\ avail' = [avail EXCEPT ![avail_idx % NUM] = i]
       /\ thr' = [thr EXCEPT ![p].pc = "publish", ![p].head = i]
  /\ bdisk' = [bdisk EXCEPT ![p] = TRUE]
  /\ UNCHANGED <<device, avail_idx, used_idx, buf, irq>>

\* Too few: those that were taken are freed again, which wakes all who wait, and p sleeps.
NoDescriptors(p) ==
  /\ At(p, "alloc") /\ lock = NoOne
  /\ Cardinality(free) < 3
  /\ thr' = [(IF free = {} THEN thr ELSE Retry(thr)) EXCEPT ![p].pc = "no_desc"]
  /\ UNCHANGED <<driver, device, info, used_idx, lock, bdisk, buf, irq>>

\* avail->idx is incremented; p sleeps until b->disk is 0.
Publish(p) ==
  /\ At(p, "publish")
  /\ avail_idx' = (avail_idx + 1) % IDX
  /\ lock' = NoOne
  /\ thr' = Moved(p, "sleep")
  /\ UNCHANGED <<free, desc, ops, avail, device, info, used_idx, bdisk, buf, irq>>

Chain(h) == {h, desc[h].next, desc[desc[h].next].next}

\* Mutant: awake is taken to mean done.
FinishAwake(p) ==
  /\ At(p, "woken") /\ lock = NoOne
  /\ info' = [info EXCEPT ![thr[p].head].b = NoOne]
  /\ free' = free \cup Chain(thr[p].head)
  /\ desc' = [i \in Desc |-> IF i \in Chain(thr[p].head) THEN Unset ELSE desc[i]]
  /\ thr' = Retry([thr EXCEPT ![p] = Idle])
  /\ UNCHANGED <<ops, avail, avail_idx, device, used_idx, lock, bdisk, buf, irq>>

\* Mutant: the buffer is forgotten before it is done.
FinishForgets(p) ==
  /\ At(p, "woken") /\ lock = NoOne
  /\ info' = [info EXCEPT ![thr[p].head].b = NoOne]
  /\ IF bdisk[p]
     THEN /\ thr' = Moved(p, "sleep")
          /\ UNCHANGED <<free, desc>>
     ELSE /\ free' = free \cup Chain(thr[p].head)
          /\ desc' = [i \in Desc |-> IF i \in Chain(thr[p].head) THEN Unset ELSE desc[i]]
          /\ thr' = Retry([thr EXCEPT ![p] = Idle])
  /\ UNCHANGED <<ops, avail, avail_idx, device, used_idx, lock, bdisk, buf, irq>>

\* The request is done: free_chain(), which wakes all who wait for descriptors.
Finish(p) ==
  /\ At(p, "woken") /\ lock = NoOne
  /\ IF bdisk[p]
     THEN /\ thr' = Moved(p, "sleep")
          /\ UNCHANGED <<free, desc, info>>
     ELSE /\ info' = [info EXCEPT ![thr[p].head].b = NoOne]
          /\ free' = free \cup Chain(thr[p].head)
          /\ desc' = [i \in Desc |-> IF i \in Chain(thr[p].head) THEN Unset ELSE desc[i]]
          /\ thr' = Retry([thr EXCEPT ![p] = Idle])
  /\ UNCHANGED <<ops, avail, avail_idx, device, used_idx, lock, bdisk, buf, irq>>

\* kill() wakes whoever sleeps, for whatever reason.
Kill(p) ==
  /\ p \in Victims
  /\ \/ At(p, "sleep") /\ thr' = Moved(p, "woken")
     \/ At(p, "no_desc") /\ thr' = Moved(p, "alloc")
  /\ UNCHANGED <<driver, device, info, used_idx, lock, bdisk, buf, irq>>

-----------------------------------------------------------------------------
\* The device takes the next request from the avail ring ...
DevTake ==
  /\ last_avail # avail_idx
  /\ taken' = taken \cup {avail[last_avail % NUM]}
  /\ avail' = [avail EXCEPT ![last_avail % NUM] = NoDesc]
  /\ last_avail' = (last_avail + 1) % IDX
  /\ UNCHANGED <<free, desc, ops, avail_idx, used, dev_used_idx, disk, info, used_idx, lock, bdisk, buf, thr, irq>>

\* ... carries out any of those it has, as its descriptors say, and interrupts.
DevComplete ==
  \E h \in taken :
    LET data   == desc[h].next
        b      == desc[data].addr
        status == desc[desc[data].next].addr
    IN
    /\ IF ops[h].write
       THEN disk' = [disk EXCEPT ![ops[h].blk] = buf[b]] /\ UNCHANGED buf
       ELSE buf' = [buf EXCEPT ![b] = disk[ops[h].blk]] /\ UNCHANGED disk
    /\ info' = [info EXCEPT ![status].status = "ok"]
    /\ used' = [used EXCEPT ![dev_used_idx % NUM] = h]
    /\ dev_used_idx' = (dev_used_idx + 1) % IDX
    /\ taken' = taken \ {h}
    /\ irq' = TRUE
    /\ UNCHANGED <<driver, last_avail, used_idx, lock, bdisk, thr>>

-----------------------------------------------------------------------------
\* virtio_disk_intr() acknowledges the interrupt, then looks through the used ring.
IntrStart ==
  /\ irq /\ lock = NoOne
  /\ lock' = "intr" /\ irq' = FALSE
  /\ UNCHANGED <<driver, device, info, used_idx, bdisk, buf, thr>>

IntrStep ==
  /\ lock = "intr" /\ used_idx # dev_used_idx
  /\ LET b == info[used[used_idx % NUM]].b IN
       /\ bdisk' = [bdisk EXCEPT ![b] = FALSE]
       /\ thr' = IF At(b, "sleep") THEN Moved(b, "woken") ELSE thr
  /\ used' = [used EXCEPT ![used_idx % NUM] = NoDesc]
  /\ used_idx' = (used_idx + 1) % IDX
  /\ UNCHANGED <<driver, dev_used_idx, last_avail, taken, disk, info, lock, buf, irq>>

IntrEnd ==
  /\ lock = "intr" /\ used_idx = dev_used_idx
  /\ lock' = NoOne
  /\ UNCHANGED <<driver, device, info, used_idx, bdisk, buf, thr, irq>>

-----------------------------------------------------------------------------
Intr == IntrStart \/ IntrStep \/ IntrEnd

Next == \/ \E p \in Proc : Rw(p) \/ Submit(p) \/ NoDescriptors(p) \/ Publish(p) \/ Finish(p) \/ Kill(p)
        \/ DevTake \/ DevComplete
        \/ Intr

Spec == Init /\ [][Next]_vars

-----------------------------------------------------------------------------
InFlight == {"publish", "sleep", "woken"}
Busy == {p \in Proc : thr[p].pc \in InFlight}
ThrType == [pc : InFlight \cup {"idle", "alloc", "no_desc"}, write : BOOLEAN, blk : Block,
            head : Desc \cup {NoDesc}]

\* The type of the state.
TypeOK ==
  /\ free \subseteq Desc
  /\ desc \in [Desc -> [next : Desc \cup {NoDesc}, addr : Desc \cup Proc \cup {NoOne}]]
  /\ ops \in [Desc -> [write : BOOLEAN, blk : Block]]
  /\ info \in [Desc -> [b : Proc \cup {NoOne}, status : {"none", "busy", "ok"}]]
  /\ {avail, used} \subseteq [Desc -> Desc \cup {NoDesc}]
  /\ {avail_idx, last_avail, dev_used_idx, used_idx} \subseteq 0 .. IDX - 1
  /\ lock \in Proc \cup {"intr", NoOne}
  /\ bdisk \in [Proc -> BOOLEAN] /\ buf \in [Proc -> Value] /\ disk \in [Block -> Value]
  /\ thr \in [Proc -> ThrType]
  /\ taken \subseteq Desc /\ irq \in BOOLEAN

\* Every descriptor is free or in the chain of exactly one request, whose three
\* descriptors lead to its own header, buffer and status byte: free_desc() does not
\* panic, and no request is carried out with another's descriptors.
ChainsDisjoint ==
  /\ \A p \in Busy :
       LET h == thr[p].head IN
       /\ Cardinality(Chain(h)) = 3 /\ Chain(h) \cap free = {}
       /\ desc[desc[h].next].addr = p /\ desc[desc[desc[h].next].next].addr = h
       /\ ops[h] = [write |-> thr[p].write, blk |-> thr[p].blk]
  /\ \A p, q \in Busy : p # q => Chain(thr[p].head) \cap Chain(thr[q].head) = {}
  /\ Cardinality(free) + 3 * Cardinality(Busy) = NUM

\* Nobody waits for descriptors while three are free.
WaitersHaveWaker == (\E p \in Proc : At(p, "no_desc")) => Cardinality(free) < 3

\* The free list, the chains and those who wait agree: no descriptor is lost, shared or
\* left free while a request waits for it.
DescriptorsSound == TypeOK /\ ChainsDisjoint /\ WaitersHaveWaker

\* A completion that the interrupt handler finds belongs to a request that waits for
\* it, and has succeeded: neither panic ("virtio_disk_intr status") nor a null buffer.
Pending == {i \in 0 .. NUM - 1 : (dev_used_idx - used_idx) % IDX > i}
CompletionsMatch ==
  \A i \in Pending :
    LET h == used[(used_idx + i) % NUM] IN
    /\ info[h].status = "ok" /\ info[h].b # NoOne
    /\ thr[info[h].b].pc \in {"sleep", "woken"} /\ thr[info[h].b].head = h /\ bdisk[info[h].b]

\* The rings and the interrupt cannot be seen: a request is carried out once, between
\* its call and its return.
Done(p) == thr[p].head # NoDesc /\ info[thr[p].head].status = "ok"
Stage(p) == IF At(p, "idle") THEN "none" ELSE IF Done(p) THEN "done" ELSE "asked"
Req == [p \in Proc |-> [stage |-> Stage(p), write |-> thr[p].write,
                        blk |-> thr[p].blk, data |-> buf[p]]]
Service == INSTANCE DiskService WITH req <- Req
ServesRequests == Service!Spec
=============================================================================
