----------------------------- MODULE LogProofs -----------------------------
(***************************************************************************)
(* Log implements AtomicDisk, for every number of blocks, processes and    *)
(* log sizes.                                                              *)
(*                                                                         *)
(* The argument.  RunInv: while a process commits, nobody is inside a      *)
(* call, and while the log is recovered nobody else runs.  DataInv: what   *)
(* is known of the disk at each position of commit() and                   *)
(* recover_from_log(): the header on disk is empty until all the blocks it *)
(* is going to name are in the log, and the blocks it names stay there     *)
(* until all are at home.  So the durable contents only change when the    *)
(* header is written, and then become those of the cache.                  *)
(* RoomInv, on top of it, counts what the open calls have written: with    *)
(* the sizes of the code what begin_op() reserves is enough.               *)
(***************************************************************************)
EXTENDS Log, FiniteSetTheorems, TLAPS

\* Who runs: one committer, and then no call; or recovery, and then nobody else.
RunInv ==
  /\ Recovering => /\ \A q \in Proc \ {InitProc} : pc[q] = "down"
                   /\ ~ committing
  /\ ~ Recovering => \A q \in Proc : pc[q] \notin RecoverLabels \cup {"down"}
  /\ committing => outstanding = 0
  /\ committing <=> \E p \in Proc : pc[p] \in CommitLabels
  /\ \A p, q \in Proc : pc[p] \in CommitLabels /\ pc[q] \in CommitLabels => p = q
  /\ Cardinality(OpProcs) <= outstanding
  /\ \A p \in Proc : pc[p] \notin {"write_log", "install", "recover"} => tail[p] = 1

\* The first n blocks of lh are in the log, or at home.
Logged(n)    == \A i \in 1 .. Len(lh) : i < n => logblk[i] = cache[lh[i]]
Installed(n) == \A i \in 1 .. Len(lh) : i < n => home[lh[i]] = logblk[i]
All == Len(lh) + 1

\* What the disk and the cache hold at each position.
DataInv ==
  /\ Recovering => /\ cache = home
                   /\ pc[InitProc] # "read_head"    => lh = loghdr
                   /\ pc[InitProc] = "recover"       => Installed(tail[InitProc])
                   /\ pc[InitProc] = "recover_clear" => Installed(All)
  /\ ~ Recovering => /\ \A b \in Block : ~ InSeq(b, lh) => cache[b] = home[b]
                     /\ lh # <<>> => committing \/ outstanding > 0
                     /\ (\A p \in Proc : pc[p] \notin {"install", "clear"}) => loghdr = <<>>
  /\ \A p \in Proc :
       /\ pc[p] = "write_log" => Logged(tail[p])
       /\ pc[p] \in {"write_head", "install", "clear"} => Logged(All)
       /\ pc[p] \in {"install", "clear"} => loghdr = lh
       /\ pc[p] = "install" => Installed(tail[p])
       /\ pc[p] = "clear"   => Installed(All)
       /\ pc[p] = "finish"  => lh = <<>>

IInv == TypeOK /\ RunInv /\ DataInv

-----------------------------------------------------------------------------
\* With an empty header, the disk is what is at home.
LEMMA OverlayEmpty ==
  ASSUME NEW h \in [Block -> Value], NEW blk
  PROVE  Overlay(h, <<>>, blk) = h
  BY DEF Overlay, InSeq

\* A header that names no block twice: its i-th block comes from the log.
LEMMA OverlayIn ==
  ASSUME NEW hdr \in Seq(Block), \A i, j \in 1 .. Len(hdr) : hdr[i] = hdr[j] => i = j,
         NEW h, NEW blk, NEW i \in 1 .. Len(hdr)
  PROVE  Overlay(h, hdr, blk)[hdr[i]] = blk[i]
  <1>1. InSeq(hdr[i], hdr)
    BY DEF InSeq
  <1>2. hdr[i] \in Block
    OBVIOUS
  <1>3. Index(hdr[i], hdr) = i
    BY DEF Index
  <1>4. QED
    BY <1>1, <1>2, <1>3 DEF Overlay

\* Writing to the home of a block that the header names changes nothing durable.
LEMMA OverlayHome ==
  ASSUME NEW hdr, NEW blk, NEW h, NEW g,
         \A b \in Block : ~ InSeq(b, hdr) => g[b] = h[b]
  PROVE  Overlay(g, hdr, blk) = Overlay(h, hdr, blk)
  BY DEF Overlay

\* When every named block is at home, the header can be dropped.
LEMMA OverlayInstalled ==
  ASSUME NEW hdr \in Seq(Block), \A i, j \in 1 .. Len(hdr) : hdr[i] = hdr[j] => i = j,
         NEW h \in [Block -> Value], NEW blk,
         \A i \in 1 .. Len(hdr) : h[hdr[i]] = blk[i]
  PROVE  Overlay(h, hdr, blk) = h
  <1>1. \A b \in Block : InSeq(b, hdr) => Overlay(h, hdr, blk)[b] = h[b]
    BY OverlayIn DEF InSeq
  <1>2. \A b \in Block : ~ InSeq(b, hdr) => Overlay(h, hdr, blk)[b] = h[b]
    BY DEF Overlay
  <1>3. Overlay(h, hdr, blk) = [b \in Block |-> h[b]]
    BY <1>1, <1>2 DEF Overlay
  <1>4. QED
    BY <1>3

\* When every block of lh is in the log as it is in memory, and the others are at home,
\* the header lh makes the contents of the memory durable.
LEMMA OverlayLogged ==
  ASSUME TypeOK, Logged(All), \A b \in Block : ~ InSeq(b, lh) => cache[b] = home[b]
  PROVE  Overlay(home, lh, logblk) = cache
  <1>1. \A i \in 1 .. Len(lh) : logblk[i] = cache[lh[i]]
    BY DEF Logged, All, TypeOK
  <1>2. \A b \in Block : InSeq(b, lh) => Overlay(home, lh, logblk)[b] = cache[b]
    <2>1. SUFFICES ASSUME NEW i \in 1 .. Len(lh)
                   PROVE  Overlay(home, lh, logblk)[lh[i]] = cache[lh[i]]
      BY DEF InSeq
    <2>2. lh \in Seq(Block) /\ \A j, k \in 1 .. Len(lh) : lh[j] = lh[k] => j = k
      BY DEF TypeOK
    <2>3. Overlay(home, lh, logblk)[lh[i]] = logblk[i]
      BY <2>2, OverlayIn
    <2>4. QED
      BY <1>1, <2>3
  <1>3. \A b \in Block : ~ InSeq(b, lh) => Overlay(home, lh, logblk)[b] = cache[b]
    BY DEF Overlay
  <1>4. Overlay(home, lh, logblk) = [b \in Block |-> cache[b]]
    BY <1>2, <1>3 DEF Overlay
  <1>5. QED
    BY <1>4 DEF TypeOK

-----------------------------------------------------------------------------
\* The processes inside a call can be counted.
LEMMA OpFinite ==
  IsFiniteSet(OpProcs) /\ Cardinality(OpProcs) \in Nat
  BY ProcAssumption, FS_Subset, FS_CardinalityType DEF OpProcs

\* A process inside a call is counted, so nobody commits or recovers meanwhile.
LEMMA InOp ==
  ASSUME IInv, NEW p \in Proc, pc[p] = "op"
  PROVE  outstanding \in Nat /\ outstanding >= 1 /\ ~ committing /\ ~ Recovering
  <1>1. Cardinality(OpProcs) # 0
    BY OpFinite, FS_EmptySet DEF OpProcs
  <1>2. outstanding \in Nat /\ outstanding >= 1
    BY <1>1, OpFinite DEF IInv, TypeOK, RunInv
  <1>3. ~ committing
    BY <1>2 DEF IInv, RunInv
  <1>4. ~ Recovering
    BY DEF IInv, RunInv, Recovering, RecoverLabels
  <1>5. QED
    BY <1>2, <1>3, <1>4

\* A process that commits is alone in commit(), and nobody is inside a call.
LEMMA InCommit ==
  ASSUME IInv, NEW p \in Proc, pc[p] \in CommitLabels
  PROVE  /\ committing /\ outstanding = 0 /\ ~ Recovering
         /\ OpProcs = {}
         /\ \A q \in Proc : q # p => pc[q] \notin CommitLabels
  <1>1. committing /\ outstanding = 0 /\ ~ Recovering
    BY DEF IInv, RunInv
  <1>2. OpProcs = {}
    <2>1. Cardinality(OpProcs) = 0
      BY <1>1, OpFinite DEF IInv, RunInv
    <2>2. QED
      BY <2>1, OpFinite, FS_EmptySet
  <1>3. QED
    BY <1>1, <1>2 DEF IInv, RunInv

\* Only the first process recovers the log; the others have not been started.
LEMMA InRecovery ==
  ASSUME IInv, NEW p \in Proc, pc[p] \in RecoverLabels
  PROVE  /\ p = InitProc /\ Recovering /\ ~ committing
         /\ \A q \in Proc : q # p => pc[q] = "down"
  <1>1. Recovering
    BY DEF IInv, RunInv
  <1>2. p = InitProc
    BY <1>1 DEF IInv, RunInv, RecoverLabels
  <1>3. QED
    BY <1>1, <1>2 DEF IInv, RunInv

\* The positions at which a process touches neither the log nor the disk.
QuietLabels == {"idle", "begin", "asleep", "op", "panic"}

\* A step between such positions that keeps the count of calls right.
LEMMA QuietStep ==
  ASSUME IInv, UNCHANGED <<disks, cache, lh, committing, tail>>,
         pc' \in [Proc -> Labels], touched' \in [Proc -> SUBSET Block],
         \A q \in Proc : pc'[q] # pc[q] => pc[q] \in QuietLabels /\ pc'[q] \in QuietLabels,
         outstanding' \in Nat, Cardinality(OpProcs') <= outstanding',
         committing => outstanding' = 0,
         lh # <<>> => committing \/ outstanding' > 0
  PROVE  IInv'
  <1>1. TypeOK'
    BY DEF IInv, TypeOK, disks
  <1>2. /\ Recovering' = Recovering
        /\ \A q \in Proc, l \in CommitLabels \cup RecoverLabels \cup {"down"} :
             pc'[q] = l <=> pc[q] = l
    BY ProcAssumption DEF Recovering, QuietLabels, CommitLabels, RecoverLabels
  <1>3. RunInv'
    <2>1. \A q \in Proc : pc'[q] \in CommitLabels <=> pc[q] \in CommitLabels
      BY <1>2
    <2>2. \A q \in Proc : pc'[q] \in RecoverLabels \cup {"down"}
                            <=> pc[q] \in RecoverLabels \cup {"down"}
      BY <1>2
    <2>3. \A q \in Proc : pc'[q] \notin {"write_log", "install", "recover"} => tail'[q] = 1
      BY <1>2 DEF IInv, RunInv, CommitLabels, RecoverLabels
    <2>4. QED
      BY <1>2, <2>1, <2>2, <2>3 DEF IInv, RunInv
  <1>4. DataInv'
    <2>1. \A n : (Logged(n)' <=> Logged(n)) /\ (Installed(n)' <=> Installed(n))
      BY DEF Logged, Installed, disks
    <2>2. (Recovering => /\ cache = home
                         /\ pc[InitProc] # "read_head"    => lh = loghdr
                         /\ pc[InitProc] = "recover"       => Installed(tail[InitProc])
                         /\ pc[InitProc] = "recover_clear" => Installed(All))'
      BY <1>2, <2>1, ProcAssumption DEF IInv, DataInv, disks, RecoverLabels, All
    <2>3. (~ Recovering => /\ \A b \in Block : ~ InSeq(b, lh) => cache[b] = home[b]
                           /\ lh # <<>> => committing \/ outstanding > 0
                           /\ (\A p \in Proc : pc[p] \notin {"install", "clear"})
                                => loghdr = <<>>)'
      BY <1>2 DEF IInv, DataInv, disks, CommitLabels, InSeq
    <2>4. ASSUME NEW p \in Proc
          PROVE  (/\ pc[p] = "write_log" => Logged(tail[p])
                  /\ pc[p] \in {"write_head", "install", "clear"} => Logged(All)
                  /\ pc[p] \in {"install", "clear"} => loghdr = lh
                  /\ pc[p] = "install" => Installed(tail[p])
                  /\ pc[p] = "clear"   => Installed(All)
                  /\ pc[p] = "finish"  => lh = <<>>)'
      BY <1>2, <2>1 DEF IInv, DataInv, disks, CommitLabels, All
    <2>5. QED
      BY <2>2, <2>3, <2>4 DEF DataInv
  <1>5. QED
    BY <1>1, <1>3, <1>4 DEF IInv

\* Counting: one call more.
LEMMA OpAdd ==
  ASSUME NEW p \in Proc, p \notin OpProcs, OpProcs' = OpProcs \cup {p}
  PROVE  Cardinality(OpProcs') = Cardinality(OpProcs) + 1
  BY OpFinite, FS_AddElement

\* Counting: one call less.
LEMMA OpRemove ==
  ASSUME NEW p \in Proc, p \in OpProcs, OpProcs' = OpProcs \ {p}
  PROVE  Cardinality(OpProcs') = Cardinality(OpProcs) - 1
  BY OpFinite, FS_RemoveElement

\* Waiting in begin_op() changes nothing.
LEMMA WaitStep ==
  ASSUME IInv, NEW p \in Proc, Call(p) \/ BeginSleep(p) \/ Killed(p)
  PROVE  IInv'
  <1>1. /\ pc[p] \in {"idle", "begin", "asleep"}
        /\ \E l \in {"begin", "asleep"} : pc' = [pc EXCEPT ![p] = l]
        /\ UNCHANGED <<disks, mems, tail, touched>>
    BY DEF Call, BeginSleep, Killed, Goto
  <1>2. pc' \in [Proc -> Labels] /\ touched' \in [Proc -> SUBSET Block]
    BY <1>1 DEF IInv, TypeOK, Labels
  <1>3. OpProcs' = OpProcs
    BY <1>1 DEF OpProcs, IInv, TypeOK
  <1>4. \A q \in Proc : pc'[q] # pc[q] => pc[q] \in QuietLabels /\ pc'[q] \in QuietLabels
    BY <1>1 DEF QuietLabels, IInv, TypeOK
  <1>5. ~ Recovering
    BY <1>1 DEF IInv, RunInv, Recovering, RecoverLabels
  <1>6. /\ outstanding' \in Nat /\ Cardinality(OpProcs') <= outstanding'
        /\ committing => outstanding' = 0
        /\ lh # <<>> => committing \/ outstanding' > 0
    BY <1>1, <1>3, <1>5 DEF IInv, TypeOK, RunInv, DataInv, mems
  <1>7. QED
    BY <1>1, <1>2, <1>4, <1>6, QuietStep DEF mems

\* begin_op(): one call more is open, and it is counted.
LEMMA BeginOpStep ==
  ASSUME IInv, NEW p \in Proc, BeginOp(p)
  PROVE  IInv'
  <1>1. /\ pc[p] = "begin" /\ ~ committing /\ outstanding' = outstanding + 1
        /\ pc' = [pc EXCEPT ![p] = "op"]
        /\ UNCHANGED <<disks, cache, lh, committing, tail, touched>>
    BY DEF BeginOp, Goto
  <1>2. pc' \in [Proc -> Labels] /\ touched' \in [Proc -> SUBSET Block]
    BY <1>1 DEF IInv, TypeOK, Labels
  <1>3. OpProcs' = OpProcs \cup {p} /\ p \notin OpProcs
    BY <1>1 DEF OpProcs, IInv, TypeOK
  <1>4. \A q \in Proc : pc'[q] # pc[q] => pc[q] \in QuietLabels /\ pc'[q] \in QuietLabels
    BY <1>1 DEF QuietLabels, IInv, TypeOK
  <1>5. Cardinality(OpProcs') = Cardinality(OpProcs) + 1
    BY <1>3, OpAdd
  <1>6. outstanding' \in Nat /\ Cardinality(OpProcs') <= outstanding' /\ outstanding' > 0
    BY <1>1, <1>5, OpFinite DEF IInv, TypeOK, RunInv
  <1>7. QED
    BY <1>1, <1>2, <1>4, <1>6, QuietStep

\* The end of a call that is not the last one; and both panics.
LEMMA LeaveOpStep ==
  ASSUME IInv, NEW p \in Proc, pc[p] = "op",
         UNCHANGED <<disks, cache, lh, committing, tail>>,
         touched' \in [Proc -> SUBSET Block],
         \/ Goto(p, "panic") /\ outstanding' = outstanding
         \/ WakeAllGoto(p, "idle") /\ outstanding' = outstanding - 1 /\ outstanding' # 0
  PROVE  IInv'
  <1>0. outstanding \in Nat /\ outstanding >= 1 /\ ~ committing
    BY InOp
  <1>1. pc' \in [Proc -> Labels]
    BY DEF IInv, TypeOK, Labels, Goto, WakeAllGoto
  <1>2. OpProcs' = OpProcs \ {p} /\ p \in OpProcs
    BY DEF OpProcs, IInv, TypeOK, Goto, WakeAllGoto
  <1>3. \A q \in Proc : pc'[q] # pc[q] => pc[q] \in QuietLabels /\ pc'[q] \in QuietLabels
    BY DEF QuietLabels, IInv, TypeOK, Goto, WakeAllGoto
  <1>4. Cardinality(OpProcs') = Cardinality(OpProcs) - 1
    BY <1>2, OpRemove
  <1>5. outstanding' \in Nat /\ Cardinality(OpProcs') <= outstanding' /\ outstanding' > 0
    BY <1>0, <1>4, OpFinite DEF IInv, RunInv
  <1>6. QED
    BY <1>0, <1>1, <1>3, <1>5, QuietStep

-----------------------------------------------------------------------------
\* A process that goes from one position of commit() to another: who runs stays
\* as it was, and only its own facts about the disk are left to show.
LEMMA CommitterStep ==
  ASSUME IInv, NEW p \in Proc, pc[p] \in CommitLabels,
         NEW l \in CommitLabels, pc' = [pc EXCEPT ![p] = l],
         NEW n \in Nat \ {0}, tail' = [tail EXCEPT ![p] = n],
         l \notin {"write_log", "install"} => n = 1,
         UNCHANGED <<outstanding, committing, touched>>
  PROVE  /\ RunInv' /\ ~ Recovering'
         /\ pc' \in [Proc -> Labels] /\ tail' \in [Proc -> Nat \ {0}]
         /\ pc'[p] = l /\ tail'[p] = n
         /\ \A q \in Proc : q # p => pc'[q] \notin CommitLabels
  <1>1. /\ committing /\ outstanding = 0 /\ ~ Recovering /\ OpProcs = {}
        /\ \A q \in Proc : q # p => pc[q] \notin CommitLabels
    BY InCommit
  <1>2. pc' \in [Proc -> Labels] /\ tail' \in [Proc -> Nat \ {0}]
    BY DEF IInv, TypeOK, Labels
  <1>3. /\ pc'[p] = l /\ tail'[p] = n
        /\ \A q \in Proc : q # p => pc'[q] = pc[q] /\ tail'[q] = tail[q]
    BY DEF IInv, TypeOK
  <1>4. ~ Recovering'
    BY <1>1, <1>3, ProcAssumption DEF Recovering, CommitLabels, RecoverLabels
  <1>5. OpProcs' = {}
    BY <1>1, <1>3 DEF OpProcs, CommitLabels
  <1>6. Cardinality(OpProcs') = 0
    BY <1>5, FS_EmptySet
  <1>7. \A q \in Proc : pc'[q] \notin RecoverLabels \cup {"down"}
    BY <1>1, <1>3 DEF IInv, RunInv, CommitLabels, RecoverLabels
  <1>8. \A q \in Proc : pc'[q] \notin {"write_log", "install", "recover"} => tail'[q] = 1
    BY <1>3 DEF IInv, RunInv, CommitLabels
  <1>9. RunInv'
    BY <1>1, <1>3, <1>4, <1>6, <1>7, <1>8 DEF RunInv
  <1>10. QED
    BY <1>1, <1>2, <1>3, <1>4, <1>9

\* While p commits, DataInv says only this.
LEMMA CommitterData ==
  ASSUME NEW p \in Proc, committing', ~ Recovering',
         \A q \in Proc : q # p => pc'[q] \notin CommitLabels,
         \A b \in Block : ~ InSeq(b, lh)' => cache'[b] = home'[b],
         pc'[p] \notin {"install", "clear"} => loghdr' = <<>>,
         (/\ pc[p] = "write_log" => Logged(tail[p])
          /\ pc[p] \in {"write_head", "install", "clear"} => Logged(All)
          /\ pc[p] \in {"install", "clear"} => loghdr = lh
          /\ pc[p] = "install" => Installed(tail[p])
          /\ pc[p] = "clear"   => Installed(All)
          /\ pc[p] = "finish"  => lh = <<>>)'
  PROVE  DataInv'
  <1>1. ((\A q \in Proc : pc[q] \notin {"install", "clear"}) => loghdr = <<>>)'
    OBVIOUS
  <1>2. ASSUME NEW q \in Proc
        PROVE  (/\ pc[q] = "write_log" => Logged(tail[q])
                /\ pc[q] \in {"write_head", "install", "clear"} => Logged(All)
                /\ pc[q] \in {"install", "clear"} => loghdr = lh
                /\ pc[q] = "install" => Installed(tail[q])
                /\ pc[q] = "clear"   => Installed(All)
                /\ pc[q] = "finish"  => lh = <<>>)'
    BY DEF CommitLabels
  <1>3. QED
    BY <1>1, <1>2 DEF DataInv

\* What a committer knows of the disk before its step.
LEMMA CommitterKnows ==
  ASSUME IInv, NEW p \in Proc, pc[p] \in CommitLabels
  PROVE  /\ \A b \in Block : ~ InSeq(b, lh) => cache[b] = home[b]
         /\ pc[p] \notin {"install", "clear"} => loghdr = <<>>
         /\ pc[p] \notin {"write_log", "install"} => tail = [tail EXCEPT ![p] = 1]
  <1>1. ~ Recovering /\ \A q \in Proc : q # p => pc[q] \notin CommitLabels
    BY InCommit
  <1>2. pc[p] \notin {"install", "clear"} => loghdr = <<>>
    BY <1>1 DEF IInv, DataInv, CommitLabels
  <1>3. pc[p] \notin {"write_log", "install"} => tail[p] = 1
    BY DEF IInv, RunInv, CommitLabels
  <1>4. tail \in [Proc -> Nat \ {0}]
    BY DEF IInv, TypeOK
  <1>5. QED
    BY <1>1, <1>2, <1>3, <1>4 DEF IInv, DataInv

\* commit() begins, with a log that has blocks or none.
LEMMA CommitStart ==
  ASSUME IInv, NEW p \in Proc, Commit(p)
  PROVE  IInv'
  <1>1. /\ pc[p] = "commit" /\ pc[p] \in CommitLabels
        /\ pc' = [pc EXCEPT ![p] = IF Len(lh) > 0 THEN "write_log" ELSE "finish"]
        /\ UNCHANGED <<disks, mems, tail, touched>>
    BY DEF Commit, Goto, CommitLabels
  <1>2. tail' = [tail EXCEPT ![p] = 1]
    BY <1>1, CommitterKnows
  <1>3. PICK l \in {"write_log", "finish"} :
          /\ pc' = [pc EXCEPT ![p] = l]
          /\ l = "finish" => lh = <<>>
    <2>1. Len(lh) > 0 \/ lh = <<>>
      BY DEF IInv, TypeOK
    <2>2. QED
      BY <1>1, <2>1
  <1>4. /\ RunInv' /\ ~ Recovering'
        /\ pc' \in [Proc -> Labels] /\ tail' \in [Proc -> Nat \ {0}]
        /\ pc'[p] = l /\ tail'[p] = 1
        /\ \A q \in Proc : q # p => pc'[q] \notin CommitLabels
    <2>1. l \in CommitLabels /\ 1 \in Nat \ {0}
      BY DEF CommitLabels
    <2>2. UNCHANGED <<outstanding, committing, touched>>
      BY <1>1 DEF mems
    <2>3. QED
      BY <1>1, <1>2, <1>3, <2>1, <2>2, CommitterStep
  <1>5. TypeOK'
    BY <1>1, <1>4 DEF IInv, TypeOK, disks, mems
  <1>6. Logged(1)'
    BY DEF Logged
  <1>7. DataInv'
    <2>1. committing'
      BY <1>1, InCommit DEF mems
    <2>2. /\ \A b \in Block : ~ InSeq(b, lh)' => cache'[b] = home'[b]
          /\ loghdr' = <<>>
      BY <1>1, CommitterKnows DEF mems, disks, InSeq
    <2>3. QED
      BY <1>1, <1>3, <1>4, <1>6, <2>1, <2>2, CommitterData DEF mems
  <1>8. QED
    BY <1>4, <1>5, <1>7 DEF IInv

\* write_log(): one block more is logged.
LEMMA WriteLogStep ==
  ASSUME IInv, NEW p \in Proc, WriteLog(p)
  PROVE  IInv'
  <1> DEFINE t == tail[p]
  <1>1. /\ pc[p] = "write_log" /\ pc[p] \in CommitLabels
        /\ t \in Nat \ {0} /\ Len(lh) \in Nat
        /\ UNCHANGED <<home, loghdr, cache, lh, outstanding, committing, touched>>
    BY DEF WriteLog, CommitLabels, mems, IInv, TypeOK
  <1>2. /\ loghdr = <<>> /\ \A b \in Block : ~ InSeq(b, lh) => cache[b] = home[b]
    BY <1>1, CommitterKnows
  <1>3. Logged(t) /\ committing
    BY <1>1, InCommit DEF IInv, DataInv
  <1>4. CASE t <= Len(lh)
    <2>1. /\ logblk' = [logblk EXCEPT ![t] = cache[lh[t]]]
          /\ tail' = [tail EXCEPT ![p] = t + 1]
          /\ pc' = [pc EXCEPT ![p] = "write_log"]
      BY <1>1, <1>4 DEF WriteLog, IInv, TypeOK
    <2>2. /\ RunInv' /\ ~ Recovering'
          /\ pc' \in [Proc -> Labels] /\ tail' \in [Proc -> Nat \ {0}]
          /\ pc'[p] = "write_log" /\ tail'[p] = t + 1
          /\ \A q \in Proc : q # p => pc'[q] \notin CommitLabels
      <3>1. t + 1 \in Nat \ {0} /\ "write_log" \in CommitLabels
        BY <1>1 DEF CommitLabels
      <3>2. QED
        BY <1>1, <2>1, <3>1, CommitterStep
    <2>3. t \in 1 .. LOGSIZE /\ cache[lh[t]] \in Value
      BY <1>1, <1>4, SizeAssumption DEF IInv, TypeOK
    <2>4. logblk' \in [1 .. LOGSIZE -> Value]
      BY <2>1, <2>3 DEF IInv, TypeOK
    <2>5. TypeOK'
      BY <1>1, <2>2, <2>4 DEF IInv, TypeOK
    <2>6. Logged(tail[p])'
      <3>1. SUFFICES ASSUME NEW i \in 1 .. Len(lh), i < t + 1
                     PROVE  logblk'[i] = cache[lh[i]]
        BY <1>1, <2>2 DEF Logged
      <3>2. i \in 1 .. LOGSIZE
        BY SizeAssumption DEF IInv, TypeOK
      <3>3. CASE i = t
        BY <2>1, <2>3, <3>3 DEF IInv, TypeOK
      <3>4. CASE i # t
        <4>1. i < t
          BY <1>1, <3>1, <3>4
        <4>2. logblk'[i] = logblk[i]
          BY <2>1, <3>2, <3>4 DEF IInv, TypeOK
        <4>3. QED
          BY <1>3, <4>1, <4>2 DEF Logged
      <3>5. QED
        BY <3>3, <3>4
    <2>7. DataInv'
      BY <1>1, <1>2, <1>3, <2>2, <2>6, CommitterData DEF InSeq
    <2>8. QED
      BY <2>2, <2>5, <2>7 DEF IInv
  <1>5. CASE t > Len(lh)
    <2>1. /\ logblk' = logblk /\ tail' = [tail EXCEPT ![p] = 1]
          /\ pc' = [pc EXCEPT ![p] = "write_head"]
      BY <1>1, <1>5 DEF WriteLog, Goto, LoopDone
    <2>2. /\ RunInv' /\ ~ Recovering'
          /\ pc' \in [Proc -> Labels] /\ tail' \in [Proc -> Nat \ {0}]
          /\ pc'[p] = "write_head" /\ tail'[p] = 1
          /\ \A q \in Proc : q # p => pc'[q] \notin CommitLabels
      <3>1. 1 \in Nat \ {0} /\ "write_head" \in CommitLabels
        BY DEF CommitLabels
      <3>2. QED
        BY <1>1, <2>1, <3>1, CommitterStep
    <2>3. TypeOK'
      BY <1>1, <2>1, <2>2 DEF IInv, TypeOK
    <2>4. Logged(All)'
      BY <1>1, <1>3, <1>5, <2>1 DEF Logged, All
    <2>5. DataInv'
      BY <1>1, <1>2, <1>3, <2>2, <2>4, CommitterData DEF InSeq
    <2>6. QED
      BY <2>2, <2>3, <2>5 DEF IInv
  <1>6. QED
    BY <1>1, <1>4, <1>5

\* write_head(): the header names blocks that are all in the log.
LEMMA WriteHeadStep ==
  ASSUME IInv, NEW p \in Proc, WriteHead(p)
  PROVE  IInv'
  <1>1. /\ pc[p] = "write_head" /\ pc[p] \in CommitLabels
        /\ pc' = [pc EXCEPT ![p] = "install"] /\ loghdr' = lh
        /\ UNCHANGED <<home, logblk, cache, lh, outstanding, committing, tail, touched>>
    BY DEF WriteHead, Goto, CommitLabels, mems
  <1>2. /\ tail' = [tail EXCEPT ![p] = 1]
        /\ \A b \in Block : ~ InSeq(b, lh) => cache[b] = home[b]
    BY <1>1, CommitterKnows
  <1>3. Logged(All) /\ committing
    BY <1>1, InCommit DEF IInv, DataInv
  <1>4. /\ RunInv' /\ ~ Recovering'
        /\ pc' \in [Proc -> Labels] /\ tail' \in [Proc -> Nat \ {0}]
        /\ pc'[p] = "install" /\ tail'[p] = 1
        /\ \A q \in Proc : q # p => pc'[q] \notin CommitLabels
    <2>1. 1 \in Nat \ {0} /\ "install" \in CommitLabels
      BY DEF CommitLabels
    <2>2. QED
      BY <1>1, <1>2, <2>1, CommitterStep
  <1>5. TypeOK'
    BY <1>1, <1>4 DEF IInv, TypeOK
  <1>6. Logged(All)' /\ Installed(1)'
    BY <1>1, <1>3 DEF Logged, Installed, All
  <1>7. DataInv'
    BY <1>1, <1>2, <1>3, <1>4, <1>6, CommitterData DEF InSeq
  <1>8. QED
    BY <1>4, <1>5, <1>7 DEF IInv

-----------------------------------------------------------------------------
\* install_trans() for one block, in a commit or in recovery: one block more is at
\* home, the others stay, and the cache still agrees with the disk.
LEMMA InstallOne ==
  ASSUME TypeOK, NEW t \in 1 .. Len(lh), InstallBlock(t), Installed(t),
         UNCHANGED <<lh, logblk>>
  PROVE  /\ home' \in [Block -> Value] /\ cache' \in [Block -> Value]
         /\ \A i \in 1 .. Len(lh) : i < t + 1 => home'[lh[i]] = logblk[i]
         /\ \A b \in Block : ~ InSeq(b, lh) => home'[b] = home[b] /\ cache'[b] = cache[b]
         /\ Logged(All) => cache' = cache
         /\ cache = home => cache' = home'
  <1>1. lh[t] \in Block /\ t \in 1 .. LOGSIZE /\ logblk[t] \in Value
    BY SizeAssumption DEF TypeOK
  <1>2. /\ home' = [home EXCEPT ![lh[t]] = logblk[t]]
        /\ cache' = [cache EXCEPT ![lh[t]] = logblk[t]]
        /\ home \in [Block -> Value] /\ cache \in [Block -> Value]
    BY DEF InstallBlock, TypeOK
  <1>3. home' \in [Block -> Value] /\ cache' \in [Block -> Value]
    BY <1>1, <1>2
  <1>4. ASSUME NEW i \in 1 .. Len(lh), i < t + 1
        PROVE  home'[lh[i]] = logblk[i]
    <2>1. CASE i = t
      BY <1>1, <1>2, <2>1
    <2>2. CASE i # t
      <3>1. i < t /\ lh[i] # lh[t]
        BY <1>4, <2>2 DEF TypeOK
      <3>2. home[lh[i]] = logblk[i]
        BY <3>1 DEF Installed
      <3>3. lh[i] \in Block
        BY DEF TypeOK
      <3>4. QED
        BY <1>2, <3>1, <3>2, <3>3
    <2>3. QED
      BY <2>1, <2>2
  <1>5. \A b \in Block : ~ InSeq(b, lh) => home'[b] = home[b] /\ cache'[b] = cache[b]
    BY <1>2 DEF InSeq
  <1>6. Logged(All) => cache' = cache
    <2>1. Logged(All) => logblk[t] = cache[lh[t]]
      BY DEF Logged, All, TypeOK
    <2>2. QED
      BY <1>2, <2>1
  <1>7. cache = home => cache' = home'
    BY <1>2
  <1>8. QED
    BY <1>3, <1>4, <1>5, <1>6, <1>7

\* install_trans() of a commit, for one block or at its end.
LEMMA InstallStep ==
  ASSUME IInv, NEW p \in Proc, InstallTrans(p)
  PROVE  IInv'
  <1> DEFINE t == tail[p]
  <1>1. /\ pc[p] = "install" /\ pc[p] \in CommitLabels
        /\ t \in Nat \ {0} /\ Len(lh) \in Nat
        /\ UNCHANGED <<loghdr, logblk, lh, outstanding, committing, touched>>
    BY DEF InstallTrans, CommitLabels, IInv, TypeOK
  <1>2. \A b \in Block : ~ InSeq(b, lh) => cache[b] = home[b]
    BY <1>1, CommitterKnows
  <1>3. Logged(All) /\ Installed(t) /\ loghdr = lh /\ committing
    BY <1>1, InCommit DEF IInv, DataInv
  <1>4. CASE t <= Len(lh)
    <2>1. /\ InstallBlock(t) /\ tail' = [tail EXCEPT ![p] = t + 1]
          /\ pc' = [pc EXCEPT ![p] = "install"]
      BY <1>1, <1>4 DEF InstallTrans, Installs, IInv, TypeOK
    <2>2. /\ RunInv' /\ ~ Recovering'
          /\ pc' \in [Proc -> Labels] /\ tail' \in [Proc -> Nat \ {0}]
          /\ pc'[p] = "install" /\ tail'[p] = t + 1
          /\ \A q \in Proc : q # p => pc'[q] \notin CommitLabels
      <3>1. t + 1 \in Nat \ {0} /\ "install" \in CommitLabels
        BY <1>1 DEF CommitLabels
      <3>2. QED
        BY <1>1, <2>1, <3>1, CommitterStep
    <2>3. /\ home' \in [Block -> Value] /\ cache' \in [Block -> Value]
          /\ \A i \in 1 .. Len(lh) : i < t + 1 => home'[lh[i]] = logblk[i]
          /\ \A b \in Block : ~ InSeq(b, lh) => home'[b] = home[b] /\ cache'[b] = cache[b]
          /\ cache' = cache
      <3>1. t \in 1 .. Len(lh) /\ TypeOK
        BY <1>1, <1>4 DEF IInv
      <3>2. QED
        BY <1>1, <1>3, <2>1, <3>1, InstallOne
    <2>4. TypeOK'
      BY <1>1, <2>2, <2>3 DEF IInv, TypeOK
    <2>5. Installed(tail[p])' /\ Logged(All)'
      BY <1>1, <1>3, <2>2, <2>3 DEF Installed, Logged, All
    <2>6. DataInv'
      BY <1>1, <1>2, <1>3, <2>2, <2>3, <2>5, CommitterData DEF InSeq
    <2>7. QED
      BY <2>2, <2>4, <2>6 DEF IInv
  <1>5. CASE t > Len(lh)
    <2>1. /\ UNCHANGED <<home, cache>> /\ tail' = [tail EXCEPT ![p] = 1]
          /\ pc' = [pc EXCEPT ![p] = "clear"]
      BY <1>1, <1>5 DEF InstallTrans, Installs, Goto, LoopDone
    <2>2. /\ RunInv' /\ ~ Recovering'
          /\ pc' \in [Proc -> Labels] /\ tail' \in [Proc -> Nat \ {0}]
          /\ pc'[p] = "clear" /\ tail'[p] = 1
          /\ \A q \in Proc : q # p => pc'[q] \notin CommitLabels
      <3>1. 1 \in Nat \ {0} /\ "clear" \in CommitLabels
        BY DEF CommitLabels
      <3>2. QED
        BY <1>1, <2>1, <3>1, CommitterStep
    <2>3. TypeOK'
      BY <1>1, <2>1, <2>2 DEF IInv, TypeOK
    <2>4. Logged(All)' /\ Installed(All)'
      BY <1>1, <1>3, <1>5, <2>1 DEF Logged, Installed, All
    <2>5. DataInv'
      BY <1>1, <1>2, <1>3, <2>1, <2>2, <2>4, CommitterData DEF InSeq
    <2>6. QED
      BY <2>2, <2>3, <2>5 DEF IInv
  <1>6. QED
    BY <1>1, <1>4, <1>5

\* Clearing the log: all its blocks are at home.
LEMMA ClearStep ==
  ASSUME IInv, NEW p \in Proc, Clear(p)
  PROVE  IInv'
  <1>1. /\ pc[p] = "clear" /\ pc[p] \in CommitLabels
        /\ pc' = [pc EXCEPT ![p] = "finish"] /\ lh' = <<>> /\ loghdr' = <<>>
        /\ UNCHANGED <<home, logblk, cache, outstanding, committing, tail, touched>>
    BY DEF Clear, Goto, CommitLabels
  <1>2. /\ tail' = [tail EXCEPT ![p] = 1]
        /\ \A b \in Block : ~ InSeq(b, lh) => cache[b] = home[b]
    BY <1>1, CommitterKnows
  <1>3. Logged(All) /\ Installed(All) /\ committing
    BY <1>1, InCommit DEF IInv, DataInv
  <1>4. /\ RunInv' /\ ~ Recovering'
        /\ pc' \in [Proc -> Labels] /\ tail' \in [Proc -> Nat \ {0}]
        /\ pc'[p] = "finish" /\ tail'[p] = 1
        /\ \A q \in Proc : q # p => pc'[q] \notin CommitLabels
    <2>1. 1 \in Nat \ {0} /\ "finish" \in CommitLabels
      BY DEF CommitLabels
    <2>2. QED
      BY <1>1, <1>2, <2>1, CommitterStep
  <1>5. TypeOK'
    <2>1. lh' \in Seq(Block) /\ Len(lh') = 0 /\ loghdr' \in Seq(Block) /\ Len(loghdr') = 0
      BY <1>1
    <2>2. QED
      BY <1>1, <1>4, <2>1, SizeAssumption DEF IInv, TypeOK
  <1>6. \A b \in Block : cache[b] = home[b]
    <2>1. \A i \in 1 .. Len(lh) : cache[lh[i]] = home[lh[i]]
      BY <1>3 DEF Logged, Installed, All, IInv, TypeOK
    <2>2. QED
      BY <1>2, <2>1 DEF InSeq
  <1>7. DataInv'
    BY <1>1, <1>3, <1>4, <1>6, CommitterData
  <1>8. QED
    BY <1>4, <1>5, <1>7 DEF IInv

\* While nobody commits or recovers, DataInv says only this.
LEMMA OpenData ==
  ASSUME ~ Recovering', \A q \in Proc : pc'[q] \notin CommitLabels,
         loghdr' = <<>>, (lh # <<>> => committing \/ outstanding > 0)',
         \A b \in Block : ~ InSeq(b, lh)' => cache'[b] = home'[b]
  PROVE  DataInv'
  BY DEF DataInv, CommitLabels

\* What is known while nobody commits or recovers.
LEMMA OpenKnows ==
  ASSUME IInv, ~ Recovering, ~ committing
  PROVE  /\ \A q \in Proc : pc[q] \notin CommitLabels
         /\ loghdr = <<>>
         /\ \A b \in Block : ~ InSeq(b, lh) => cache[b] = home[b]
  BY DEF IInv, RunInv, DataInv, CommitLabels

\* The end of the commit: the calls that waited look again.
LEMMA FinishStep ==
  ASSUME IInv, NEW p \in Proc, Finish(p)
  PROVE  IInv'
  <1>1. /\ pc[p] = "finish" /\ pc[p] \in CommitLabels /\ committing' = FALSE
        /\ WakeAllGoto(p, "idle")
        /\ UNCHANGED <<home, loghdr, logblk, cache, lh, outstanding, tail, touched>>
    BY DEF Finish, disks, CommitLabels
  <1>2. /\ ~ Recovering /\ outstanding = 0 /\ OpProcs = {}
        /\ \A q \in Proc : q # p => pc[q] \notin CommitLabels
    BY <1>1, InCommit
  <1>3. /\ lh = <<>> /\ loghdr = <<>>
        /\ \A b \in Block : ~ InSeq(b, lh) => cache[b] = home[b]
    BY <1>1, CommitterKnows DEF IInv, DataInv
  <1>4. /\ pc' \in [Proc -> Labels] /\ pc'[p] = "idle"
        /\ \A q \in Proc : q # p => pc'[q] = pc[q] \/ (pc[q] = "asleep" /\ pc'[q] = "begin")
    BY <1>1 DEF WakeAllGoto, IInv, TypeOK, Labels
  <1>5. TypeOK'
    BY <1>1, <1>4 DEF IInv, TypeOK
  <1>6. \A q \in Proc : pc'[q] \notin CommitLabels \cup RecoverLabels \cup {"down", "op"}
    BY <1>2, <1>4 DEF IInv, RunInv, OpProcs, CommitLabels, RecoverLabels
  <1>7. ~ Recovering' /\ OpProcs' = {}
    BY <1>6, ProcAssumption DEF Recovering, OpProcs
  <1>8. Cardinality(OpProcs') = 0
    BY <1>7, FS_EmptySet
  <1>9. \A q \in Proc : tail'[q] = 1
    BY <1>1, <1>2 DEF IInv, RunInv, CommitLabels, RecoverLabels
  <1>10. RunInv'
    BY <1>1, <1>2, <1>6, <1>7, <1>8, <1>9 DEF RunInv
  <1>11. DataInv'
    BY <1>1, <1>3, <1>6, <1>7, OpenData DEF InSeq
  <1>12. QED
    BY <1>5, <1>10, <1>11 DEF IInv

\* The last call out starts the commit.
LEMMA EndLastStep ==
  ASSUME IInv, NEW p \in Proc, pc[p] = "op",
         outstanding' = outstanding - 1, outstanding' = 0, committing' = TRUE,
         Goto(p, "commit"), touched' \in [Proc -> SUBSET Block],
         UNCHANGED <<home, loghdr, logblk, cache, lh, tail>>
  PROVE  IInv'
  <1>1. outstanding \in Nat /\ ~ committing /\ ~ Recovering
    BY InOp
  <1>2. /\ \A q \in Proc : pc[q] \notin CommitLabels
        /\ loghdr = <<>>
        /\ \A b \in Block : ~ InSeq(b, lh) => cache[b] = home[b]
    BY <1>1, OpenKnows
  <1>3. /\ pc' \in [Proc -> Labels] /\ pc'[p] = "commit"
        /\ \A q \in Proc : q # p => pc'[q] = pc[q]
    BY DEF Goto, IInv, TypeOK, Labels, CommitLabels
  <1>4. TypeOK'
    BY <1>3 DEF IInv, TypeOK
  <1>5. OpProcs' = OpProcs \ {p} /\ p \in OpProcs
    BY <1>3 DEF OpProcs
  <1>6. Cardinality(OpProcs') <= outstanding'
    <2>1. Cardinality(OpProcs') = Cardinality(OpProcs) - 1
      BY <1>5, OpRemove
    <2>2. QED
      BY <1>1, <2>1, OpFinite DEF IInv, RunInv
  <1>7. \A q \in Proc : pc'[q] \notin RecoverLabels \cup {"down"}
    BY <1>1, <1>3 DEF IInv, RunInv, RecoverLabels
  <1>8. ~ Recovering'
    BY <1>7, ProcAssumption DEF Recovering
  <1>9. /\ "commit" \in CommitLabels
        /\ \A q \in Proc : q # p => pc'[q] \notin CommitLabels
    BY <1>2, <1>3 DEF CommitLabels
  <1>10. \A q \in Proc : pc'[q] \notin {"write_log", "install", "recover"} => tail'[q] = 1
    BY <1>3 DEF IInv, RunInv
  <1>11. RunInv'
    BY <1>3, <1>6, <1>7, <1>8, <1>9, <1>10 DEF RunInv
  <1>12. DataInv'
    BY <1>2, <1>3, <1>8, <1>9, CommitterData DEF InSeq
  <1>13. QED
    BY <1>4, <1>11, <1>12 DEF IInv

\* The end of a call.
LEMMA EndOpStep ==
  ASSUME IInv, NEW p \in Proc, EndOp(p)
  PROVE  IInv'
  <1>1. /\ pc[p] = "op" /\ outstanding' = outstanding - 1 /\ ~ committing
        /\ touched' \in [Proc -> SUBSET Block]
        /\ UNCHANGED <<disks, cache, lh, tail>>
    BY InOp DEF EndOp, IInv, TypeOK
  <1>2. CASE outstanding' = 0 /\ committing' = TRUE /\ Goto(p, "commit")
    BY <1>1, <1>2, EndLastStep DEF disks
  <1>3. CASE outstanding' # 0 /\ WakeAllGoto(p, "idle") /\ UNCHANGED committing
    BY <1>1, <1>3, LeaveOpStep
  <1>4. QED
    BY <1>1, <1>2, <1>3 DEF EndOp

\* A block that is logged is at the end of the header, unless it is in it already.
LEMMA LogAppend ==
  ASSUME NEW s \in Seq(Block), NEW b \in Block, ~ InSeq(b, s),
         \A i, j \in 1 .. Len(s) : s[i] = s[j] => i = j
  PROVE  /\ Append(s, b) \in Seq(Block) /\ Len(Append(s, b)) = Len(s) + 1
         /\ InSeq(b, Append(s, b))
         /\ \A a : InSeq(a, s) => InSeq(a, Append(s, b))
         /\ \A i, j \in 1 .. Len(Append(s, b)) : Append(s, b)[i] = Append(s, b)[j] => i = j
  <1> DEFINE t == Append(s, b)
  <1>1. /\ t \in Seq(Block) /\ Len(t) = Len(s) + 1 /\ Len(s) \in Nat
        /\ t[Len(s) + 1] = b /\ \A i \in 1 .. Len(s) : t[i] = s[i]
    OBVIOUS
  <1>2. Len(t) \in 1 .. Len(t) /\ t[Len(t)] = b
    BY <1>1
  <1>3. InSeq(b, t)
    BY <1>2 DEF InSeq
  <1>4. \A a : InSeq(a, s) => InSeq(a, t)
    BY <1>1 DEF InSeq
  <1>5. ASSUME NEW i \in 1 .. Len(t), NEW j \in 1 .. Len(t), t[i] = t[j]
        PROVE  i = j
    <2>1. CASE i \in 1 .. Len(s) /\ j \in 1 .. Len(s)
      BY <1>1, <1>5, <2>1
    <2>2. CASE i = Len(s) + 1 /\ j = Len(s) + 1
      BY <2>2
    <2>3. CASE i = Len(s) + 1 /\ j \in 1 .. Len(s)
      BY <1>1, <1>5, <2>3 DEF InSeq
    <2>4. CASE j = Len(s) + 1 /\ i \in 1 .. Len(s)
      BY <1>1, <1>5, <2>4 DEF InSeq
    <2>5. QED
      BY <1>1, <2>1, <2>2, <2>3, <2>4
  <1>6. QED
    BY <1>1, <1>3, <1>4, <1>5

\* log_write() of a call.
LEMMA LogWriteStep ==
  ASSUME IInv, NEW p \in Proc, NEW b \in Block, NEW v \in Value, LogWrite(p, b, v)
  PROVE  IInv'
  <1>1. pc[p] = "op" /\ UNCHANGED <<disks, outstanding, committing, tail>>
    BY DEF LogWrite
  <1>2. outstanding \in Nat /\ outstanding >= 1 /\ ~ committing /\ ~ Recovering
    BY <1>1, InOp
  <1>3. CASE Goto(p, "panic") /\ UNCHANGED <<cache, lh, touched>>
    <2>1. touched' \in [Proc -> SUBSET Block]
      BY <1>3 DEF IInv, TypeOK
    <2>2. QED
      BY <1>1, <1>3, <2>1, LeaveOpStep
  <1>4. CASE /\ Len(lh) < LOGSIZE
             /\ cache' = [cache EXCEPT ![b] = v]
             /\ lh' = IF InSeq(b, lh) THEN lh ELSE Append(lh, b)
             /\ touched' = [touched EXCEPT ![p] = @ \cup {b}]
             /\ UNCHANGED pc
    <2>1. /\ lh' \in Seq(Block) /\ Len(lh') <= LOGSIZE
          /\ \A i, j \in 1 .. Len(lh') : lh'[i] = lh'[j] => i = j
          /\ InSeq(b, lh') /\ \A a : InSeq(a, lh) => InSeq(a, lh')
      <3>1. CASE InSeq(b, lh)
        BY <1>4, <3>1 DEF IInv, TypeOK
      <3>2. CASE ~ InSeq(b, lh)
        <4>1. /\ lh \in Seq(Block) /\ Len(lh) \in Nat /\ LOGSIZE \in Nat
              /\ lh' = Append(lh, b)
              /\ \A i, j \in 1 .. Len(lh) : lh[i] = lh[j] => i = j
          BY <1>4, <3>2, SizeAssumption DEF IInv, TypeOK
        <4>2. Len(lh') = Len(lh) + 1
          BY <4>1
        <4>3. QED
          BY <1>4, <3>2, <4>1, <4>2, LogAppend
      <3>3. QED
        BY <3>1, <3>2
    <2>2. cache' \in [Block -> Value] /\ touched' \in [Proc -> SUBSET Block]
      BY <1>4 DEF IInv, TypeOK
    <2>3. TypeOK'
      BY <1>1, <1>4, <2>1, <2>2 DEF IInv, TypeOK, disks
    <2>4. RunInv'
      BY <1>1, <1>4 DEF IInv, RunInv, Recovering, OpProcs
    <2>5. /\ \A q \in Proc : pc[q] \notin CommitLabels
          /\ loghdr = <<>>
          /\ \A a \in Block : ~ InSeq(a, lh) => cache[a] = home[a]
      BY <1>2, OpenKnows
    <2>6. ~ Recovering'
      BY <1>2, <1>4 DEF Recovering
    <2>7. \A a \in Block : ~ InSeq(a, lh)' => cache'[a] = home'[a]
      <3>1. SUFFICES ASSUME NEW a \in Block, ~ InSeq(a, lh') PROVE cache'[a] = home[a]
        BY <1>1 DEF disks, InSeq
      <3>2. a # b /\ ~ InSeq(a, lh)
        BY <2>1, <3>1
      <3>3. QED
        BY <1>4, <2>5, <3>2 DEF IInv, TypeOK
    <2>8. DataInv'
      BY <1>1, <1>2, <1>4, <2>5, <2>6, <2>7, OpenData DEF disks
    <2>9. QED
      BY <2>3, <2>4, <2>8 DEF IInv
  <1>5. QED
    <2>1. Len(lh) >= LOGSIZE \/ Len(lh) < LOGSIZE
      BY SizeAssumption DEF IInv, TypeOK
    <2>2. QED
      BY <1>3, <1>4, <2>1 DEF LogWrite

-----------------------------------------------------------------------------
\* A step of recovery: nobody else has been started.
LEMMA RecoveryStep ==
  ASSUME IInv, NEW p \in Proc, pc[p] \in RecoverLabels,
         NEW l \in RecoverLabels, pc' = [pc EXCEPT ![p] = l],
         NEW n \in Nat \ {0}, tail' = [tail EXCEPT ![p] = n], l # "recover" => n = 1,
         UNCHANGED <<outstanding, committing, touched>>
  PROVE  /\ RunInv' /\ Recovering' /\ p = InitProc
         /\ pc' \in [Proc -> Labels] /\ tail' \in [Proc -> Nat \ {0}]
         /\ pc'[InitProc] = l /\ tail'[InitProc] = n
         /\ \A q \in Proc : q # InitProc => pc'[q] = "down"
  <1>1. /\ p = InitProc /\ Recovering /\ ~ committing
        /\ \A q \in Proc : q # p => pc[q] = "down"
    BY InRecovery
  <1>2. pc' \in [Proc -> Labels] /\ tail' \in [Proc -> Nat \ {0}]
    BY DEF IInv, TypeOK, Labels
  <1>3. /\ pc'[p] = l /\ tail'[p] = n
        /\ \A q \in Proc : q # p => pc'[q] = "down" /\ tail'[q] = 1
    BY <1>1 DEF IInv, TypeOK, RunInv
  <1>4. Recovering'
    BY <1>1, <1>3 DEF Recovering
  <1>5. OpProcs' = {}
    BY <1>3 DEF OpProcs, RecoverLabels
  <1>6. Cardinality(OpProcs') = 0
    BY <1>5, FS_EmptySet
  <1>7. \A q \in Proc : pc'[q] \notin CommitLabels
    BY <1>3 DEF CommitLabels, RecoverLabels
  <1>8. \A q \in Proc : pc'[q] \notin {"write_log", "install", "recover"} => tail'[q] = 1
    BY <1>3 DEF RecoverLabels
  <1>9. RunInv'
    BY <1>1, <1>3, <1>4, <1>6, <1>7, <1>8 DEF RunInv, IInv, TypeOK
  <1>10. QED
    BY <1>1, <1>2, <1>3, <1>4, <1>9

\* During recovery, DataInv says only this.
LEMMA RecoveryData ==
  ASSUME Recovering', \A q \in Proc : q # InitProc => pc'[q] = "down", cache' = home',
         (pc[InitProc] # "read_head" => lh = loghdr)',
         (pc[InitProc] = "recover" => Installed(tail[InitProc]))',
         (pc[InitProc] = "recover_clear" => Installed(All))'
  PROVE  DataInv'
  <1>1. \A q \in Proc : pc'[q] \notin CommitLabels
    BY DEF Recovering, RecoverLabels, CommitLabels
  <1>2. QED
    BY <1>1 DEF DataInv, CommitLabels

\* What is known during recovery.
LEMMA RecoveryKnows ==
  ASSUME IInv, NEW p \in Proc, pc[p] \in RecoverLabels
  PROVE  /\ p = InitProc /\ cache = home
         /\ pc[p] # "read_head"    => lh = loghdr
         /\ pc[p] = "recover"       => Installed(tail[p])
         /\ pc[p] = "recover_clear" => Installed(All)
         /\ pc[p] # "recover" => tail = [tail EXCEPT ![p] = 1]
  <1>1. p = InitProc /\ Recovering
    BY InRecovery
  <1>2. pc[p] # "recover" => tail[p] = 1
    BY DEF IInv, RunInv, RecoverLabels
  <1>3. tail \in [Proc -> Nat \ {0}]
    BY DEF IInv, TypeOK
  <1>4. QED
    BY <1>1, <1>2, <1>3 DEF IInv, DataInv

\* Recovery reads the header.
LEMMA ReadHeadStep ==
  ASSUME IInv, NEW p \in Proc, ReadHead(p)
  PROVE  IInv'
  <1>1. /\ pc[p] = "read_head" /\ pc[p] \in RecoverLabels
        /\ lh' = loghdr /\ pc' = [pc EXCEPT ![p] = "recover"]
        /\ UNCHANGED <<home, loghdr, logblk, cache, outstanding, committing, tail, touched>>
    BY DEF ReadHead, Goto, RecoverLabels, disks
  <1>2. cache = home /\ tail' = [tail EXCEPT ![p] = 1]
    BY <1>1, RecoveryKnows
  <1>3. /\ RunInv' /\ Recovering' /\ p = InitProc
        /\ pc' \in [Proc -> Labels] /\ tail' \in [Proc -> Nat \ {0}]
        /\ pc'[InitProc] = "recover" /\ tail'[InitProc] = 1
        /\ \A q \in Proc : q # InitProc => pc'[q] = "down"
    <2>1. 1 \in Nat \ {0} /\ "recover" \in RecoverLabels
      BY DEF RecoverLabels
    <2>2. QED
      BY <1>1, <1>2, <2>1, RecoveryStep
  <1>4. TypeOK'
    BY <1>1, <1>3 DEF IInv, TypeOK
  <1>5. Installed(tail[InitProc])'
    BY <1>3 DEF Installed
  <1>6. DataInv'
    BY <1>1, <1>2, <1>3, <1>5, RecoveryData
  <1>7. QED
    BY <1>3, <1>4, <1>6 DEF IInv

\* install_trans() of recovery, for one block or at its end.
LEMMA RecoverInstallStep ==
  ASSUME IInv, NEW p \in Proc, RecoverInstall(p)
  PROVE  IInv'
  <1> DEFINE t == tail[p]
  <1>1. /\ pc[p] = "recover" /\ pc[p] \in RecoverLabels
        /\ t \in Nat \ {0} /\ Len(lh) \in Nat
        /\ UNCHANGED <<loghdr, logblk, lh, outstanding, committing, touched>>
    BY DEF RecoverInstall, RecoverLabels, IInv, TypeOK
  <1>2. p = InitProc /\ cache = home /\ lh = loghdr /\ Installed(t)
    BY <1>1, RecoveryKnows
  <1>3. CASE t <= Len(lh)
    <2>1. /\ InstallBlock(t) /\ tail' = [tail EXCEPT ![p] = t + 1]
          /\ pc' = [pc EXCEPT ![p] = "recover"]
      BY <1>1, <1>3 DEF RecoverInstall, Installs, IInv, TypeOK
    <2>2. /\ RunInv' /\ Recovering'
          /\ pc' \in [Proc -> Labels] /\ tail' \in [Proc -> Nat \ {0}]
          /\ pc'[InitProc] = "recover" /\ tail'[InitProc] = t + 1
          /\ \A q \in Proc : q # InitProc => pc'[q] = "down"
      <3>1. t + 1 \in Nat \ {0} /\ "recover" \in RecoverLabels
        BY <1>1 DEF RecoverLabels
      <3>2. QED
        BY <1>1, <2>1, <3>1, RecoveryStep
    <2>3. /\ home' \in [Block -> Value] /\ cache' \in [Block -> Value]
          /\ \A i \in 1 .. Len(lh) : i < t + 1 => home'[lh[i]] = logblk[i]
          /\ cache' = home'
      <3>1. t \in 1 .. Len(lh) /\ TypeOK
        BY <1>1, <1>3 DEF IInv
      <3>2. QED
        BY <1>1, <1>2, <2>1, <3>1, InstallOne
    <2>4. TypeOK'
      BY <1>1, <2>2, <2>3 DEF IInv, TypeOK
    <2>5. Installed(tail[InitProc])'
      BY <1>1, <2>2, <2>3 DEF Installed
    <2>6. DataInv'
      BY <1>1, <1>2, <2>2, <2>3, <2>5, RecoveryData
    <2>7. QED
      BY <2>2, <2>4, <2>6 DEF IInv
  <1>4. CASE t > Len(lh)
    <2>1. /\ UNCHANGED <<home, cache>> /\ tail' = [tail EXCEPT ![p] = 1]
          /\ pc' = [pc EXCEPT ![p] = "recover_clear"]
      BY <1>1, <1>4 DEF RecoverInstall, Installs, Goto, LoopDone
    <2>2. /\ RunInv' /\ Recovering'
          /\ pc' \in [Proc -> Labels] /\ tail' \in [Proc -> Nat \ {0}]
          /\ pc'[InitProc] = "recover_clear" /\ tail'[InitProc] = 1
          /\ \A q \in Proc : q # InitProc => pc'[q] = "down"
      <3>1. 1 \in Nat \ {0} /\ "recover_clear" \in RecoverLabels
        BY DEF RecoverLabels
      <3>2. QED
        BY <1>1, <2>1, <3>1, RecoveryStep
    <2>3. TypeOK'
      BY <1>1, <2>1, <2>2 DEF IInv, TypeOK
    <2>4. Installed(All)'
      BY <1>1, <1>2, <1>4, <2>1 DEF Installed, All
    <2>5. DataInv'
      BY <1>1, <1>2, <2>1, <2>2, <2>4, RecoveryData
    <2>6. QED
      BY <2>2, <2>3, <2>5 DEF IInv
  <1>5. QED
    BY <1>1, <1>3, <1>4

\* The end of recovery: the other processes can start.
LEMMA RecoverClearStep ==
  ASSUME IInv, NEW p \in Proc, RecoverClear(p)
  PROVE  IInv'
  <1>1. /\ pc[p] = "recover_clear" /\ pc[p] \in RecoverLabels
        /\ lh' = <<>> /\ loghdr' = <<>> /\ pc' = [q \in Proc |-> "idle"]
        /\ UNCHANGED <<home, logblk, cache, outstanding, committing, tail, touched>>
    BY DEF RecoverClear, RecoverLabels
  <1>2. /\ p = InitProc /\ cache = home /\ ~ committing
        /\ \A q \in Proc : q # p => pc[q] = "down"
    BY <1>1, RecoveryKnows, InRecovery
  <1>3. TypeOK'
    <2>1. lh' \in Seq(Block) /\ Len(lh') = 0 /\ loghdr' \in Seq(Block) /\ Len(loghdr') = 0
      BY <1>1
    <2>2. pc' \in [Proc -> Labels]
      BY <1>1 DEF Labels
    <2>3. QED
      BY <1>1, <2>1, <2>2, SizeAssumption DEF IInv, TypeOK
  <1>4. ~ Recovering' /\ OpProcs' = {}
    BY <1>1, ProcAssumption DEF Recovering, RecoverLabels, OpProcs
  <1>5. Cardinality(OpProcs') = 0
    BY <1>4, FS_EmptySet
  <1>6. \A q \in Proc : pc'[q] \notin CommitLabels \cup RecoverLabels \cup {"down"}
    BY <1>1 DEF CommitLabels, RecoverLabels
  <1>7. \A q \in Proc : tail'[q] = 1
    BY <1>1, <1>2 DEF IInv, RunInv
  <1>8. RunInv'
    BY <1>1, <1>2, <1>4, <1>5, <1>6, <1>7 DEF RunInv, IInv, TypeOK
  <1>9. DataInv'
    BY <1>1, <1>2, <1>4, <1>6, OpenData
  <1>10. QED
    BY <1>3, <1>8, <1>9 DEF IInv

-----------------------------------------------------------------------------
\* The machine has just started: memory agrees with what is at home.
Booted == /\ pc = Booting /\ cache = home /\ committing = FALSE /\ outstanding = 0
          /\ tail = [p \in Proc |-> 1]

\* A state of the machine just started, of the right type, satisfies the invariant.
LEMMA Boot == TypeOK /\ Booted => IInv
  <1> SUFFICES ASSUME TypeOK, Booted PROVE IInv
    OBVIOUS
  <1> USE DEF Booted
  <1>1. /\ pc[InitProc] = "read_head"
        /\ \A q \in Proc : q # InitProc => pc[q] = "down"
    BY ProcAssumption DEF Booting
  <1>2. Recovering
    BY <1>1 DEF Recovering, RecoverLabels
  <1>3. OpProcs = {}
    BY <1>1 DEF OpProcs
  <1>4. Cardinality(OpProcs) = 0
    BY <1>3, FS_EmptySet
  <1>5. \A q \in Proc : pc[q] \notin CommitLabels
    BY <1>1 DEF CommitLabels
  <1>6. RunInv
    BY <1>1, <1>2, <1>4, <1>5 DEF RunInv
  <1>7. DataInv
    BY <1>1, <1>2, <1>5 DEF DataInv, CommitLabels
  <1>8. QED
    BY <1>6, <1>7 DEF IInv

\* The initial states satisfy the invariant.
LEMMA InitInv == Init => IInv
  <1> SUFFICES ASSUME Init PROVE IInv
    OBVIOUS
  <1>1. TypeOK
    <2>1. pc \in [Proc -> Labels]
      BY DEF Init, Booting, Labels, RecoverLabels
    <2>2. lh \in Seq(Block) /\ Len(lh) = 0 /\ loghdr \in Seq(Block) /\ Len(loghdr) = 0
      BY DEF Init
    <2>3. /\ tail \in [Proc -> Nat \ {0}] /\ touched \in [Proc -> SUBSET Block]
          /\ logblk \in [1 .. LOGSIZE -> Value]
      BY DEF Init
    <2>4. /\ home \in [Block -> Value] /\ cache = home /\ outstanding = 0
          /\ committing = FALSE
      BY DEF Init
    <2>5. /\ Len(lh) <= LOGSIZE /\ Len(loghdr) <= LOGSIZE
          /\ \A i, j \in 1 .. Len(lh) : lh[i] = lh[j] => i = j
          /\ \A i, j \in 1 .. Len(loghdr) : loghdr[i] = loghdr[j] => i = j
      BY <2>2, SizeAssumption
    <2>6. QED
      BY <2>1, <2>2, <2>3, <2>4, <2>5 DEF TypeOK
  <1>2. QED
    BY <1>1, Boot DEF Init, Booted

\* A crash at any point leaves a state that recovery can start from.
LEMMA CrashStep ==
  ASSUME IInv, Crash
  PROVE  IInv'
  <1>1. TypeOK'
    <2>1. pc' \in [Proc -> Labels]
      BY DEF Crash, Booting, Labels, RecoverLabels
    <2>2. lh' \in Seq(Block) /\ Len(lh') = 0
      BY DEF Crash
    <2>3. tail' \in [Proc -> Nat \ {0}] /\ touched' \in [Proc -> SUBSET Block]
      BY DEF Crash
    <2>4. /\ home' = home /\ loghdr' = loghdr /\ logblk' = logblk /\ cache' = home
          /\ outstanding' = 0 /\ committing' = FALSE
      BY DEF Crash, disks
    <2>5. /\ Len(lh') <= LOGSIZE
          /\ \A i, j \in 1 .. Len(lh') : lh'[i] = lh'[j] => i = j
      BY <2>2, SizeAssumption
    <2>6. QED
      BY <2>1, <2>2, <2>3, <2>4, <2>5, ZenonT(30) DEF IInv, TypeOK
  <1>2. Booted'
    BY DEF Crash, disks, Booting, Booted
  <1>3. (TypeOK /\ Booted)' => IInv'
    BY Boot, PTL
  <1>4. QED
    BY <1>1, <1>2, <1>3

\* Every step preserves the invariant.
LEMMA NextInv == IInv /\ [Next]_vars => IInv'
  <1> SUFFICES ASSUME IInv, [Next]_vars PROVE IInv'
    OBVIOUS
  <1>1. CASE Crash
    BY <1>1, CrashStep
  <1>2. ASSUME NEW p \in Proc, CallStep(p)
        PROVE  IInv'
    BY <1>2, WaitStep, BeginOpStep, EndOpStep, LogWriteStep DEF CallStep
  <1>3. ASSUME NEW p \in Proc, CommitStep(p)
        PROVE  IInv'
    BY <1>3, CommitStart, WriteLogStep, WriteHeadStep, InstallStep, ClearStep, FinishStep
       DEF CommitStep
  <1>4. ASSUME NEW p \in Proc, RecoverStep(p)
        PROVE  IInv'
    BY <1>4, ReadHeadStep, RecoverInstallStep, RecoverClearStep DEF RecoverStep
  <1>5. CASE UNCHANGED vars
    BY <1>5 DEF IInv, TypeOK, RunInv, DataInv, vars, disks, mems, ctl,
                Recovering, OpProcs, Logged, Installed, All, InSeq
  <1>6. QED
    BY <1>1, <1>2, <1>3, <1>4, <1>5 DEF Next

\* What holds of every reachable state of the log: see RunInv and DataInv.
THEOREM Invariance == Spec => []IInv
  BY InitInv, NextInv, PTL DEF Spec

\* Type correctness; the header in memory and the one on disk fit the log and name
\* no block twice (log_write() absorbs).
THEOREM TypeCorrect == Spec => []TypeOK
  <1>1. IInv => TypeOK
    BY DEF IInv
  <1>2. QED
    BY <1>1, Invariance, PTL

\* When no file-system call is open and no commit runs, nothing is left to install:
\* the blocks in memory are those at home and the header on disk is empty.
THEOREM Durability == Spec => []IdleDurable
  <1>1. IInv => IdleDurable
    <2>1. SUFFICES ASSUME IInv, ~ Recovering, outstanding = 0, ~ committing
                   PROVE  home = cache /\ loghdr = <<>>
      BY DEF IdleDurable
    <2>2. lh = <<>>
      BY <2>1 DEF IInv, DataInv
    <2>3. \A b \in Block : cache[b] = home[b]
      BY <2>1, <2>2, OpenKnows DEF InSeq
    <2>4. home \in [Block -> Value] /\ cache \in [Block -> Value]
      BY <2>1 DEF IInv, TypeOK
    <2>5. QED
      BY <2>1, <2>3, <2>4, OpenKnows
  <1>2. QED
    BY <1>1, Invariance, PTL

\* A sleeper of begin_op() went to sleep because of a commit or of calls in progress:
\* with neither, the log is empty and has room for a call.
LEMMA WakerStep == IInv /\ SleeperHasWaker /\ [Next]_vars => SleeperHasWaker'
  <1> SUFFICES ASSUME IInv, SleeperHasWaker, [Next]_vars,
                      NEW s \in Proc, pc'[s] = "asleep", ~ committing'
               PROVE  outstanding' > 0
    BY DEF SleeperHasWaker
  <1> USE DEF SleeperHasWaker
  <1>1. CASE Crash
    BY <1>1 DEF Crash, Booting
  <1>2. ASSUME NEW p \in Proc, BeginSleep(p)
        PROVE  outstanding' > 0
    <2>1. /\ ~ committing /\ NoSpace /\ outstanding' = outstanding /\ outstanding \in Nat
          /\ pc[p] = "begin"
      BY <1>2 DEF BeginSleep, mems, IInv, TypeOK
    <2>2. ~ Recovering
      BY <2>1 DEF IInv, RunInv, Recovering, RecoverLabels
    <2>3. CASE outstanding = 0
      <3>1. lh = <<>>
        BY <2>1, <2>2, <2>3 DEF IInv, DataInv
      <3>2. Len(lh) = 0
        BY <3>1
      <3>3. QED
        BY <2>1, <2>3, <3>2, SizeAssumption DEF NoSpace
    <2>4. QED
      BY <2>1, <2>3
  <1>3. ASSUME NEW p \in Proc, Call(p) \/ Killed(p) \/ BeginOp(p)
        PROVE  outstanding' > 0
    BY <1>3 DEF Call, Killed, BeginOp, Goto, mems, IInv, TypeOK
  <1>4. ASSUME NEW p \in Proc, EndOp(p)
        PROVE  outstanding' > 0
    <2>1. outstanding \in Nat /\ outstanding >= 1 /\ ~ committing /\ pc[p] = "op"
      BY <1>4, InOp DEF EndOp
    <2>2. QED
      BY <1>4, <2>1 DEF EndOp
  <1>5. ASSUME NEW p \in Proc, NEW b \in Block, NEW v \in Value, LogWrite(p, b, v)
        PROVE  outstanding' > 0
    <2>1. outstanding \in Nat /\ outstanding >= 1 /\ outstanding' = outstanding
      BY <1>5, InOp DEF LogWrite
    <2>2. QED
      BY <2>1
  <1>6. ASSUME NEW p \in Proc, CommitStep(p)
        PROVE  outstanding' > 0
    <2>1. pc[p] \in CommitLabels
      BY <1>6 DEF CommitStep, Commit, WriteLog, WriteHead, InstallTrans, Clear, Finish,
                  CommitLabels
    <2>2. committing
      BY <2>1, InCommit
    <2>3. Finish(p)
      BY <1>6, <2>2 DEF CommitStep, Commit, WriteLog, WriteHead, InstallTrans, Clear, mems
    <2>4. QED
      BY <2>3 DEF Finish, WakeAllGoto, IInv, TypeOK
  <1>7. ASSUME NEW p \in Proc, RecoverStep(p)
        PROVE  outstanding' > 0
    <2>1. pc[p] \in RecoverLabels
      BY <1>7 DEF RecoverStep, ReadHead, RecoverInstall, RecoverClear, RecoverLabels
    <2>2. \A q \in Proc : q # p => pc[q] = "down"
      BY <2>1, InRecovery
    <2>3. QED
      BY <1>7, <2>1, <2>2 DEF RecoverStep, ReadHead, RecoverInstall, RecoverClear, Goto,
                              RecoverLabels, IInv, TypeOK
  <1>8. CASE UNCHANGED vars
    BY <1>8 DEF vars, mems, ctl
  <1>9. QED
    BY <1>1, <1>2, <1>3, <1>4, <1>5, <1>6, <1>7, <1>8 DEF Next, CallStep

\* Whoever sleeps in begin_op() is not forgotten: a commit is running or a call is open,
\* and the end of either wakes it.
THEOREM NoForgottenSleeper == Spec => []SleeperHasWaker
  <1>1. Init => SleeperHasWaker
    BY DEF Init, Booting, SleeperHasWaker
  <1>2. QED
    BY <1>1, WakerStep, Invariance, PTL DEF Spec

-----------------------------------------------------------------------------
\* A step that leaves all three parts of the abstract state alone is a stutter.
LEMMA Stutter ==
  ASSUME Durable' = Durable, Visible' = Visible, OpProcs' = OpProcs
  PROVE  UNCHANGED Atomic!vars
  BY DEF Atomic!vars

\* What is durable is a function from blocks to values.
LEMMA DurableType ==
  ASSUME TypeOK
  PROVE  Durable \in [Block -> Value]
  <1>1. \A b \in Block : InSeq(b, loghdr) =>
          Index(b, loghdr) \in 1 .. Len(loghdr) /\ loghdr[Index(b, loghdr)] = b
    BY DEF InSeq, Index
  <1>2. \A b \in Block : InSeq(b, loghdr) => logblk[Index(b, loghdr)] \in Value
    BY <1>1, SizeAssumption DEF TypeOK
  <1>3. \A b \in Block : home[b] \in Value
    BY DEF TypeOK
  <1>4. QED
    BY <1>2, <1>3 DEF Durable, Overlay

\* A system that starts is an atomic disk that starts.
LEMMA InitRefines == Init => Atomic!Init
  <1> SUFFICES ASSUME Init PROVE Atomic!Init
    OBVIOUS
  <1>1. IInv /\ Recovering
    BY InitInv, ProcAssumption DEF Init, Booting, Recovering, RecoverLabels
  <1>2. Durable \in [Block -> Value] /\ Visible = Durable
    BY <1>1, DurableType DEF IInv, Visible
  <1>3. OpProcs = {}
    BY DEF Init, Booting, OpProcs
  <1>4. QED
    BY <1>2, <1>3 DEF Atomic!Init

\* The steps of a call.
LEMMA CallRefines ==
  ASSUME IInv, IInv', NEW p \in Proc, CallStep(p)
  PROVE  Atomic!Next \/ UNCHANGED Atomic!vars
  <1>1. /\ pc[p] \in {"idle", "begin", "asleep", "op"} /\ UNCHANGED disks
        /\ Durable' = Durable
    BY DEF CallStep, Call, BeginSleep, BeginOp, Killed, EndOp, LogWrite, Durable, disks
  <1>2. ~ Recovering
    BY <1>1 DEF IInv, RunInv, Recovering, RecoverLabels
  <1>3. \E q \in Proc : pc'[q] \in {"begin", "asleep", "op", "idle", "panic", "commit"}
    BY <1>1 DEF CallStep, Call, BeginSleep, BeginOp, Killed, EndOp, LogWrite, Goto,
                WakeAllGoto, IInv, TypeOK
  <1>4. ~ Recovering'
    BY <1>3 DEF IInv, RunInv, Recovering, RecoverLabels
  <1>5. Visible = cache /\ Visible' = cache'
    BY <1>2, <1>4 DEF Visible
  <1>6. CASE Call(p) \/ BeginSleep(p) \/ Killed(p)
    <2>1. cache' = cache /\ OpProcs' = OpProcs
      BY <1>6 DEF Call, BeginSleep, Killed, Goto, mems, OpProcs, IInv, TypeOK
    <2>2. QED
      BY <1>1, <1>5, <2>1, Stutter
  <1>7. CASE BeginOp(p)
    <2>1. cache' = cache /\ OpProcs' = OpProcs \cup {p} /\ p \notin OpProcs
      BY <1>7 DEF BeginOp, Goto, OpProcs, IInv, TypeOK
    <2>2. Atomic!Begin(p)
      BY <1>1, <1>5, <2>1 DEF Atomic!Begin
    <2>3. QED
      BY <2>2 DEF Atomic!Next
  <1>8. CASE EndOp(p)
    <2>1. pc[p] = "op" /\ cache' = cache
      BY <1>8 DEF EndOp
    <2>2. /\ pc'[p] \in {"panic", "commit", "idle"}
          /\ \A q \in Proc : q # p => pc'[q] = "op" <=> pc[q] = "op"
      BY <1>8 DEF EndOp, Goto, WakeAllGoto, IInv, TypeOK
    <2>3. OpProcs' = OpProcs \ {p} /\ p \in OpProcs
      BY <2>1, <2>2 DEF OpProcs
    <2>4. Atomic!End(p)
      BY <1>1, <1>5, <2>1, <2>3 DEF Atomic!End
    <2>5. QED
      BY <2>4 DEF Atomic!Next
  <1>9. ASSUME NEW b \in Block, NEW v \in Value, LogWrite(p, b, v)
        PROVE  Atomic!Next
    <2>1. pc[p] = "op" /\ p \in OpProcs
      BY <1>9 DEF LogWrite, OpProcs
    <2>2. CASE Goto(p, "panic") /\ cache' = cache
      <3>1. OpProcs' = OpProcs \ {p}
        BY <2>2 DEF Goto, OpProcs, IInv, TypeOK
      <3>2. Atomic!End(p)
        BY <1>1, <1>5, <2>1, <2>2, <3>1 DEF Atomic!End
      <3>3. QED
        BY <3>2 DEF Atomic!Next
    <2>3. CASE cache' = [cache EXCEPT ![b] = v] /\ UNCHANGED pc
      <3>1. OpProcs' = OpProcs
        BY <2>3 DEF OpProcs
      <3>2. Atomic!Write(p)
        BY <1>1, <1>5, <2>1, <2>3, <3>1 DEF Atomic!Write
      <3>3. QED
        BY <3>2 DEF Atomic!Next
    <2>4. QED
      BY <1>9, <2>2, <2>3 DEF LogWrite
  <1>10. QED
    BY <1>6, <1>7, <1>8, <1>9 DEF CallStep

\* The steps of a commit: only write_head() changes what is durable, and all at once.
LEMMA CommitRefines ==
  ASSUME IInv, IInv', NEW p \in Proc, CommitStep(p)
  PROVE  Atomic!Next \/ UNCHANGED Atomic!vars
  <1>1. pc[p] \in CommitLabels
    BY DEF CommitStep, Commit, WriteLog, WriteHead, InstallTrans, Clear, Finish, CommitLabels
  <1>2. OpProcs = {} /\ ~ Recovering /\ committing
    BY <1>1, InCommit
  <1>3. /\ \A q \in Proc : pc[q] # "op"
        /\ pc'[p] \in CommitLabels \cup {"idle"}
        /\ \A q \in Proc : q # p => pc'[q] = pc[q] \/ pc'[q] = "begin"
    BY <1>2 DEF OpProcs, CommitStep, Commit, WriteLog, WriteHead, InstallTrans, Clear, Finish,
                Goto, WakeAllGoto, CommitLabels, IInv, TypeOK
  <1>4. OpProcs' = {}
    BY <1>3 DEF OpProcs, CommitLabels
  <1>5. ~ Recovering'
    BY <1>3 DEF IInv, RunInv, Recovering, RecoverLabels, CommitLabels
  <1>6. Visible = cache /\ Visible' = cache'
    BY <1>2, <1>5 DEF Visible
  <1>7. /\ \A b \in Block : ~ InSeq(b, lh) => cache[b] = home[b]
        /\ pc[p] \notin {"install", "clear"} => loghdr = <<>>
    BY <1>1, CommitterKnows
  <1>8. /\ lh \in Seq(Block) /\ home \in [Block -> Value] /\ cache \in [Block -> Value]
        /\ \A i, j \in 1 .. Len(lh) : lh[i] = lh[j] => i = j
        /\ home' \in [Block -> Value]
    BY DEF IInv, TypeOK
  <1>9. CASE Commit(p) \/ Finish(p)
    <2>1. UNCHANGED disks /\ cache' = cache
      BY <1>9 DEF Commit, Finish, mems
    <2>2. Durable' = Durable
      BY <2>1 DEF Durable, disks
    <2>3. QED
      BY <1>2, <1>4, <1>6, <2>1, <2>2, Stutter
  <1>10. CASE WriteLog(p)
    <2>1. loghdr = <<>> /\ loghdr' = <<>> /\ home' = home /\ cache' = cache
      BY <1>7, <1>10 DEF WriteLog, mems
    <2>2. Durable = home /\ Durable' = home
      BY <1>8, <2>1, OverlayEmpty DEF Durable
    <2>3. QED
      BY <1>2, <1>4, <1>6, <2>1, <2>2, Stutter
  <1>11. CASE WriteHead(p)
    <2>1. /\ loghdr' = lh /\ home' = home /\ logblk' = logblk /\ cache' = cache
          /\ pc[p] = "write_head"
      BY <1>11 DEF WriteHead, mems
    <2>2. Logged(All)
      BY <2>1 DEF IInv, DataInv
    <2>3. Durable' = cache
      <3>1. \A b \in Block : ~ InSeq(b, lh) => cache[b] = home[b]
        BY <1>7
      <3>2. Overlay(home, lh, logblk) = cache
        BY <2>2, <3>1, OverlayLogged DEF IInv
      <3>3. QED
        BY <2>1, <3>2 DEF Durable
    <2>4. Atomic!Commit
      BY <1>2, <1>4, <1>6, <2>1, <2>3 DEF Atomic!Commit
    <2>5. QED
      BY <2>4 DEF Atomic!Next
  <1>12. CASE InstallTrans(p)
    <2>1. /\ pc[p] = "install" /\ lh' = lh /\ loghdr' = loghdr /\ logblk' = logblk
          /\ tail[p] \in Nat \ {0}
      BY <1>12 DEF InstallTrans, IInv, TypeOK
    <2>2. loghdr = lh /\ Logged(All) /\ Installed(tail[p])
      BY <2>1 DEF IInv, DataInv
    <2>3. CASE UNCHANGED <<home, cache>>
      <3>1. Durable' = Durable
        BY <2>1, <2>3 DEF Durable
      <3>2. QED
        BY <1>2, <1>4, <1>6, <2>3, <3>1, Stutter
    <2>4. CASE InstallBlock(tail[p]) /\ tail[p] \in 1 .. Len(lh)
      <3>1. /\ cache' = cache
            /\ \A b \in Block : ~ InSeq(b, lh) => home'[b] = home[b]
        BY <2>1, <2>2, <2>4, InstallOne DEF IInv
      <3>2. Overlay(home', lh, logblk) = Overlay(home, lh, logblk)
        BY <3>1, OverlayHome
      <3>3. Durable' = Durable
        BY <2>1, <2>2, <3>2 DEF Durable
      <3>4. QED
        BY <1>2, <1>4, <1>6, <3>1, <3>3, Stutter
    <2>5. QED
      BY <1>8, <1>12, <2>1, <2>3, <2>4 DEF InstallTrans, Installs
  <1>13. CASE Clear(p)
    <2>1. /\ pc[p] = "clear" /\ loghdr' = <<>> /\ home' = home /\ cache' = cache
      BY <1>13 DEF Clear
    <2>2. loghdr = lh /\ Installed(All)
      BY <2>1 DEF IInv, DataInv
    <2>3. \A i \in 1 .. Len(lh) : home[lh[i]] = logblk[i]
      BY <1>8, <2>2 DEF Installed, All
    <2>4. Durable = home
      BY <1>8, <2>2, <2>3, OverlayInstalled, ZenonT(30) DEF Durable
    <2>5. Durable' = home
      BY <1>8, <2>1, OverlayEmpty DEF Durable
    <2>6. QED
      BY <1>2, <1>4, <1>6, <2>1, <2>4, <2>5, Stutter
  <1>14. QED
    BY <1>9, <1>10, <1>11, <1>12, <1>13 DEF CommitStep

\* The steps of recovery change nothing that is durable, and a crash loses only
\* what is not.
LEMMA RecoverRefines ==
  ASSUME IInv, IInv', NEW p \in Proc, RecoverStep(p)
  PROVE  UNCHANGED Atomic!vars
  <1>1. pc[p] \in RecoverLabels
    BY DEF RecoverStep, ReadHead, RecoverInstall, RecoverClear, RecoverLabels
  <1>2. /\ p = InitProc /\ Recovering /\ cache = home
        /\ \A q \in Proc : q # p => pc[q] = "down"
    BY <1>1, InRecovery, RecoveryKnows
  <1>3. OpProcs = {} /\ Visible = Durable
    BY <1>1, <1>2 DEF OpProcs, RecoverLabels, Visible
  <1>4. OpProcs' = {}
    BY <1>1, <1>2 DEF OpProcs, RecoverStep, ReadHead, RecoverInstall, RecoverClear, Goto,
                      RecoverLabels, IInv, TypeOK
  <1>5. /\ loghdr \in Seq(Block) /\ home \in [Block -> Value]
        /\ \A i, j \in 1 .. Len(loghdr) : loghdr[i] = loghdr[j] => i = j
    BY DEF IInv, TypeOK
  <1>6. CASE ReadHead(p)
    <2>1. Durable' = Durable
      BY <1>6 DEF ReadHead, Durable, disks
    <2>2. Recovering'
      BY <1>2, <1>6 DEF ReadHead, Goto, Recovering, RecoverLabels, IInv, TypeOK
    <2>3. QED
      BY <1>3, <1>4, <2>1, <2>2, Stutter DEF Visible
  <1>7. CASE RecoverInstall(p)
    <2>1. /\ pc[p] = "recover" /\ loghdr' = loghdr /\ logblk' = logblk
          /\ tail[p] \in Nat \ {0}
      BY <1>7 DEF RecoverInstall, IInv, TypeOK
    <2>2. lh = loghdr
      BY <1>1, <2>1, RecoveryKnows
    <2>3. Durable' = Durable
      <3>1. CASE home' = home
        BY <2>1, <3>1 DEF Durable
      <3>2. CASE InstallBlock(tail[p]) /\ tail[p] \in 1 .. Len(loghdr)
        <4>1. \A b \in Block : ~ InSeq(b, loghdr) => home'[b] = home[b]
          BY <1>5, <3>2, <2>2 DEF InstallBlock, InSeq
        <4>2. Overlay(home', loghdr, logblk) = Overlay(home, loghdr, logblk)
          BY <4>1, OverlayHome
        <4>3. QED
          BY <2>1, <4>2 DEF Durable
      <3>3. QED
        BY <1>5, <1>7, <2>1, <2>2, <3>1, <3>2 DEF RecoverInstall, Installs
    <2>4. Recovering'
      BY <1>2, <1>7 DEF RecoverInstall, Goto, Recovering, RecoverLabels, IInv, TypeOK
    <2>5. QED
      BY <1>3, <1>4, <2>3, <2>4, Stutter DEF Visible
  <1>8. CASE RecoverClear(p)
    <2>1. /\ pc[p] = "recover_clear" /\ loghdr' = <<>> /\ home' = home /\ cache' = cache
          /\ pc' = [q \in Proc |-> "idle"]
      BY <1>8 DEF RecoverClear
    <2>2. lh = loghdr /\ Installed(All)
      BY <1>1, <2>1, RecoveryKnows
    <2>3. \A i \in 1 .. Len(loghdr) : home[loghdr[i]] = logblk[i]
      BY <1>5, <2>2 DEF Installed, All
    <2>4. Durable = home
      BY <1>5, <2>3, OverlayInstalled DEF Durable
    <2>5. Durable' = home
      BY <1>5, <2>1, OverlayEmpty DEF Durable
    <2>6. Visible' = home
      BY <1>2, <2>1, ProcAssumption DEF Visible, Recovering, RecoverLabels
    <2>7. QED
      BY <1>3, <1>4, <2>4, <2>5, <2>6, Stutter
  <1>9. QED
    BY <1>6, <1>7, <1>8 DEF RecoverStep

\* A crash of the log is a crash of the atomic disk.
LEMMA CrashRefines ==
  ASSUME IInv, Crash
  PROVE  Atomic!Next
  <1>1. Durable' = Durable
    BY DEF Crash, Durable, disks
  <1>2. pc' = Booting
    BY DEF Crash
  <1>3. Recovering' /\ OpProcs' = {}
    BY <1>2, ProcAssumption DEF Booting, Recovering, RecoverLabels, OpProcs
  <1>4. Visible' = Durable
    BY <1>1, <1>3 DEF Visible
  <1>5. Atomic!Crash
    BY <1>1, <1>3, <1>4 DEF Atomic!Crash
  <1>6. QED
    BY <1>5 DEF Atomic!Next

\* Every step of the log is a step of the atomic disk, or none.
LEMMA NextRefines == IInv /\ IInv' /\ [Next]_vars => [Atomic!Next]_(Atomic!vars)
  <1> SUFFICES ASSUME IInv, IInv', [Next]_vars PROVE Atomic!Next \/ UNCHANGED Atomic!vars
    OBVIOUS
  <1>1. CASE UNCHANGED vars
    <2>1. Durable' = Durable /\ Visible' = Visible /\ OpProcs' = OpProcs
      BY <1>1 DEF vars, disks, mems, ctl, Durable, Visible, Recovering, OpProcs
    <2>2. QED
      BY <2>1, Stutter
  <1>2. QED
    BY <1>1, CallRefines, CommitRefines, RecoverRefines, CrashRefines DEF Next

\* The log implements atomic updates: whenever the machine stops, also between two disk
\* writes of a commit or of a recovery, the disk holds what all the calls committed so far
\* have written, and nothing of any other.
THEOREM Refinement == Spec => AtomicUpdates
  <1>1. Init => Atomic!Init
    BY InitRefines
  <1>2. IInv /\ IInv' /\ [Next]_vars => [Atomic!Next]_(Atomic!vars)
    BY NextRefines
  <1>3. QED
    BY <1>1, <1>2, Invariance, PTL DEF Spec, AtomicUpdates, Atomic!Spec

-----------------------------------------------------------------------------
(***************************************************************************)
(* Room in the log.  begin_op() admits a call only if MAXOPBLOCKS blocks   *)
(* fit for it and for every other open call; those that the open calls     *)
(* have written are in the log already, and those that closed ones have    *)
(* not written are given back.  A closed call leaves at least one block    *)
(* unused, and so does one that is open: that makes up for the header,     *)
(* which takes a block of the log area.                                    *)
(***************************************************************************)
\* The sizes of the code: param.h, mkfs.c, and calls that write less than they reserve.
SizesOfTheCode == OpBlocks < MAXOPBLOCKS /\ MAXOPBLOCKS < LOGSIZE /\ LOGSIZE <= NLOG

\* The blocks that the calls of the processes in Q have written, if t is touched.
Wrote(t, Q) == {w \in Q \X Block : w[2] \in t[w[1]]}

\* What is logged, and what the open calls can still add to it.
Promised == Len(lh) + outstanding * MAXOPBLOCKS - Cardinality(Wrote(touched, Proc))

CallInv ==
  \A p \in Proc :
    /\ touched[p] # {} => pc[p] = "op"
    /\ IsFiniteSet(touched[p]) /\ Cardinality(touched[p]) <= OpBlocks
    /\ \A b \in touched[p] : InSeq(b, lh)

\* Any group of calls has written no more than its members may.
WroteInv ==
  \A Q \in SUBSET Proc :
    IsFiniteSet(Wrote(touched, Q)) /\ Cardinality(Wrote(touched, Q)) <= Cardinality(Q) * OpBlocks

PromiseInv ==
  /\ Recovering => outstanding = 0
  /\ outstanding > 0 => Promised <= LOGSIZE
  /\ outstanding = 1 => Promised <= LOGSIZE - 1

RoomInv == NoPanic /\ CallInv /\ WroteInv /\ PromiseInv

\* What a group has written is what p has and what the others have.
LEMMA WroteSplit ==
  ASSUME NEW t \in [Proc -> SUBSET Block], NEW Q \in SUBSET Proc, NEW p \in Q,
         IsFiniteSet(Wrote(t, Q \ {p})), IsFiniteSet(t[p])
  PROVE  /\ IsFiniteSet(Wrote(t, Q))
         /\ Cardinality(Wrote(t, Q)) <= Cardinality(Wrote(t, Q \ {p})) + Cardinality(t[p])
  <1> DEFINE rest == Wrote(t, Q \ {p})
             own  == {p} \X t[p]
  <1>1. Wrote(t, Q) = rest \cup own
    BY DEF Wrote
  <1>2. /\ IsFiniteSet(own) /\ Cardinality(own) = Cardinality(t[p])
        /\ Cardinality(rest) \in Nat /\ Cardinality(t[p]) \in Nat
    <2>1. IsFiniteSet({p}) /\ Cardinality({p}) = 1
      BY FS_Singleton
    <2>2. IsFiniteSet(own) /\ Cardinality(own) = Cardinality({p}) * Cardinality(t[p])
      BY <2>1, FS_Product
    <2>3. Cardinality(rest) \in Nat /\ Cardinality(t[p]) \in Nat
      BY FS_CardinalityType
    <2>4. QED
      BY <2>1, <2>2, <2>3
  <1>3. /\ IsFiniteSet(rest \cup own)
        /\ Cardinality(rest \cup own)
             = Cardinality(rest) + Cardinality(own) - Cardinality(rest \cap own)
    BY <1>2, FS_Union
  <1>4. Cardinality(rest \cap own) \in Nat
    BY <1>2, FS_Subset, FS_CardinalityType
  <1>5. QED
    BY <1>1, <1>2, <1>3, <1>4

\* A group's members, and one of them less.
LEMMA GroupLess ==
  ASSUME NEW Q \in SUBSET Proc
  PROVE  /\ IsFiniteSet(Q) /\ Cardinality(Q) \in Nat
         /\ \A p \in Q : Cardinality(Q \ {p}) = Cardinality(Q) - 1
  BY ProcAssumption, FS_Subset, FS_CardinalityType, FS_RemoveElement

\* What all the open calls have written.
LEMMA WroteAll ==
  ASSUME IInv, RoomInv
  PROVE  LET W == Cardinality(Wrote(touched, Proc)) IN
         /\ IsFiniteSet(Wrote(touched, Proc)) /\ W \in Nat
         /\ outstanding \in Nat /\ W <= outstanding * OpBlocks
  <1>1. Wrote(touched, Proc) = Wrote(touched, OpProcs)
    BY DEF RoomInv, CallInv, Wrote, OpProcs
  <1>2. /\ IsFiniteSet(Wrote(touched, Proc))
        /\ Cardinality(Wrote(touched, Proc)) <= Cardinality(OpProcs) * OpBlocks
    BY <1>1 DEF RoomInv, WroteInv, OpProcs
  <1>3. /\ Cardinality(OpProcs) \in Nat /\ outstanding \in Nat
        /\ Cardinality(OpProcs) <= outstanding
    BY OpFinite DEF IInv, TypeOK, RunInv
  <1>4. Cardinality(OpProcs) * OpBlocks <= outstanding * OpBlocks
    BY <1>3, SizeAssumption
  <1>5. QED
    BY <1>2, <1>3, <1>4, FS_CardinalityType, SizeAssumption

\* log_write() always finds room, also for the header.
LEMMA RoomLeft ==
  ASSUME SizesOfTheCode, IInv, RoomInv, NEW p \in Proc, pc[p] = "op"
  PROVE  Len(lh) < LOGSIZE /\ Len(lh) < NLOG - 1
  <1> DEFINE W == Cardinality(Wrote(touched, Proc))
  <1>1. outstanding \in Nat /\ outstanding >= 1
    BY InOp
  <1>2. W \in Nat /\ W <= outstanding * OpBlocks
    BY WroteAll
  <1>3. outstanding * (OpBlocks + 1) <= outstanding * MAXOPBLOCKS
    BY <1>1, SizeAssumption DEF SizesOfTheCode
  <1>4. outstanding * (OpBlocks + 1) = outstanding * OpBlocks + outstanding
    BY <1>1, SizeAssumption
  <1>5. Len(lh) \in Nat
    BY DEF IInv, TypeOK
  <1>6. Len(lh) + outstanding * MAXOPBLOCKS - W <= IF outstanding = 1 THEN LOGSIZE - 1 ELSE LOGSIZE
    BY <1>1 DEF RoomInv, PromiseInv, Promised
  <1>7. Len(lh) <= LOGSIZE - 2
    <2> DEFINE a == outstanding * MAXOPBLOCKS
               b == outstanding * OpBlocks
    <2>1. a \in Int /\ b \in Int
      BY <1>1, SizeAssumption
    <2>2. b + outstanding <= a /\ W <= b
      BY <1>2, <1>3, <1>4
    <2>3. Len(lh) + a - W <= IF outstanding = 1 THEN LOGSIZE - 1 ELSE LOGSIZE
      BY <1>6
    <2> HIDE DEF a, b, W
    <2>4. QED
      BY <1>1, <1>2, <1>5, <2>1, <2>2, <2>3, SizeAssumption
  <1>8. QED
    BY <1>5, <1>7, SizeAssumption DEF SizesOfTheCode

-----------------------------------------------------------------------------
\* Steps outside log_write() that neither open nor close a call.
LEMMA RoomKept ==
  ASSUME RoomInv, UNCHANGED <<lh, outstanding, touched>>, Recovering' => Recovering,
         \A q \in Proc : pc'[q] # pc[q] => pc[q] # "op" /\ pc'[q] # "panic"
  PROVE  RoomInv'
  <1>1. NoPanic'
    BY DEF RoomInv, NoPanic
  <1>2. CallInv'
    BY DEF RoomInv, CallInv, InSeq
  <1>3. WroteInv'
    BY DEF RoomInv, WroteInv
  <1>4. PromiseInv'
    BY DEF RoomInv, PromiseInv, Promised
  <1>5. QED
    BY <1>1, <1>2, <1>3, <1>4 DEF RoomInv

\* Steps after which no call is open.
LEMMA RoomEmpty ==
  ASSUME outstanding' = 0, touched' \in [Proc -> SUBSET Block],
         \A q \in Proc : touched'[q] = {} /\ pc'[q] # "panic"
  PROVE  RoomInv'
  <1>1. IsFiniteSet({}) /\ Cardinality({}) = 0
    BY FS_EmptySet
  <1>2. CallInv'
    BY <1>1, SizeAssumption DEF CallInv
  <1>3. ASSUME NEW Q \in SUBSET Proc
        PROVE  /\ IsFiniteSet(Wrote(touched', Q))
               /\ Cardinality(Wrote(touched', Q)) <= Cardinality(Q) * OpBlocks
    <2>1. Wrote(touched', Q) = {}
      BY DEF Wrote
    <2>2. Cardinality(Q) * OpBlocks >= 0
      BY GroupLess, SizeAssumption
    <2>3. QED
      BY <1>1, <2>1, <2>2
  <1>4. WroteInv'
    BY <1>3 DEF WroteInv
  <1>5. NoPanic' /\ PromiseInv'
    BY DEF NoPanic, PromiseInv
  <1>6. QED
    BY <1>2, <1>4, <1>5 DEF RoomInv

\* begin_op() admits a call only if there is room for what it may write.
LEMMA BeginOpRoom ==
  ASSUME SizesOfTheCode, IInv, RoomInv, NEW p \in Proc, BeginOp(p)
  PROVE  RoomInv'
  <1> DEFINE W == Cardinality(Wrote(touched, Proc))
  <1>1. /\ ~ committing /\ outstanding' = outstanding + 1 /\ outstanding \in Nat
        /\ Len(lh) + (outstanding + 1) * MAXOPBLOCKS <= LOGSIZE
        /\ lh' = lh /\ touched' = touched /\ Len(lh) \in Nat
        /\ pc[p] = "begin" /\ pc' = [pc EXCEPT ![p] = "op"] /\ pc \in [Proc -> Labels]
    BY SizeAssumption DEF BeginOp, NoSpace, Goto, IInv, TypeOK
  <1>2. W \in Nat
    BY WroteAll
  <1>3. ~ Recovering /\ ~ Recovering'
    BY <1>1 DEF IInv, RunInv, Recovering, RecoverLabels
  <1>4. Promised' = Len(lh) + (outstanding + 1) * MAXOPBLOCKS - W
    BY <1>1 DEF Promised
  <1>5. Promised' <= LOGSIZE
    <2> DEFINE a == (outstanding + 1) * MAXOPBLOCKS
    <2>1. a \in Int
      BY <1>1, SizeAssumption
    <2> HIDE DEF a, W
    <2>2. QED
      BY <1>1, <1>2, <1>4, <2>1, SizeAssumption DEF a
  <1>6. ASSUME outstanding' = 1
        PROVE  Promised' <= LOGSIZE - 1
    <2>1. outstanding = 0
      BY <1>1, <1>6
    <2>2. lh = <<>>
      BY <1>1, <1>3, <2>1 DEF IInv, DataInv
    <2>3. Promised' = MAXOPBLOCKS - W
      BY <1>2, <1>4, <2>1, <2>2, SizeAssumption
    <2>4. QED
      BY <1>2, <2>3, SizeAssumption DEF SizesOfTheCode
  <1>7. NoPanic' /\ CallInv' /\ WroteInv'
    BY <1>1 DEF RoomInv, NoPanic, CallInv, WroteInv, InSeq
  <1>8. QED
    BY <1>1, <1>3, <1>5, <1>6, <1>7 DEF RoomInv, PromiseInv

\* end_op(): the call gives back what it has not written.
LEMMA EndOpRoom ==
  ASSUME SizesOfTheCode, IInv, RoomInv, NEW p \in Proc, EndOp(p)
  PROVE  RoomInv'
  <1> DEFINE W == Cardinality(Wrote(touched, Proc))
             R == Cardinality(Wrote(touched, Proc \ {p}))
  <1>1. /\ pc[p] = "op" /\ outstanding \in Nat /\ outstanding >= 1 /\ ~ committing /\ ~ Recovering
        /\ outstanding' = outstanding - 1 /\ lh' = lh /\ Len(lh) \in Nat
        /\ touched' = [touched EXCEPT ![p] = {}] /\ touched \in [Proc -> SUBSET Block]
        /\ pc \in [Proc -> Labels]
    BY InOp DEF EndOp, IInv, TypeOK
  <1>2. \A q \in Proc : /\ pc'[q] # "panic" /\ pc'[q] \notin RecoverLabels
                        /\ q # p => (pc'[q] = "op" <=> pc[q] = "op")
    <2>1. \A q \in Proc : pc[q] # "panic" /\ pc[q] \notin RecoverLabels
      BY <1>1 DEF RoomInv, NoPanic, IInv, RunInv
    <2>2. QED
      BY <1>1, <2>1 DEF EndOp, Goto, WakeAllGoto, RecoverLabels
  <1>3. \A Q \in SUBSET Proc : Wrote(touched', Q) = Wrote(touched, Q \ {p})
    BY <1>1 DEF Wrote
  <1>4. WroteInv'
    <2>1. ASSUME NEW Q \in SUBSET Proc
          PROVE  /\ IsFiniteSet(Wrote(touched', Q))
                 /\ Cardinality(Wrote(touched', Q)) <= Cardinality(Q) * OpBlocks
      <3>1. /\ IsFiniteSet(Wrote(touched', Q))
            /\ Cardinality(Wrote(touched', Q)) <= Cardinality(Q \ {p}) * OpBlocks
        BY <1>3 DEF RoomInv, WroteInv
      <3>2. CASE p \notin Q
        <4>1. Q \ {p} = Q
          BY <3>2
        <4>2. QED
          BY <3>1, <4>1
      <3>3. CASE p \in Q
        <4>1. /\ Cardinality(Q) \in Nat
              /\ Cardinality(Q \ {p}) = Cardinality(Q) - 1
          BY <3>3, GroupLess
        <4>2. (Cardinality(Q) - 1) * OpBlocks <= Cardinality(Q) * OpBlocks
          BY <4>1, SizeAssumption
        <4>3. Cardinality(Wrote(touched', Q)) \in Nat
          BY <3>1, FS_CardinalityType
        <4>4. (Cardinality(Q) - 1) * OpBlocks \in Int /\ Cardinality(Q) * OpBlocks \in Int
          BY <4>1, SizeAssumption
        <4>5. QED
          BY <3>1, <4>1, <4>2, <4>3, <4>4
      <3>4. QED
        BY <3>2, <3>3
    <2>2. QED
      BY <2>1 DEF WroteInv
  <1>5. CallInv'
    <2>1. IsFiniteSet({}) /\ Cardinality({}) = 0
      BY FS_EmptySet
    <2>2. QED
      BY <1>1, <1>2, <2>1, SizeAssumption DEF RoomInv, CallInv, InSeq
  <1>6. W \in Nat /\ R \in Nat /\ W <= R + OpBlocks
    <2>1. IsFiniteSet(Wrote(touched, Proc)) /\ IsFiniteSet(Wrote(touched, Proc \ {p}))
      BY DEF RoomInv, WroteInv
    <2>2. IsFiniteSet(touched[p]) /\ Cardinality(touched[p]) <= OpBlocks
      BY DEF RoomInv, CallInv
    <2>3. W <= R + Cardinality(touched[p])
      BY <1>1, <2>1, <2>2, WroteSplit
    <2>4. W \in Nat /\ R \in Nat /\ Cardinality(touched[p]) \in Nat
      BY <2>1, <2>2, FS_CardinalityType
    <2> HIDE DEF W, R
    <2>5. QED
      BY <2>2, <2>3, <2>4, SizeAssumption
  <1>7. Promised' <= LOGSIZE - 1
    <2> DEFINE a == outstanding * MAXOPBLOCKS
    <2>1. a \in Int
      BY <1>1, SizeAssumption
    <2>2. (outstanding - 1) * MAXOPBLOCKS = a - MAXOPBLOCKS
      BY <1>1, SizeAssumption
    <2>3. Promised' = Len(lh) + (a - MAXOPBLOCKS) - R
      BY <1>1, <1>3, <2>2 DEF Promised
    <2>4. Len(lh) + a - W <= LOGSIZE
      BY <1>1 DEF RoomInv, PromiseInv, Promised
    <2> HIDE DEF a, W, R
    <2>5. QED
      BY <1>1, <1>6, <2>1, <2>3, <2>4, SizeAssumption DEF SizesOfTheCode
  <1>8. PromiseInv'
    <2>1. Promised' \in Int
      <3>1. (outstanding - 1) * MAXOPBLOCKS \in Int
        BY <1>1, SizeAssumption
      <3>2. Promised' = Len(lh) + (outstanding - 1) * MAXOPBLOCKS - R
        BY <1>1, <1>3 DEF Promised
      <3> HIDE DEF R
      <3>3. QED
        BY <1>1, <1>6, <3>1, <3>2
    <2>2. ~ Recovering'
      BY <1>2, ProcAssumption DEF Recovering
    <2>3. QED
      BY <1>7, <2>1, <2>2, SizeAssumption DEF PromiseInv
  <1>9. QED
    BY <1>2, <1>4, <1>5, <1>8 DEF RoomInv, NoPanic

\* log_write() finds room, and what it adds to the log the call adds to its blocks.
LEMMA LogWriteRoom ==
  ASSUME SizesOfTheCode, IInv, RoomInv, NEW p \in Proc, NEW b \in Block, NEW v \in Value,
         LogWrite(p, b, v)
  PROVE  RoomInv'
  <1> DEFINE W  == Cardinality(Wrote(touched, Proc))
             W1 == Cardinality(Wrote(touched', Proc))
  <1>1. /\ pc[p] = "op" /\ outstanding \in Nat /\ outstanding >= 1 /\ ~ Recovering
        /\ lh \in Seq(Block) /\ Len(lh) \in Nat /\ touched \in [Proc -> SUBSET Block]
        /\ outstanding' = outstanding
        /\ Cardinality(touched[p] \cup {b}) <= OpBlocks
    BY InOp DEF LogWrite, IInv, TypeOK
  <1>2. Len(lh) < LOGSIZE /\ Len(lh) < NLOG - 1
    BY <1>1, RoomLeft
  <1>3. /\ UNCHANGED pc
        /\ lh' = IF InSeq(b, lh) THEN lh ELSE Append(lh, b)
        /\ touched' = [touched EXCEPT ![p] = @ \cup {b}]
    <2>1. ~ (Len(lh) >= LOGSIZE \/ Len(lh) >= NLOG - 1 \/ outstanding < 1)
      BY <1>1, <1>2, SizeAssumption
    <2>2. QED
      BY <2>1 DEF LogWrite
  <1>4. IsFiniteSet(touched[p]) /\ IsFiniteSet(touched'[p]) /\ Cardinality(touched'[p]) <= OpBlocks
    <2>1. touched'[p] = touched[p] \cup {b}
      BY <1>1, <1>3
    <2>2. IsFiniteSet(touched[p])
      BY DEF RoomInv, CallInv
    <2>3. QED
      BY <1>1, <2>1, <2>2, FS_AddElement
  <1>5. CallInv'
    <2>1. InSeq(b, lh') /\ \A d \in Block : InSeq(d, lh) => InSeq(d, lh')
      BY <1>1, <1>3 DEF InSeq
    <2>2. \A q \in Proc \ {p} : touched'[q] = touched[q]
      BY <1>1, <1>3
    <2>3. \A d \in touched'[p] : InSeq(d, lh')
      BY <1>1, <1>3, <2>1 DEF RoomInv, CallInv
    <2>4. \A q \in Proc \ {p} : \A d \in touched'[q] : InSeq(d, lh')
      BY <1>1, <2>1, <2>2 DEF RoomInv, CallInv
    <2>5. QED
      BY <1>1, <1>3, <1>4, <2>2, <2>3, <2>4 DEF RoomInv, CallInv
  <1>6. WroteInv'
    <2>1. ASSUME NEW Q \in SUBSET Proc
          PROVE  /\ IsFiniteSet(Wrote(touched', Q))
                 /\ Cardinality(Wrote(touched', Q)) <= Cardinality(Q) * OpBlocks
      <3>1. CASE p \notin Q
        <4>1. Wrote(touched', Q) = Wrote(touched, Q)
          BY <1>1, <1>3, <3>1 DEF Wrote
        <4>2. QED
          BY <4>1 DEF RoomInv, WroteInv
      <3>2. CASE p \in Q
        <4> DEFINE A == Cardinality(Wrote(touched', Q))
                   B == Cardinality(Wrote(touched, Q \ {p}))
                   n == Cardinality(Q)
        <4>1. Wrote(touched', Q \ {p}) = Wrote(touched, Q \ {p})
          BY <1>1, <1>3 DEF Wrote
        <4>2. IsFiniteSet(Wrote(touched, Q \ {p})) /\ B <= Cardinality(Q \ {p}) * OpBlocks
          BY DEF RoomInv, WroteInv
        <4>3. touched' \in [Proc -> SUBSET Block]
          BY <1>1, <1>3
        <4>4. /\ IsFiniteSet(Wrote(touched', Q))
              /\ A <= B + Cardinality(touched'[p])
          BY <1>4, <3>2, <4>1, <4>2, <4>3, WroteSplit
        <4>5. n \in Nat /\ Cardinality(Q \ {p}) = n - 1
          BY <3>2, GroupLess
        <4>6. A \in Nat /\ B \in Nat /\ Cardinality(touched'[p]) \in Nat
          BY <1>4, <4>2, <4>4, FS_CardinalityType
        <4>7. (n - 1) * OpBlocks = n * OpBlocks - OpBlocks /\ n * OpBlocks \in Int
          <5> HIDE DEF n
          <5>1. QED
            BY <4>5, SizeAssumption
        <4>8. B <= n * OpBlocks - OpBlocks
          BY <4>2, <4>5, <4>7
        <4> DEFINE m == n * OpBlocks
        <4>9. m \in Int /\ B <= m - OpBlocks
          BY <4>7, <4>8
        <4> HIDE DEF A, B, m
        <4>10. A <= m
          BY <1>4, <4>4, <4>6, <4>9, SizeAssumption
        <4>11. QED
          BY <4>4, <4>10 DEF A, m
      <3>3. QED
        BY <3>1, <3>2
    <2>2. QED
      BY <2>1 DEF WroteInv
  <1>7. /\ Len(lh') \in Nat /\ W \in Nat /\ W1 \in Nat
        /\ Len(lh') - W1 <= Len(lh) - W
    <2>1. IsFiniteSet(Wrote(touched, Proc)) /\ W \in Nat
      BY WroteAll
    <2>2. Wrote(touched', Proc) = Wrote(touched, Proc) \cup {<<p, b>>}
      BY <1>1, <1>3 DEF Wrote
    <2>3. CASE b \in touched[p]
      <3>1. lh' = lh
        BY <1>3, <2>3 DEF RoomInv, CallInv
      <3>2. Wrote(touched', Proc) = Wrote(touched, Proc)
        BY <2>2, <2>3 DEF Wrote
      <3>3. QED
        BY <1>1, <2>1, <3>1, <3>2
    <2>4. CASE b \notin touched[p]
      <3>1. Len(lh') \in Nat /\ Len(lh') <= Len(lh) + 1
        BY <1>1, <1>3
      <3>2. <<p, b>> \notin Wrote(touched, Proc)
        BY <2>4 DEF Wrote
      <3>3. W1 = W + 1
        BY <2>1, <2>2, <3>2, FS_AddElement
      <3> HIDE DEF W, W1
      <3>4. QED
        BY <1>1, <2>1, <3>1, <3>3
    <2>5. QED
      BY <2>3, <2>4
  <1>8. Promised' <= Promised /\ Promised \in Int /\ Promised' \in Int
    <2> DEFINE a == outstanding * MAXOPBLOCKS
    <2>1. a \in Int
      BY <1>1, SizeAssumption
    <2>2. Promised = Len(lh) + a - W /\ Promised' = Len(lh') + a - W1
      BY <1>1 DEF Promised
    <2> HIDE DEF a, W, W1
    <2>3. QED
      BY <1>1, <1>7, <2>1, <2>2
  <1>9. PromiseInv'
    <2>1. ~ Recovering'
      BY <1>1, <1>3 DEF Recovering
    <2>2. QED
      BY <1>1, <1>8, <2>1, SizeAssumption DEF RoomInv, PromiseInv
  <1>10. QED
    BY <1>3, <1>5, <1>6, <1>9 DEF RoomInv, NoPanic

\* While a process commits or recovers, no call is open and none has blocks.
LEMMA NoCallRoom ==
  ASSUME IInv, RoomInv, NEW p \in Proc, pc[p] \in CommitLabels \cup RecoverLabels
  PROVE  /\ outstanding = 0 /\ touched \in [Proc -> SUBSET Block]
         /\ \A q \in Proc : touched[q] = {}
  <1>1. outstanding = 0
    BY InCommit, InRecovery DEF RoomInv, PromiseInv
  <1>2. \A q \in Proc : pc[q] # "op"
    BY <1>1, InOp
  <1>3. QED
    BY <1>1, <1>2 DEF RoomInv, CallInv, IInv, TypeOK

\* The steps of commit() and of recovery.
LEMMA NoCallStep ==
  ASSUME IInv, RoomInv, NEW p \in Proc, CommitStep(p) \/ RecoverStep(p)
  PROVE  RoomInv'
  <1>1. pc[p] \in CommitLabels \cup RecoverLabels
    BY DEF CommitStep, RecoverStep, Commit, WriteLog, WriteHead, InstallTrans, Clear, Finish,
           ReadHead, RecoverInstall, RecoverClear, CommitLabels, RecoverLabels
  <1>2. UNCHANGED <<outstanding, touched>>
    BY DEF CommitStep, RecoverStep, Commit, WriteLog, WriteHead, InstallTrans, Clear, Finish,
           ReadHead, RecoverInstall, RecoverClear, mems, ctl
  <1>3. \A q \in Proc : pc'[q] # "panic"
    BY DEF CommitStep, RecoverStep, Commit, WriteLog, WriteHead, InstallTrans, Clear, Finish,
           ReadHead, RecoverInstall, RecoverClear, Goto, WakeAllGoto, RoomInv, NoPanic,
           IInv, TypeOK
  <1>4. QED
    BY <1>1, <1>2, <1>3, NoCallRoom, RoomEmpty

LEMMA NextRoom == SizesOfTheCode /\ IInv /\ RoomInv /\ [Next]_vars => RoomInv'
  <1> SUFFICES ASSUME SizesOfTheCode, IInv, RoomInv, [Next]_vars PROVE RoomInv'
    OBVIOUS
  <1>1. CASE Crash
    <2>1. \A q \in Proc : touched'[q] = {} /\ pc'[q] # "panic"
      BY <1>1 DEF Crash, Booting
    <2>2. outstanding' = 0 /\ touched' \in [Proc -> SUBSET Block]
      BY <1>1 DEF Crash
    <2>3. QED
      BY <2>1, <2>2, RoomEmpty
  <1>2. ASSUME NEW p \in Proc, Call(p) \/ BeginSleep(p) \/ Killed(p)
        PROVE  RoomInv'
    <2>1. /\ UNCHANGED <<lh, outstanding, touched>>
          /\ pc[p] \in {"idle", "begin", "asleep"} /\ pc \in [Proc -> Labels]
          /\ pc' \in {[pc EXCEPT ![p] = "begin"], [pc EXCEPT ![p] = "asleep"]}
      BY <1>2 DEF Call, BeginSleep, Killed, Goto, mems, IInv, TypeOK
    <2>2. /\ Recovering' => Recovering
          /\ \A q \in Proc : pc'[q] # pc[q] => pc[q] # "op" /\ pc'[q] # "panic"
      BY <2>1, ProcAssumption DEF Recovering, RecoverLabels
    <2>3. QED
      BY <2>1, <2>2, RoomKept
  <1>3. ASSUME NEW p \in Proc, CallStep(p)
        PROVE  RoomInv'
    BY <1>2, <1>3, BeginOpRoom, EndOpRoom, LogWriteRoom DEF CallStep
  <1>4. CASE UNCHANGED vars
    BY <1>4, RoomKept DEF vars, mems, ctl, Recovering
  <1>5. QED
    BY <1>1, <1>3, <1>4, NoCallStep DEF Next

LEMMA InitRoom == Init => RoomInv
  <1> SUFFICES ASSUME Init PROVE RoomInv
    OBVIOUS
  <1>1. IsFiniteSet({}) /\ Cardinality({}) = 0
    BY FS_EmptySet
  <1>2. outstanding = 0 /\ touched = [p \in Proc |-> {}] /\ \A p \in Proc : pc[p] # "panic"
    BY DEF Init, Booting
  <1>3. ASSUME NEW Q \in SUBSET Proc
        PROVE  /\ IsFiniteSet(Wrote(touched, Q))
               /\ Cardinality(Wrote(touched, Q)) <= Cardinality(Q) * OpBlocks
    <2>1. Wrote(touched, Q) = {}
      BY <1>2 DEF Wrote
    <2>2. Cardinality(Q) * OpBlocks >= 0
      BY GroupLess, SizeAssumption
    <2>3. QED
      BY <1>1, <2>1, <2>2
  <1>4. QED
    BY <1>1, <1>2, <1>3, SizeAssumption, SMTT(30) DEF RoomInv, NoPanic, CallInv, WroteInv, PromiseInv

\* With the sizes of the code, what begin_op() reserves is enough: log_write() never
\* runs out of log, and nobody is in a call while another commits.
THEOREM ReservationSuffices == SizesOfTheCode => (Spec => []NoPanic)
  <1>1. SUFFICES ASSUME SizesOfTheCode PROVE Spec => []NoPanic
    OBVIOUS
  <1>2. IInv /\ RoomInv /\ [Next]_vars => RoomInv'
    BY <1>1, NextRoom
  <1>3. RoomInv => NoPanic
    BY DEF RoomInv
  <1>4. QED
    BY <1>2, <1>3, InitRoom, Invariance, PTL DEF Spec
=============================================================================
