--------------------------- MODULE FileSysProofs ---------------------------
(***************************************************************************)
(* In FileSys the counts of references are exact and no block or inode is  *)
(* lost, for every number of processes, inodes and blocks, every size of   *)
(* the tables, every set of calls and wherever a crash comes.              *)
(*                                                                         *)
(* The argument.  Neither property is inductive: what iput() frees depends *)
(* on what the other processes are about to do.  IInv says in addition     *)
(*   - Sound, of the image in the cache and of the one on the disk: an     *)
(*     address names a block that no other names and that the bitmap       *)
(*     marks, a free inode names none, and a directory holds inode         *)
(*     numbers up to its size;                                             *)
(*   - Local, of each process by itself: what it has locked, which slots   *)
(*     and descriptors its place in a call relies on, and that it still    *)
(*     holds a reference to each slot that it is going to unlock;          *)
(*   - Named2: two slots in use do not stand for one inode;                *)
(*   - Agree: a valid copy is the inode on the disk, but while its last    *)
(*     user frees it;                                                      *)
(*   - Counted and FilesOK: the counts are exact;                          *)
(*   - Kept: an inode without a name has a slot in use.                    *)
(* A step of p changes inodes that p has locked and counts that p has a    *)
(* part in.  Keeps says that of the table and the image, and what the      *)
(* other processes rely on follows from it (StepKeeps): they have a lock   *)
(* or a reference of their own on it.                                      *)
(***************************************************************************)
EXTENDS FileSys, WellFoundedInduction, FiniteSetTheorems, SequenceTheorems, TLAPS

(* The disk image.                                                         *)
Kinds == {"none", "dir", "file", "dev"}
Names == STRING \cup {"", ".", ".."}
Words == [inum : Int, name : Names]
Block == [0 .. EPB - 1 -> Words]
Dinodes == [type : Kinds, major : Int, nlink : Int, size : Nat, addrs : [0 .. NDIRECT -> Addr]]
Images == [inode : [Inum -> Dinodes], used : SUBSET (1 .. NBLOCKS), data : [1 .. NBLOCKS -> Block]]

\* The places where inode i may name a block: its direct addresses, that of the indirect
\* block, and the words of that block.
Places == 0 .. MAXFILE
AddrAt(D, i, k) == IF k <= NDIRECT THEN D.inode[i].addrs[k]
                   ELSE Indirect(D, D.inode[i])[k - NDIRECT - 1].inum
PlaceOf(bn) == IF bn < NDIRECT THEN bn ELSE bn + 1
DataAt(D, i, bn) == AddrAt(D, i, PlaceOf(bn))

\* Every address is one; no block is named twice; the bitmap marks those that are named;
\* an inode that is free names none.
InRange(D) == \A i \in Inum, k \in Places : AddrAt(D, i, k) \in Addr
Disjoint(D) == \A i, j \in Inum : \A k, l \in Places :
                 AddrAt(D, i, k) # 0 /\ AddrAt(D, i, k) = AddrAt(D, j, l) => i = j /\ k = l
UsedExact(D) == \A b \in 1 .. NBLOCKS : b \in D.used <=> \E i \in Inum, k \in Places : AddrAt(D, i, k) = b
FreeEmpty(D) == \A i \in Inum : D.inode[i].type = "none" => \A k \in Places : AddrAt(D, i, k) = 0
\* A directory has a block for each entry, and its entries hold inode numbers.
DirMapped(D) == \A i \in Inum : D.inode[i].type = "dir" =>
                  \A off \in 0 .. D.inode[i].size - 1 :
                     off \div EPB \in 0 .. MAXFILE - 1 /\ DataAt(D, i, off \div EPB) # 0
DirWords(D) == \A i \in Inum : D.inode[i].type = "dir" =>
                  \A bn \in 0 .. MAXFILE - 1 : DataAt(D, i, bn) # 0 =>
                     \A k \in 0 .. EPB - 1 : D.data[DataAt(D, i, bn)][k].inum \in 0 .. NINODES
Sound(D) == D \in Images /\ InRange(D) /\ Disjoint(D) /\ UsedExact(D) /\ FreeEmpty(D) /\ DirMapped(D) /\ DirWords(D)

(* The tables and the processes.                                           *)
NoCall == [op |-> "none"]
Tokens == {"iput", "decr"}         \* the items that give up a reference
Unlocks == {"invalid", "iunlock"}  \* the items that release a lock
Items == [do : Tokens \cup Unlocks \cup {"end_op"}, slot : 0 .. NINODE]
Pcs == {"user", "none", "exit", "namex", "linkold", "link", "unlinkold", "unlink", "unlinkip", "unlinked",
        "create", "fill", "exists", "made", "open", "chdir", "write", "writemore"}
Control == [pc : Pcs, calls : SUBSET Calls, todo : Seq(Items), call : Calls \cup {NoCall},
            path : Seq(STRING), parent : BOOLEAN, at : 0 .. NINODE, ip : 0 .. NINODE, dp : 0 .. NINODE,
            off : Int, fd : Int, n : Int]
Slots == [inum : 0 .. NINODES, ref : Nat, valid : BOOLEAN, lock : Proc \cup {NoProc}, d : Dinodes]
Files == [type : Kinds, ref : Nat, ip : 0 .. NINODE, readable : BOOLEAN, writable : BOOLEAN, off : Nat]
Types == /\ st \in [Proc -> Control]
         /\ itable \in [Slot -> Slots]
         /\ ftable \in [File -> Files]
         /\ ofile \in [Proc -> [Fd -> 0 .. NFILE]]
         /\ cwd \in [Proc -> 0 .. NINODE]
         /\ inop \subseteq Proc

\* The slots of the items of some kinds.  Each slot to be unlocked is unlocked once, and
\* given up later.
SlotsOf(t, what) == {t[k].slot : k \in {k \in DOMAIN t : t[k].do \in what}}
TodoOK(t) == \A k \in DOMAIN t :
    /\ t[k].do # "end_op" => t[k].slot \in Slot
    /\ t[k].do \in Unlocks => \E l \in DOMAIN t : l > k /\ t[l].do \in Tokens /\ t[l].slot = t[k].slot
    /\ \A l \in DOMAIN t : t[k].do \in Unlocks /\ t[l].do \in Unlocks /\ t[k].slot = t[l].slot => k = l
\* The slots that are locked from one action of a call to the next.
PcLocks(r) == CASE r.pc \in {"unlinkip", "fill"} -> {r.dp}
                [] r.pc \in {"unlinked", "made"} -> {r.ip}
                [] OTHER -> {}
Creates == {"mkdir", "mknod", "open"}
\* The calls that lead to a place.
CallOK(r) ==
    /\ r.pc = "namex" => r.call.op \in IF r.parent THEN Creates \cup {"unlink", "link"} ELSE {"open", "link", "chdir"}
    /\ r.pc = "link" => r.call.op = "link" /\ r.parent
    /\ r.pc = "linkold" => r.call.op = "link" /\ ~ r.parent /\ "path" \in DOMAIN r.call
    /\ r.pc = "namex" => "path" \in DOMAIN r.call
    /\ r.pc \in {"create", "fill", "exists", "made"} => r.call.op \in Creates
    /\ r.pc = "unlinkip" => r.off \in Nat

TypeOf(s) == disk.inode[itable[s].inum].type
\* p has locked what it is going to unlock; what it refers to is there, and of the type
\* that it has found; so are its directory and the file that it writes.
Locked(p) == /\ \A s \in SlotsOf(st[p].todo, Unlocks) : itable[s].lock = p
             /\ \A s \in PcLocks(st[p]) : itable[s].lock = p
             /\ \A s \in PcLocks(st[p]) : s \notin SlotsOf(st[p].todo, Unlocks)
Holding(p) == LET r == st[p] IN
    /\ HoldsAt(r) => r.at \in Slot
    /\ HoldsDp(r) => r.dp \in Slot /\ r.path # <<>> /\ TypeOf(r.dp) = "dir"
    /\ HoldsIp(r) => r.ip \in Slot
    /\ r.pc \in {"fill", "made"} => TypeOf(r.ip) = NewType(r.call)
    /\ r.pc = "unlinked" => TypeOf(r.ip) # "none"
Using(p) == LET r == st[p] IN
    /\ cwd[p] \in Slot <=> r.pc # "none"
    /\ r.pc = "none" => \A fd \in Fd : ofile[p][fd] = 0
    /\ r.pc \in {"write", "writemore"} =>
         r.fd \in Fd /\ ofile[p][r.fd] # 0 /\ ftable[ofile[p][r.fd]].writable
Local(p) == TodoOK(st[p].todo) /\ CallOK(st[p]) /\ Locked(p) /\ Holding(p) /\ Using(p)

\* Nobody has a directory open for writing.
FilesTyped == \A f \in File : ftable[f].ref > 0 =>
    /\ ftable[f].ip \in Slot
    /\ ftable[f].writable => TypeOf(ftable[f].ip) \in {"file", "dev"}
FilesOK == \A f \in File : ftable[f].ref = Total([p \in Proc |-> Cardinality(FdsOf(p, f))])
Counted == \A s \in Slot : itable[s].ref = RefsTo(s)
Named2 == /\ \A s \in Slot : itable[s].ref > 0 => itable[s].inum \in Inum
          /\ \A s, t \in Slot : s # t /\ itable[s].ref > 0 /\ itable[t].ref > 0 => itable[s].inum # itable[t].inum
\* Between the iupdate() of an inode that iput() frees and valid = 0 the copy is stale.
Going(s) == \E p \in Proc : s \in SlotsOf(st[p].todo, {"invalid"})
Steady(s) == itable[s].valid /\ ~ Going(s)
Agree == \A s \in Slot : itable[s].ref > 0 /\ Steady(s) =>
              itable[s].d = disk.inode[itable[s].inum] /\ itable[s].d.type # "none"
\* An inode without a name is valid in the table, or create() is about to load it.
Filling(s) == \E p \in Proc : st[p].pc = "fill" /\ st[p].ip = s
Kept == \A i \in Orphans(disk) \ lost : \E s \in Slot :
           itable[s].ref > 0 /\ itable[s].inum = i /\ (Steady(s) \/ Filling(s))
IInv == /\ Types /\ Sound(disk) /\ Sound(durable) /\ (\A p \in Proc : Local(p))
        /\ FilesTyped /\ FilesOK /\ Counted /\ Named2 /\ Agree /\ Kept

-----------------------------------------------------------------------------
(* Images.                                                                 *)
Less == {pair \in Nat \X Nat : pair[1] < pair[2]}

\* What Min() finds.
LEMMA Smallest ==
  ASSUME NEW S, S \subseteq Nat, S # {}
  PROVE  Min(S) \in S
<1>1. IsWellFoundedOn(Less, Nat)
  BY NatLessThanWellFounded DEF OpToRel, Less
<1>2. \A j, k \in Nat : j < k => <<j, k>> \in Less
  BY DEF Less
<1>3. PICK i \in S : \A j \in S : ~ (<<j, i>> \in Less)
  BY <1>1, WFMin
<1>4. ASSUME NEW j \in S PROVE i <= j
  <2>1. i \in Nat /\ j \in Nat /\ ~ (j < i)
    BY <1>2, <1>3
  <2>2. QED BY <2>1
<1>5. QED
  BY <1>4 DEF Min

\* What the assumptions say of the sizes.
LEMMA Sizes == /\ EPB \in Nat \ {0} /\ NDIRECT \in Nat \ {0} /\ NINODES \in Nat /\ NBLOCKS \in Nat
               /\ NINDIRECT = EPB /\ MAXFILE = NDIRECT + EPB /\ MAXFILE \in Nat
BY FsDiskAssumption DEF NINDIRECT, MAXFILE

\* The block and the place in the block of an offset.
LEMMA Offset ==
  ASSUME NEW off \in Nat
  PROVE  /\ off \div EPB \in Nat /\ off % EPB \in 0 .. EPB - 1
         /\ off < MAXFILE * EPB => off \div EPB \in 0 .. MAXFILE - 1
<1> DEFINE q == off \div EPB
           r == off % EPB
<1>1. q \in Int /\ r \in 0 .. EPB - 1 /\ off = EPB * q + r
  BY Sizes
<1> HIDE DEF q, r
<1>2. q >= 0
  <2>1. SUFFICES ASSUME q <= 0 - 1 PROVE FALSE
    BY <1>1
  <2>2. EPB * q <= 0 - EPB
    BY <1>1, <2>1, Sizes
  <2>3. QED BY <1>1, <2>2, Sizes
<1>3. ASSUME off < MAXFILE * EPB PROVE q <= MAXFILE - 1
  <2>1. SUFFICES ASSUME q >= MAXFILE PROVE FALSE
    BY <1>1, Sizes
  <2>2. EPB * q >= EPB * MAXFILE
    BY <1>1, <2>1, Sizes
  <2>3. QED BY <1>1, <1>3, <2>2, Sizes
<1>4. QED BY <1>1, <1>2, <1>3, Sizes DEF q, r

-----------------------------------------------------------------------------
\* The addresses of an inode are those that its d gives.
LEMMA BlockAtPlace ==
  ASSUME NEW D, NEW i, NEW bn \in 0 .. MAXFILE - 1
  PROVE  PlaceOf(bn) \in Places /\ BlockAt(D, D.inode[i], bn) = DataAt(D, i, bn)
BY Sizes DEF PlaceOf, BlockAt, DataAt, AddrAt, Places

\* Different blocks of a file have different places.
LEMMA PlaceOfInjective ==
  ASSUME NEW bn \in 0 .. MAXFILE - 1
  PROVE  PlaceOf(bn) \in Places /\ PlaceOf(bn) # NDIRECT
         /\ \A b2 \in 0 .. MAXFILE - 1 : PlaceOf(b2) = PlaceOf(bn) => b2 = bn
BY Sizes DEF PlaceOf, Places

\* What iupdate() makes of an image.
LEMMA Updated ==
  ASSUME NEW D \in Images, NEW i \in Inum, NEW d \in Dinodes
  PROVE  /\ Iupdate(D, i, d) \in Images
         /\ Iupdate(D, i, d).used = D.used /\ Iupdate(D, i, d).data = D.data
         /\ Iupdate(D, i, d).inode[i] = d
         /\ \A j \in Inum : j # i => Iupdate(D, i, d).inode[j] = D.inode[j]
         /\ D.inode[i] = d => Iupdate(D, i, d) = D
BY DEF Iupdate, Images

\* The second iupdate() of an inode makes the first one void.
LEMMA UpdatedTwice ==
  ASSUME NEW D \in Images, NEW i \in Inum, NEW d \in Dinodes, NEW e \in Dinodes
  PROVE  Iupdate(Iupdate(D, i, d), i, e) = Iupdate(D, i, e)
BY DEF Iupdate, Images

\* The fields that hold addresses are all that the addresses depend on.
LEMMA SameAddrs ==
  ASSUME NEW D \in Images, NEW E \in Images, NEW i \in Inum, NEW k \in Places,
         D.inode[i].addrs = E.inode[i].addrs,
         D.inode[i].addrs[NDIRECT] # 0 => D.data[D.inode[i].addrs[NDIRECT]] = E.data[D.inode[i].addrs[NDIRECT]]
  PROVE  AddrAt(D, i, k) = AddrAt(E, i, k)
BY Sizes DEF AddrAt, Indirect

\* So an inode whose other fields change keeps the image sound.
LEMMA FieldsSound ==
  ASSUME NEW D, Sound(D), NEW i \in Inum, NEW d \in Dinodes,
         d.addrs = D.inode[i].addrs, d.size = D.inode[i].size, d.type = D.inode[i].type
  PROVE  Sound(Iupdate(D, i, d))
<1> DEFINE E == Iupdate(D, i, d)
<1>1. D \in Images
  BY DEF Sound
<1>2. /\ E \in Images /\ E.used = D.used /\ E.data = D.data
      /\ \A j \in Inum : /\ E.inode[j].addrs = D.inode[j].addrs
                         /\ E.inode[j].size = D.inode[j].size
                         /\ E.inode[j].type = D.inode[j].type
  <2>1. E \in Images /\ E.used = D.used /\ E.data = D.data /\ E.inode[i] = d
    BY <1>1, Updated
  <2>2. \A j \in Inum : j # i => E.inode[j] = D.inode[j]
    BY <1>1, Updated
  <2> HIDE DEF E
  <2>3. QED BY <2>1, <2>2
<1> HIDE DEF E
<1>3. \A j \in Inum, k \in Places : AddrAt(E, j, k) = AddrAt(D, j, k)
  BY <1>1, <1>2, SameAddrs
<1>4. \A j \in Inum, bn \in 0 .. MAXFILE - 1 : DataAt(E, j, bn) = DataAt(D, j, bn)
  BY <1>3, PlaceOfInjective DEF DataAt
<1>5. InRange(E) /\ Disjoint(E) /\ UsedExact(E) /\ FreeEmpty(E)
  BY <1>2, <1>3 DEF Sound, InRange, Disjoint, UsedExact, FreeEmpty
<1>6. DirMapped(E) /\ DirWords(E)
  BY <1>2, <1>4 DEF Sound, DirMapped, DirWords
<1>7. QED BY <1>2, <1>5, <1>6 DEF Sound, E

\* A free block that one address begins to name: the image stays sound.
LEMMA AllocSound ==
  ASSUME NEW D, Sound(D), NEW E \in Images, NEW i \in Inum, NEW k \in Places, NEW b \in 1 .. NBLOCKS,
         b \notin D.used, AddrAt(D, i, k) = 0, D.inode[i].type # "none",
         E.used = D.used \cup {b},
         \A j \in Inum : E.inode[j].type = D.inode[j].type /\ E.inode[j].size = D.inode[j].size,
         \A j \in Inum, l \in Places : AddrAt(E, j, l) = IF j = i /\ l = k THEN b ELSE AddrAt(D, j, l),
         \A w \in 0 .. EPB - 1 : E.data[b][w].inum = 0,
         \A c \in 1 .. NBLOCKS : c # b /\ c # AddrAt(D, i, NDIRECT) => E.data[c] = D.data[c]
  PROVE  Sound(E)
<1>1. D \in Images /\ InRange(D) /\ Disjoint(D) /\ UsedExact(D) /\ FreeEmpty(D) /\ DirMapped(D) /\ DirWords(D)
  BY DEF Sound
<1>2. b # 0 /\ b \in Addr /\ NDIRECT \in Places
  BY Sizes DEF Addr, Places
<1>3. \A j \in Inum, l \in Places : AddrAt(D, j, l) # b
  BY <1>1 DEF UsedExact
<1>4. InRange(E)
  BY <1>1, <1>2 DEF InRange
<1>5. Disjoint(E)
  BY <1>1, <1>2, <1>3 DEF Disjoint
<1>6. UsedExact(E)
  <2>1. ASSUME NEW c \in 1 .. NBLOCKS, c # b
        PROVE  c \in E.used <=> \E j \in Inum, l \in Places : AddrAt(E, j, l) = c
    <3>1. c # 0
      OBVIOUS
    <3>2. c \in E.used <=> \E j \in Inum, l \in Places : AddrAt(D, j, l) = c
      BY <1>1, <2>1 DEF UsedExact
    <3>3. \A j \in Inum, l \in Places : AddrAt(E, j, l) = c <=> AddrAt(D, j, l) = c
      BY <2>1, <3>1
    <3>4. QED BY <3>2, <3>3
  <2>2. b \in E.used /\ AddrAt(E, i, k) = b
    OBVIOUS
  <2>3. QED BY <2>1, <2>2 DEF UsedExact
<1>7. FreeEmpty(E)
  BY <1>1 DEF FreeEmpty
<1>8. \A j \in Inum, bn \in 0 .. MAXFILE - 1 : DataAt(D, j, bn) # 0 => DataAt(E, j, bn) = DataAt(D, j, bn)
  BY PlaceOfInjective DEF DataAt
<1>9. DirMapped(E)
  BY <1>1, <1>8 DEF DirMapped
<1>10. ASSUME NEW j \in Inum, E.inode[j].type = "dir", NEW bn \in 0 .. MAXFILE - 1, DataAt(E, j, bn) # 0,
              NEW w \in 0 .. EPB - 1
       PROVE  E.data[DataAt(E, j, bn)][w].inum \in 0 .. NINODES
  <2>1. CASE DataAt(E, j, bn) = b
    BY <2>1, Sizes
  <2>2. CASE DataAt(E, j, bn) # b
    <3>1. PlaceOf(bn) \in Places /\ PlaceOf(bn) # NDIRECT
      BY PlaceOfInjective
    <3>2. DataAt(D, j, bn) = DataAt(E, j, bn) /\ DataAt(D, j, bn) \in 1 .. NBLOCKS
      BY <1>1, <1>10, <2>2, <3>1, Sizes DEF DataAt, InRange, Addr
    <3>3. DataAt(D, j, bn) # AddrAt(D, i, NDIRECT)
      BY <1>1, <1>2, <1>10, <3>1, <3>2 DEF DataAt, Disjoint
    <3>4. E.data[DataAt(E, j, bn)] = D.data[DataAt(D, j, bn)]
      BY <2>2, <3>2, <3>3
    <3>5. D.data[DataAt(D, j, bn)][w].inum \in 0 .. NINODES
      BY <1>1, <1>10, <3>2 DEF DirWords
    <3>6. QED BY <3>4, <3>5
  <2>3. QED BY <2>1, <2>2
<1>11. DirWords(E)
  BY <1>10 DEF DirWords
<1>12. QED BY <1>4, <1>5, <1>6, <1>7, <1>9, <1>11 DEF Sound

-----------------------------------------------------------------------------
(* Blocks are added: bmap() and writei().                                  *)
\* bmap() for inode i, of which d is what the kernel holds: the image with d
\* written back stays sound, and no other inode changes.
SameKind(e, d) == e.type = d.type /\ e.nlink = d.nlink /\ e.major = d.major
MapsFor(D, i, d, m) == /\ m.disk \in Images /\ m.d \in Dinodes /\ m.disk.inode = D.inode
                       /\ SameKind(m.d, d) /\ m.d.size = d.size
                       /\ Sound(Iupdate(m.disk, i, m.d))

\* A directory entry is a word.
LEMMA WordType ==
  ASSUME NEW i \in Int, NEW name \in Names
  PROVE  Word(i, name) \in Words /\ Word(i, name).inum = i
BY DEF Word, Words

\* A block that balloc() has cleared names nothing.
LEMMA ZeroIsZero == /\ ZeroBlock \in Block /\ \A w \in 0 .. EPB - 1 : ZeroBlock[w].inum = 0
<1>1. "" \in Names
  BY DEF Names
<1>2. 0 \in Int
  OBVIOUS
<1>3. Word(0, "") \in Words /\ Word(0, "").inum = 0
  BY <1>1, <1>2, WordType, Zenon
<1>4. ZeroWord \in Words /\ ZeroWord.inum = 0
  BY <1>3, Zenon DEF ZeroWord
<1>5. ZeroBlock \in Block /\ \A w \in 0 .. EPB - 1 : ZeroBlock[w] = ZeroWord
  BY <1>4 DEF ZeroBlock, Block
<1>6. QED BY <1>4, <1>5

\* balloc() on an image.
LEMMA TakeImage ==
  ASSUME NEW D \in Images, NEW b \in 1 .. NBLOCKS
  PROVE  /\ Take(D, b) \in Images /\ Take(D, b).inode = D.inode /\ Take(D, b).used = D.used \cup {b}
         /\ Take(D, b).data[b] = ZeroBlock
         /\ \A c \in 1 .. NBLOCKS : c # b => Take(D, b).data[c] = D.data[c]
BY ZeroIsZero DEF Take, Images

\* What balloc() finds is free.
LEMMA FreeBlockIsFree ==
  ASSUME NEW D \in Images, FreeBlocks(D) # {}
  PROVE  Min(FreeBlocks(D)) \in (1 .. NBLOCKS) \ D.used
<1>1. FreeBlocks(D) \subseteq Nat
  BY Sizes DEF FreeBlocks
<1>2. Min(FreeBlocks(D)) \in FreeBlocks(D)
  BY <1>1, Smallest
<1>3. QED BY <1>2 DEF FreeBlocks

\* One address of an inode changes.
LEMMA SetAddr ==
  ASSUME NEW d \in Dinodes, NEW n \in 0 .. NDIRECT, NEW b \in Addr
  PROVE  LET e == [d EXCEPT !.addrs[n] = b]
         IN  /\ e \in Dinodes /\ SameKind(e, d) /\ e.size = d.size
             /\ e.addrs[n] = b /\ \A l \in 0 .. NDIRECT : l # n => e.addrs[l] = d.addrs[l]
             /\ d.addrs[n] = b => e = d
<1> DEFINE e == [d EXCEPT !.addrs[n] = b]
<1>1. e \in Dinodes /\ SameKind(e, d) /\ e.size = d.size
  BY DEF Dinodes, SameKind
<1>2. e.addrs[n] = b /\ \A l \in 0 .. NDIRECT : l # n => e.addrs[l] = d.addrs[l]
  BY DEF Dinodes
<1>3. d.addrs[n] = b => e = d
  BY DEF Dinodes
<1>4. QED BY <1>1, <1>2, <1>3

\* bmap() gives a file a direct block, or the indirect one.
LEMMA DirectBlock ==
  ASSUME NEW D \in Images, NEW i \in Inum, NEW d \in Dinodes, Sound(Iupdate(D, i, d)),
         d.type # "none", NEW n \in 0 .. NDIRECT
  PROVE  /\ MapsFor(D, i, d, BmapDirect(D, d, n))
         /\ BmapDirect(D, d, n).addr = BmapDirect(D, d, n).d.addrs[n]
<1> DEFINE m == BmapDirect(D, d, n)
<1>1. CASE d.addrs[n] # 0
  <2>1. m.disk = D /\ m.d = d /\ m.addr = d.addrs[n]
    BY <1>1 DEF BmapDirect, Mapped
  <2> HIDE DEF m
  <2>2. QED BY <2>1 DEF MapsFor, SameKind, m
<1>2. CASE d.addrs[n] = 0 /\ FreeBlocks(D) = {}
  <2> DEFINE e == [d EXCEPT !.addrs[n] = 0]
  <2>1. m.disk = D /\ m.d = e /\ m.addr = 0
    BY <1>2 DEF BmapDirect, Mapped, InInode, Balloc
  <2>2. e = d
    BY <1>2 DEF Dinodes
  <2> HIDE DEF m, e
  <2>3. QED BY <1>2, <2>1, <2>2 DEF MapsFor, SameKind, m
<1>3. CASE d.addrs[n] = 0 /\ FreeBlocks(D) # {}
  <2> DEFINE b == Min(FreeBlocks(D))
             e == [d EXCEPT !.addrs[n] = b]
             F == Take(D, b)
             E0 == Iupdate(D, i, d)
             E == Iupdate(F, i, e)
  <2>1. m.disk = F /\ m.d = e /\ m.addr = b
    BY <1>3 DEF BmapDirect, Mapped, InInode, Balloc
  <2>2. b \in 1 .. NBLOCKS /\ b \notin D.used /\ b \in Addr
    BY <1>3, FreeBlockIsFree DEF Addr
  <2> HIDE DEF b, m
  <2>3. /\ e \in Dinodes /\ SameKind(e, d) /\ e.size = d.size
        /\ e.addrs[n] = b /\ \A l \in 0 .. NDIRECT : l # n => e.addrs[l] = d.addrs[l]
    BY <2>2, SetAddr
  <2>4. /\ F \in Images /\ F.inode = D.inode /\ F.used = D.used \cup {b} /\ F.data[b] = ZeroBlock
        /\ \A c \in 1 .. NBLOCKS : c # b => F.data[c] = D.data[c]
    BY <2>2, TakeImage
  <2> HIDE DEF e, F
  <2>5. /\ E0 \in Images /\ E0.used = D.used /\ E0.data = D.data /\ E0.inode[i] = d
        /\ \A j \in Inum : j # i => E0.inode[j] = D.inode[j]
    BY Updated
  <2>6. /\ E \in Images /\ E.used = F.used /\ E.data = F.data /\ E.inode[i] = e
        /\ \A j \in Inum : j # i => E.inode[j] = F.inode[j]
    BY <2>3, <2>4, Updated
  <2> HIDE DEF E0, E
  <2>7. Sound(E0)
    BY DEF E0
  <2>8. \A j \in Inum, l \in Places : AddrAt(E0, j, l) # b
    BY <2>2, <2>5, <2>7 DEF Sound, UsedExact
  <2>9. n \in Places /\ AddrAt(E0, i, n) = 0 /\ AddrAt(E, i, n) = b /\ NDIRECT \in Places
    BY <1>3, <2>3, <2>5, <2>6, Sizes DEF Places, AddrAt
  <2>10. ASSUME NEW j \in Inum, NEW l \in Places
         PROVE  AddrAt(E, j, l) = IF j = i /\ l = n THEN b ELSE AddrAt(E0, j, l)
    <3>1. ASSUME NEW q \in 0 .. NDIRECT
          PROVE  E.inode[j].addrs[q] = IF j = i /\ q = n THEN b ELSE E0.inode[j].addrs[q]
      BY <2>3, <2>4, <2>5, <2>6
    <3>2. CASE l <= NDIRECT
      BY <3>1, <3>2, Sizes DEF AddrAt, Places
    <3>3. CASE l > NDIRECT
      <4> DEFINE a0 == E0.inode[j].addrs[NDIRECT]
                 a == E.inode[j].addrs[NDIRECT]
      <4>0. l - NDIRECT - 1 \in 0 .. EPB - 1 /\ NDIRECT \in 0 .. NDIRECT /\ l # n
        BY <3>3, Sizes DEF Places
      <4>1. a0 = AddrAt(E0, j, NDIRECT) /\ a0 # b /\ a0 \in Addr
        BY <2>7, <2>8, <2>9, Sizes DEF AddrAt, Sound, InRange
      <4>2. a = IF j = i /\ NDIRECT = n THEN b ELSE a0
        BY <3>1, <4>0
      <4> HIDE DEF a0, a
      <4>3. CASE a = a0
        <5>1. a # 0 => E.data[a] = E0.data[a0]
          BY <2>4, <2>5, <2>6, <4>1, <4>3, Sizes DEF Addr
        <5>2. Indirect(E, E.inode[j]) = Indirect(E0, E0.inode[j])
          BY <4>3, <5>1 DEF Indirect, a, a0
        <5>3. QED BY <3>3, <4>0, <5>2, Sizes DEF AddrAt, Places
      <4>4. CASE a # a0
        <5>1. a = b /\ a0 = 0 /\ j = i
          BY <1>3, <2>5, <4>2, <4>4 DEF a0
        <5>2. Indirect(E, E.inode[j]) = ZeroBlock
          BY <2>2, <2>4, <2>6, <5>1 DEF Indirect, a
        <5>3. Indirect(E0, E0.inode[j]) = ZeroBlock
          BY <5>1 DEF Indirect, a0
        <5>4. QED BY <3>3, <4>0, <5>2, <5>3, Sizes DEF AddrAt, Places
      <4>5. QED BY <4>3, <4>4
    <3>4. QED BY <3>2, <3>3, Sizes DEF Places
  <2>11. \A j \in Inum : E.inode[j].type = E0.inode[j].type /\ E.inode[j].size = E0.inode[j].size
    BY <2>3, <2>4, <2>5, <2>6 DEF SameKind
  <2>12. E.used = E0.used \cup {b} /\ b \notin E0.used /\ E0.inode[i].type # "none"
    BY <2>2, <2>4, <2>5, <2>6
  <2>13. \A w \in 0 .. EPB - 1 : E.data[b][w].inum = 0
    BY <2>4, <2>6, ZeroIsZero
  <2>14. \A c \in 1 .. NBLOCKS : c # b /\ c # AddrAt(E0, i, NDIRECT) => E.data[c] = E0.data[c]
    BY <2>4, <2>5, <2>6
  <2>15. Sound(E)
    BY <2>2, <2>6, <2>7, <2>9, <2>10, <2>11, <2>12, <2>13, <2>14, AllocSound
  <2>16. QED BY <2>1, <2>3, <2>4, <2>15 DEF MapsFor, E, m
<1>4. QED BY <1>1, <1>2, <1>3

\* The first free block becomes word n of the indirect block.
LEMMA IndirectWord ==
  ASSUME NEW D \in Images, NEW i \in Inum, NEW d \in Dinodes, Sound(Iupdate(D, i, d)),
         d.type # "none", NEW n \in 0 .. EPB - 1, d.addrs[NDIRECT] # 0, Indirect(D, d)[n].inum = 0
  PROVE  LET a == InIndirect(Balloc(D, d), d.addrs[NDIRECT], n)
         IN  /\ MapsFor(D, i, d, a)
             /\ a.addr = Indirect(a.disk, a.d)[n].inum
<1> DEFINE a == InIndirect(Balloc(D, d), d.addrs[NDIRECT], n)
<1>1. CASE FreeBlocks(D) = {}
  <2>1. a.disk = D /\ a.d = d /\ a.addr = 0
    BY <1>1 DEF InIndirect, Mapped, Balloc
  <2> HIDE DEF a
  <2>2. MapsFor(D, i, d, a) /\ a.addr = Indirect(a.disk, a.d)[n].inum
    BY <2>1 DEF MapsFor, SameKind
  <2>3. QED BY <2>2 DEF a
<1>2. CASE FreeBlocks(D) # {}
  <2> DEFINE b == Min(FreeBlocks(D))
             c == d.addrs[NDIRECT]
             F == Take(D, b)
             G == [F EXCEPT !.data[c][n].inum = b]
             E0 == Iupdate(D, i, d)
             E == Iupdate(G, i, d)
  <2>1. b \in 1 .. NBLOCKS /\ b \notin D.used /\ b # 0 /\ b \in Int
    BY <1>2, FreeBlockIsFree DEF Addr
  <2>2. a.disk = G /\ a.d = d /\ a.addr = b
    <3>1. Balloc(D, d) = Mapped(F, d, b)
      BY <1>2 DEF Balloc
    <3> HIDE DEF F, b
    <3>2. a = [Mapped(F, d, b) EXCEPT !.disk.data[c][n].inum = b]
      BY <2>1, <3>1 DEF InIndirect, Mapped
    <3> HIDE DEF a, c
    <3>3. QED BY <3>2 DEF Mapped
  <2> HIDE DEF a
  <2>3. /\ E0 \in Images /\ E0.used = D.used /\ E0.data = D.data /\ E0.inode[i] = d
        /\ \A j \in Inum : j # i => E0.inode[j] = D.inode[j]
    BY Updated
  <2>4. Sound(E0)
    OBVIOUS
  <2> HIDE DEF b, E0
  <2>5. \A j \in Inum, l \in Places : AddrAt(E0, j, l) # b
    BY <2>1, <2>3, <2>4 DEF Sound, UsedExact
  <2>6. NDIRECT \in Places /\ NDIRECT \in 0 .. NDIRECT
    BY Sizes DEF Places
  <2>7. c = AddrAt(E0, i, NDIRECT) /\ c # 0 /\ c # b /\ c \in Addr
    <3>1. c = AddrAt(E0, i, NDIRECT)
      BY <2>3, <2>6, Sizes DEF AddrAt
    <3> HIDE DEF c
    <3>2. c \in Addr /\ c # b
      BY <2>4, <2>5, <2>6, <3>1 DEF Sound, InRange
    <3>3. QED BY <3>1, <3>2 DEF c
  <2>8. c \in 1 .. NBLOCKS
    BY <2>7, Sizes DEF Addr
  <2>9. /\ F \in Images /\ F.inode = D.inode /\ F.used = D.used \cup {b} /\ F.data[b] = ZeroBlock
        /\ \A x \in 1 .. NBLOCKS : x # b => F.data[x] = D.data[x]
    BY <2>1, TakeImage
  <2> HIDE DEF F, c
  <2>10. /\ G \in Images /\ G.inode = F.inode /\ G.used = F.used
         /\ \A x \in 1 .. NBLOCKS : x # c => G.data[x] = F.data[x]
         /\ G.data[c][n].inum = b
         /\ \A x \in 0 .. EPB - 1 : x # n => G.data[c][x] = F.data[c][x]
    <3> DEFINE w == [F.data[c][n] EXCEPT !.inum = b]
               v == [F.data[c] EXCEPT ![n] = w]
    <3>1. F.data[c] \in Block
      BY <2>8, <2>9 DEF Images
    <3>2. F.data[c][n] \in Words
      BY <3>1 DEF Block
    <3>3. w \in Words /\ w.inum = b
      BY <2>1, <3>2 DEF Words
    <3>4. G = [F EXCEPT !.data = [F.data EXCEPT ![c] = v]]
      OBVIOUS
    <3> HIDE DEF w
    <3>5. v \in Block /\ v[n] = w /\ \A x \in 0 .. EPB - 1 : x # n => v[x] = F.data[c][x]
      BY <3>1, <3>3 DEF Block
    <3> HIDE DEF v, G
    <3>6. G \in Images /\ G.inode = F.inode /\ G.used = F.used /\ G.data = [F.data EXCEPT ![c] = v]
      BY <2>8, <2>9, <3>4, <3>5 DEF Images
    <3>7. F.data \in [1 .. NBLOCKS -> Block]
      BY <2>9 DEF Images
    <3>8. G.data[c] = v /\ \A x \in 1 .. NBLOCKS : x # c => G.data[x] = F.data[x]
      BY <2>8, <3>6, <3>7
    <3>9. QED BY <3>3, <3>5, <3>6, <3>8
  <2> HIDE DEF G
  <2>11. /\ E \in Images /\ E.used = G.used /\ E.data = G.data /\ E.inode[i] = d
         /\ \A j \in Inum : j # i => E.inode[j] = G.inode[j]
    BY <2>10, Updated
  <2> HIDE DEF E
  <2>12. \A j \in Inum : E.inode[j] = E0.inode[j]
    BY <2>3, <2>9, <2>10, <2>11
  <2> DEFINE k == NDIRECT + 1 + n
  <2>13. k \in Places /\ k > NDIRECT /\ k - NDIRECT - 1 = n
    BY Sizes DEF Places
  <2> HIDE DEF k
  <2>14. ASSUME NEW j \in Inum, NEW l \in Places, l > NDIRECT
         PROVE  AddrAt(E, j, l) = IF j = i /\ l = k THEN b ELSE AddrAt(E0, j, l)
    <3> DEFINE e == E0.inode[j].addrs[NDIRECT]
               x == l - NDIRECT - 1
    <3>1. x \in 0 .. EPB - 1 /\ NDIRECT \in Int /\ (x = n <=> l = k)
      BY <2>13, <2>14, Sizes DEF Places
    <3>2. e = AddrAt(E0, j, NDIRECT) /\ e # b /\ e \in Addr
      BY <2>4, <2>5, <2>6, Sizes DEF AddrAt, Sound, InRange
    <3>3. /\ AddrAt(E, j, l) = Indirect(E, E0.inode[j])[x].inum
          /\ AddrAt(E0, j, l) = Indirect(E0, E0.inode[j])[x].inum
      BY <2>12, <2>14, Sizes DEF AddrAt, Places
    <3> HIDE DEF x
    <3>4. CASE e = 0
      <4>1. j # i
        BY <2>3, <2>7, <3>4 DEF c
      <4>2. QED BY <3>3, <3>4, <4>1 DEF Indirect
    <3>5. CASE e # 0
      <4>1. Indirect(E, E0.inode[j]) = E.data[e] /\ Indirect(E0, E0.inode[j]) = E0.data[e]
        BY <3>5 DEF Indirect
      <4>2. e \in 1 .. NBLOCKS
        BY <3>2, <3>5, Sizes DEF Addr
      <4>3. CASE j = i
        <5>1. e = c
          BY <2>3, <4>3 DEF c
        <5>2. x # n => E.data[e][x] = E0.data[e][x]
          BY <2>3, <2>7, <2>8, <2>9, <2>10, <2>11, <3>1, <5>1
        <5>3. x = n => E.data[e][x].inum = b
          BY <2>10, <2>11, <5>1
        <5>4. QED BY <3>1, <3>3, <4>1, <4>3, <5>2, <5>3
      <4>4. CASE j # i
        <5>1. e # c
          BY <2>4, <2>6, <2>7, <3>2, <3>5, <4>4 DEF Sound, Disjoint
        <5>2. E.data[e] = E0.data[e]
          BY <2>3, <2>9, <2>10, <2>11, <3>2, <4>2, <5>1
        <5>3. QED BY <3>3, <4>1, <4>4, <5>2
      <4>5. QED BY <4>3, <4>4
    <3>6. QED BY <3>4, <3>5
  <2>15. \A j \in Inum, l \in Places : AddrAt(E, j, l) = IF j = i /\ l = k THEN b ELSE AddrAt(E0, j, l)
    <3>1. ASSUME NEW j \in Inum, NEW l \in Places, l <= NDIRECT
          PROVE  AddrAt(E, j, l) = AddrAt(E0, j, l) /\ l # k
      BY <2>12, <2>13, <3>1, Sizes DEF AddrAt, Places
    <3>2. \A l \in Places : l <= NDIRECT \/ l > NDIRECT
      BY Sizes DEF Places
    <3>3. QED BY <2>14, <3>1, <3>2
  <2>16. AddrAt(E0, i, k) = 0
    <3>1. Indirect(E0, d) = Indirect(D, d)
      BY <2>3 DEF Indirect
    <3>2. AddrAt(E0, i, k) = Indirect(E0, d)[n].inum
      BY <2>3, <2>13, Sizes DEF AddrAt, Places
    <3>3. QED BY <3>1, <3>2
  <2>17. E.used = E0.used \cup {b} /\ b \notin E0.used /\ E0.inode[i].type # "none"
    BY <2>1, <2>3, <2>9, <2>10, <2>11
  <2>18. \A x \in 0 .. EPB - 1 : E.data[b][x].inum = 0
    BY <2>1, <2>7, <2>9, <2>10, <2>11, ZeroIsZero
  <2>19. \A x \in 1 .. NBLOCKS : x # b /\ x # AddrAt(E0, i, NDIRECT) => E.data[x] = E0.data[x]
    BY <2>3, <2>7, <2>9, <2>10, <2>11
  <2>20. Sound(E)
    BY <2>1, <2>4, <2>11, <2>12, <2>13, <2>15, <2>16, <2>17, <2>18, <2>19, AllocSound
  <2>21. MapsFor(D, i, d, a)
    BY <2>2, <2>9, <2>10, <2>20 DEF MapsFor, SameKind, E
  <2>22. Indirect(a.disk, a.d)[n].inum = b
    BY <2>2, <2>7, <2>10 DEF Indirect, c
  <2>23. MapsFor(D, i, d, a) /\ a.addr = Indirect(a.disk, a.d)[n].inum
    BY <2>2, <2>21, <2>22
  <2>24. QED BY <2>23 DEF a
<1>3. QED BY <1>1, <1>2

\* bmap(), over all its branches.
LEMMA BmapSound ==
  ASSUME NEW D \in Images, NEW i \in Inum, NEW d \in Dinodes, Sound(Iupdate(D, i, d)),
         d.type # "none", NEW bn \in 0 .. MAXFILE - 1
  PROVE  LET m == Bmap(D, d, bn)
         IN  /\ MapsFor(D, i, d, m)
             /\ m.addr = DataAt(Iupdate(m.disk, i, m.d), i, bn)
<1> DEFINE m == Bmap(D, d, bn)
<1> SUFFICES MapsFor(D, i, d, m) /\ m.addr = DataAt(Iupdate(m.disk, i, m.d), i, bn)
  OBVIOUS
<1>0. ASSUME NEW F \in Images, NEW e \in Dinodes
      PROVE  /\ bn < NDIRECT => DataAt(Iupdate(F, i, e), i, bn) = e.addrs[bn]
             /\ ~ (bn < NDIRECT) => DataAt(Iupdate(F, i, e), i, bn) = Indirect(F, e)[bn - NDIRECT].inum
  <2> DEFINE E == Iupdate(F, i, e)
  <2>1. E.inode[i] = e /\ E.data = F.data
    BY Updated
  <2> HIDE DEF E
  <2>2. Indirect(E, e) = Indirect(F, e)
    BY <2>1 DEF Indirect
  <2>3. DataAt(E, i, bn) = IF bn < NDIRECT THEN e.addrs[bn] ELSE Indirect(F, e)[bn - NDIRECT].inum
    BY <2>1, <2>2, Sizes DEF DataAt, AddrAt, PlaceOf
  <2>4. QED BY <2>3 DEF E
<1>1. CASE bn < NDIRECT
  <2>1. m = BmapDirect(D, d, bn) /\ bn \in 0 .. NDIRECT
    BY <1>1, Sizes DEF Bmap
  <2> HIDE DEF m
  <2>2. MapsFor(D, i, d, m) /\ m.addr = m.d.addrs[bn]
    BY <2>1, DirectBlock
  <2>3. m.disk \in Images /\ m.d \in Dinodes
    BY <2>2 DEF MapsFor
  <2>4. QED BY <1>0, <1>1, <2>2, <2>3
<1>2. CASE ~ (bn < NDIRECT)
  <2> DEFINE x == BmapDirect(D, d, NDIRECT)
             n == bn - NDIRECT
  <2>1. m = BmapIndirect(x, n) /\ n \in 0 .. EPB - 1 /\ NDIRECT \in 0 .. NDIRECT
    BY <1>2, Sizes DEF Bmap
  <2> HIDE DEF x
  <2>2. MapsFor(D, i, d, x) /\ x.addr = x.d.addrs[NDIRECT]
    BY <2>1, DirectBlock DEF x
  <2>3. /\ x.disk \in Images /\ x.d \in Dinodes /\ x.disk.inode = D.inode
        /\ Sound(Iupdate(x.disk, i, x.d)) /\ SameKind(x.d, d) /\ x.d.size = d.size
    BY <2>2 DEF MapsFor
  <2>4. CASE x.addr = 0
    <3>1. m = x
      BY <2>1, <2>4 DEF BmapIndirect
    <3> HIDE DEF m, n
    <3>2. Indirect(x.disk, x.d)[n].inum = 0
      BY <2>1, <2>2, <2>4, ZeroIsZero DEF Indirect
    <3>3. DataAt(Iupdate(x.disk, i, x.d), i, bn) = Indirect(x.disk, x.d)[n].inum
      BY <1>0, <1>2, <2>3 DEF n
    <3>4. QED BY <2>2, <2>4, <3>1, <3>2, <3>3
  <2>5. CASE x.addr # 0 /\ Indirect(x.disk, x.d)[n].inum # 0
    <3>1. m = Mapped(x.disk, x.d, Indirect(x.disk, x.d)[n].inum)
      BY <2>1, <2>5 DEF BmapIndirect
    <3> HIDE DEF m, n
    <3>2. m.disk = x.disk /\ m.d = x.d /\ m.addr = Indirect(x.disk, x.d)[n].inum
      BY <3>1 DEF Mapped
    <3>3. DataAt(Iupdate(x.disk, i, x.d), i, bn) = Indirect(x.disk, x.d)[n].inum
      BY <1>0, <1>2, <2>3 DEF n
    <3>4. MapsFor(D, i, d, m)
      BY <2>2, <3>2 DEF MapsFor
    <3>5. QED BY <3>2, <3>3, <3>4
  <2>6. CASE x.addr # 0 /\ Indirect(x.disk, x.d)[n].inum = 0
    <3>1. m = InIndirect(Balloc(x.disk, x.d), x.addr, n)
      BY <2>1, <2>6 DEF BmapIndirect
    <3> HIDE DEF m, n
    <3>2. x.d.type # "none"
      BY <2>3 DEF SameKind
    <3>3. m = InIndirect(Balloc(x.disk, x.d), x.d.addrs[NDIRECT], n)
      BY <2>2, <3>1
    <3>4. MapsFor(x.disk, i, x.d, m) /\ m.addr = Indirect(m.disk, m.d)[n].inum
      BY <2>1, <2>2, <2>3, <2>6, <3>2, <3>3, IndirectWord
    <3>5. MapsFor(D, i, d, m) /\ m.disk \in Images /\ m.d \in Dinodes
      BY <2>3, <3>4 DEF MapsFor, SameKind
    <3>6. DataAt(Iupdate(m.disk, i, m.d), i, bn) = Indirect(m.disk, m.d)[n].inum
      BY <1>0, <1>2, <3>5 DEF n
    <3>7. QED BY <3>4, <3>5, <3>6
  <2>7. QED BY <2>4, <2>5, <2>6
<1>3. QED BY <1>1, <1>2

\* New words in a block of data, and a size that grows over blocks that are there.
LEMMA DataSound ==
  ASSUME NEW D, Sound(D), NEW E \in Images, NEW i \in Inum, NEW bn \in 0 .. MAXFILE - 1,
         DataAt(D, i, bn) # 0, E.used = D.used,
         \A j \in Inum : E.inode[j].addrs = D.inode[j].addrs /\ E.inode[j].type = D.inode[j].type,
         \A j \in Inum : j # i => E.inode[j].size = D.inode[j].size,
         \A c \in 1 .. NBLOCKS : c # DataAt(D, i, bn) => E.data[c] = D.data[c],
         D.inode[i].type = "dir" =>
           /\ \A off \in 0 .. E.inode[i].size - 1 : off \in 0 .. D.inode[i].size - 1 \/ off \div EPB = bn
           /\ \A w \in 0 .. EPB - 1 : \/ E.data[DataAt(D, i, bn)][w].inum \in 0 .. NINODES
                                      \/ E.data[DataAt(D, i, bn)][w] = D.data[DataAt(D, i, bn)][w]
  PROVE  Sound(E)
<1>1. D \in Images /\ InRange(D) /\ Disjoint(D) /\ UsedExact(D) /\ FreeEmpty(D) /\ DirMapped(D) /\ DirWords(D)
  BY DEF Sound
<1> DEFINE a == DataAt(D, i, bn)
<1>2. /\ NDIRECT \in Places /\ PlaceOf(bn) \in Places /\ PlaceOf(bn) # NDIRECT
      /\ NDIRECT <= NDIRECT
  BY PlaceOfInjective, Sizes DEF Places
<1>3. a = AddrAt(D, i, PlaceOf(bn)) /\ a \in Addr /\ a # 0
  BY <1>1, <1>2 DEF InRange, DataAt
<1> HIDE DEF a
<1>4. ASSUME NEW j \in Inum, D.inode[j].addrs[NDIRECT] # 0
      PROVE  D.data[D.inode[j].addrs[NDIRECT]] = E.data[D.inode[j].addrs[NDIRECT]]
  <2>1. D.inode[j].addrs[NDIRECT] = AddrAt(D, j, NDIRECT)
    BY <1>2 DEF AddrAt
  <2>2. AddrAt(D, j, NDIRECT) # a /\ AddrAt(D, j, NDIRECT) \in Addr
    BY <1>1, <1>2, <1>3, <1>4, <2>1 DEF Disjoint, InRange
  <2>3. D.inode[j].addrs[NDIRECT] \in 1 .. NBLOCKS
    BY <1>4, <2>1, <2>2, Sizes DEF Addr
  <2>4. QED BY <2>1, <2>2, <2>3 DEF a
<1>5. \A j \in Inum, k \in Places : AddrAt(E, j, k) = AddrAt(D, j, k)
  <2>1. ASSUME NEW j \in Inum, NEW k \in Places PROVE AddrAt(D, j, k) = AddrAt(E, j, k)
    BY <1>1, <1>4, SameAddrs
  <2>2. QED BY <2>1
<1>6. \A j \in Inum, b \in 0 .. MAXFILE - 1 : DataAt(E, j, b) = DataAt(D, j, b)
  BY <1>5, PlaceOfInjective DEF DataAt
<1>7. InRange(E) /\ Disjoint(E) /\ UsedExact(E) /\ FreeEmpty(E)
  BY <1>1, <1>5 DEF InRange, Disjoint, UsedExact, FreeEmpty
<1>8. ASSUME NEW j \in Inum, E.inode[j].type = "dir", NEW off \in 0 .. E.inode[j].size - 1
      PROVE  off \div EPB \in 0 .. MAXFILE - 1 /\ DataAt(E, j, off \div EPB) # 0
  <2>1. CASE off \in 0 .. D.inode[j].size - 1
    BY <1>1, <1>6, <1>8, <2>1 DEF DirMapped
  <2>2. CASE ~ (off \in 0 .. D.inode[j].size - 1)
    <3>1. j = i /\ off \div EPB = bn
      BY <1>8, <2>2
    <3>2. QED BY <1>6, <3>1
  <2>3. QED BY <2>1, <2>2
<1>9. ASSUME NEW j \in Inum, E.inode[j].type = "dir", NEW b \in 0 .. MAXFILE - 1, DataAt(E, j, b) # 0,
             NEW w \in 0 .. EPB - 1
      PROVE  E.data[DataAt(E, j, b)][w].inum \in 0 .. NINODES
  <2>1. D.data[DataAt(D, j, b)][w].inum \in 0 .. NINODES /\ DataAt(D, j, b) # 0
    BY <1>1, <1>6, <1>9 DEF DirWords
  <2>2. PlaceOf(b) \in Places /\ DataAt(D, j, b) \in 1 .. NBLOCKS
    BY <1>1, <2>1, PlaceOfInjective, Sizes DEF DataAt, InRange, Addr
  <2>3. CASE DataAt(D, j, b) # a
    BY <1>6, <2>1, <2>2, <2>3 DEF a
  <2>4. CASE DataAt(D, j, b) = a
    <3>1. j = i
      BY <1>1, <1>2, <1>3, <2>2, <2>4 DEF DataAt, Disjoint
    <3>2. QED BY <1>6, <1>9, <2>1, <2>4, <3>1 DEF a
  <2>5. QED BY <2>3, <2>4
<1>10. DirMapped(E) /\ DirWords(E)
  BY <1>8, <1>9 DEF DirMapped, DirWords
<1>11. QED BY <1>7, <1>10 DEF Sound

\* What writei() and all that is built of it make of an image: it stays sound, the
\* inode on it is the one that the kernel holds, and no other inode is changed.
Wrote(D, i, d, r) == /\ Sound(r.disk) /\ r.d \in Dinodes /\ SameKind(r.d, d)
                     /\ r.disk.inode[i] = r.d
                     /\ \A j \in Inum : j # i => r.disk.inode[j] = D.inode[j]

\* writei() within one block.
LEMMA StoreSound ==
  ASSUME NEW D \in Images, NEW i \in Inum, NEW d \in Dinodes, NEW m, MapsFor(D, i, d, m),
         NEW off \in Nat, off <= d.size, off \div EPB \in 0 .. MAXFILE - 1,
         m.addr = DataAt(Iupdate(m.disk, i, m.d), i, off \div EPB),
         NEW words, \A x \in DOMAIN words : words[x] \in Words,
         Cardinality(DOMAIN words) \in Nat \ {0},
         d.type = "dir" => /\ Cardinality(DOMAIN words) = 1
                           /\ \A x \in DOMAIN words : words[x].inum \in 0 .. NINODES
  PROVE  Wrote(D, i, d, Store(m, i, off, words))
<1> DEFINE r == Store(m, i, off, words)
           E0 == Iupdate(m.disk, i, m.d)
           N == Cardinality(DOMAIN words)
           bn == off \div EPB
<1>1. /\ m.disk \in Images /\ m.d \in Dinodes /\ m.disk.inode = D.inode
      /\ SameKind(m.d, d) /\ m.d.size = d.size /\ Sound(E0)
  BY DEF MapsFor
<1>2. /\ E0 \in Images /\ E0.used = m.disk.used /\ E0.data = m.disk.data /\ E0.inode[i] = m.d
      /\ \A j \in Inum : j # i => E0.inode[j] = m.disk.inode[j]
  BY <1>1, Updated
<1>3. CASE m.addr = 0
  <2>1. r.disk = E0 /\ r.d = m.d
    BY <1>3 DEF Store, Result
  <2> HIDE DEF r, E0
  <2>2. QED BY <1>1, <1>2, <2>1 DEF Wrote, r
<1>4. CASE m.addr # 0
  <2> DEFINE a == m.addr
             v == Put(m.disk.data[a], off % EPB, words)
             G == [m.disk EXCEPT !.data[a] = v]
             e == Grown(m.d, off + N)
             E == Iupdate(G, i, e)
  <2>1. r.disk = E /\ r.d = e
    BY <1>4 DEF Store, Result
  <2> HIDE DEF r, E0
  <2>2. a = DataAt(E0, i, bn) /\ a \in 1 .. NBLOCKS
    <3>1. a = DataAt(E0, i, bn) /\ PlaceOf(bn) \in Places
      BY PlaceOfInjective DEF E0
    <3>2. a \in Addr
      BY <1>1, <3>1 DEF Sound, InRange, DataAt
    <3>3. QED BY <1>4, <3>1, <3>2, Sizes DEF Addr
  <2>3. /\ v \in Block
        /\ d.type = "dir" => \A w \in 0 .. EPB - 1 : v[w].inum \in 0 .. NINODES \/ v[w] = m.disk.data[a][w]
    <3> DEFINE old == m.disk.data[a]
               o == off % EPB
    <3>1. old \in Block
      BY <1>1, <2>2 DEF Images
    <3> HIDE DEF old, o, a
    <3>2. \A w \in 0 .. EPB - 1 : old[w] \in Words
      BY <3>1 DEF Block
    <3>3. v = [k \in 0 .. EPB - 1 |-> IF k - o \in DOMAIN words THEN words[k - o] ELSE old[k]]
      BY DEF Put, o, old
    <3> HIDE DEF v
    <3>4. v \in Block
      BY <3>2, <3>3 DEF Block
    <3>5. ASSUME d.type = "dir", NEW w \in 0 .. EPB - 1
          PROVE  v[w].inum \in 0 .. NINODES \/ v[w] = old[w]
      BY <3>3, <3>5
    <3>6. QED BY <3>4, <3>5 DEF old
  <2> HIDE DEF v, a
  <2>4. /\ G \in Images /\ G.inode = D.inode /\ G.used = m.disk.used /\ G.data[a] = v
        /\ \A c \in 1 .. NBLOCKS : c # a => G.data[c] = m.disk.data[c]
    BY <1>1, <2>2, <2>3 DEF Images
  <2>5. /\ e \in Dinodes /\ SameKind(e, d) /\ e.addrs = m.d.addrs
        /\ e.size = IF off + N > d.size THEN off + N ELSE d.size
    BY <1>1 DEF Grown, Dinodes, SameKind
  <2> HIDE DEF G, e
  <2>6. /\ E \in Images /\ E.used = G.used /\ E.data = G.data /\ E.inode[i] = e
        /\ \A j \in Inum : j # i => E.inode[j] = G.inode[j]
    BY <2>4, <2>5, Updated
  <2> HIDE DEF E
  <2>7. DataAt(E0, i, bn) # 0 /\ E.used = E0.used
    BY <1>2, <1>4, <2>2, <2>4, <2>6 DEF a
  <2>8. \A j \in Inum : E.inode[j].addrs = E0.inode[j].addrs /\ E.inode[j].type = E0.inode[j].type
    BY <1>1, <1>2, <2>4, <2>5, <2>6 DEF SameKind
  <2>9. \A j \in Inum : j # i => E.inode[j].size = E0.inode[j].size
    BY <1>1, <1>2, <2>4, <2>6
  <2>10. \A c \in 1 .. NBLOCKS : c # DataAt(E0, i, bn) => E.data[c] = E0.data[c]
    BY <1>2, <2>2, <2>4, <2>6
  <2>11. ASSUME E0.inode[i].type = "dir"
         PROVE  /\ \A x \in 0 .. E.inode[i].size - 1 : x \in 0 .. E0.inode[i].size - 1 \/ x \div EPB = bn
                /\ \A w \in 0 .. EPB - 1 : \/ E.data[DataAt(E0, i, bn)][w].inum \in 0 .. NINODES
                                           \/ E.data[DataAt(E0, i, bn)][w] = E0.data[DataAt(E0, i, bn)][w]
    <3>1. d.type = "dir" /\ N = 1 /\ E0.inode[i].size = d.size
      BY <1>1, <1>2, <2>11 DEF SameKind
    <3>2. ASSUME NEW x \in 0 .. E.inode[i].size - 1, x \notin 0 .. E0.inode[i].size - 1
          PROVE  x = off
      <4>1. d.size \in Nat
        BY DEF Dinodes
      <4>2. E.inode[i].size = IF off + 1 > d.size THEN off + 1 ELSE d.size
        BY <2>5, <2>6, <3>1
      <4>3. QED BY <3>1, <3>2, <4>1, <4>2
    <3>3. QED BY <1>2, <2>2, <2>3, <2>4, <2>6, <3>1, <3>2
  <2>12. Sound(E)
    BY <1>1, <2>6, <2>7, <2>8, <2>9, <2>10, <2>11, DataSound
  <2>13. \A j \in Inum : j # i => E.inode[j] = D.inode[j]
    BY <2>4, <2>6
  <2>14. Wrote(D, i, d, r)
    BY <2>1, <2>5, <2>6, <2>12, <2>13 DEF Wrote
  <2>15. QED BY <2>14 DEF r
<1>5. QED BY <1>3, <1>4

\* writei().
LEMMA WriteiSound ==
  ASSUME NEW D \in Images, NEW i \in Inum, NEW d \in Dinodes, Sound(Iupdate(D, i, d)), d.type # "none",
         NEW off \in Nat,
         NEW words, \A x \in DOMAIN words : words[x] \in Words,
         Cardinality(DOMAIN words) \in Nat \ {0},
         d.type = "dir" => /\ Cardinality(DOMAIN words) = 1
                           /\ \A x \in DOMAIN words : words[x].inum \in 0 .. NINODES,
         Writei(D, i, d, off, words).ok \/ D.inode[i] = d
  PROVE  Wrote(D, i, d, Writei(D, i, d, off, words))
<1> DEFINE r == Writei(D, i, d, off, words)
           N == Cardinality(DOMAIN words)
<1>1. CASE off > d.size \/ off + N > MAXFILE * EPB
  <2>1. r.disk = D /\ r.d = d /\ r.ok = FALSE
    BY <1>1 DEF Writei
  <2> HIDE DEF r
  <2>2. D.inode[i] = d
    BY <2>1 DEF r
  <2>3. Iupdate(D, i, d) = D
    BY <2>2, Updated
  <2>4. QED BY <2>1, <2>2, <2>3 DEF Wrote, SameKind, r
<1>2. CASE ~ (off > d.size \/ off + N > MAXFILE * EPB)
  <2> DEFINE bn == off \div EPB
             m == Bmap(D, d, bn)
             top == MAXFILE * EPB
  <2>1. r = Store(m, i, off, words)
    BY <1>2 DEF Writei
  <2>2. top \in Int /\ d.size \in Nat
    BY Sizes DEF Dinodes
  <2>3. off < top /\ off <= d.size
    <3> HIDE DEF top
    <3>1. N \in Nat \ {0} /\ ~ (off > d.size) /\ ~ (off + N > top)
      BY <1>2 DEF top
    <3> HIDE DEF N
    <3>2. QED BY <2>2, <3>1
  <2>4. bn \in 0 .. MAXFILE - 1
    BY <2>3, Offset
  <2> HIDE DEF r, m
  <2>5. MapsFor(D, i, d, m) /\ m.addr = DataAt(Iupdate(m.disk, i, m.d), i, bn)
    BY <2>4, BmapSound DEF m
  <2>6. Wrote(D, i, d, Store(m, i, off, words))
    BY <2>3, <2>4, <2>5, StoreSound
  <2>7. QED BY <2>1, <2>6 DEF r
<1>3. QED BY <1>1, <1>2

\* One directory entry.
LEMMA EntryWords ==
  ASSUME NEW n \in 0 .. NINODES, NEW name \in Names
  PROVE  LET words == [k \in {0} |-> Word(n, name)]
         IN  /\ Cardinality(DOMAIN words) = 1
             /\ \A x \in DOMAIN words : words[x] \in Words /\ words[x].inum \in 0 .. NINODES
<1>1. Word(n, name) \in Words /\ Word(n, name).inum = n
  BY WordType
<1>2. Cardinality({0}) = 1
  BY FS_Singleton
<1>3. QED BY <1>1, <1>2

\* writei() of one directory entry.
LEMMA EntrySound ==
  ASSUME NEW D \in Images, NEW i \in Inum, NEW d \in Dinodes, Sound(Iupdate(D, i, d)), d.type # "none",
         NEW off \in Nat, NEW n \in 0 .. NINODES, NEW name \in Names,
         Writei(D, i, d, off, [k \in {0} |-> Word(n, name)]).ok \/ D.inode[i] = d
  PROVE  Wrote(D, i, d, Writei(D, i, d, off, [k \in {0} |-> Word(n, name)]))
<1> DEFINE words == [k \in {0} |-> Word(n, name)]
<1>1. /\ Cardinality(DOMAIN words) = 1
      /\ \A x \in DOMAIN words : words[x] \in Words /\ words[x].inum \in 0 .. NINODES
  BY EntryWords
<1>2. Writei(D, i, d, off, words).ok \/ D.inode[i] = d
  OBVIOUS
<1> HIDE DEF words
<1>3. Wrote(D, i, d, Writei(D, i, d, off, words))
  BY <1>1, <1>2, WriteiSound
<1>4. QED BY <1>3 DEF words

\* dirlink() of an inode as it is on the disk.
LEMMA DirlinkSound ==
  ASSUME NEW D, Sound(D), NEW i \in Inum, NEW d, D.inode[i] = d, d.type # "none",
         NEW n \in 0 .. NINODES, NEW name \in Names
  PROVE  Wrote(D, i, d, Dirlink(D, i, d, name, n))
<1>1. D \in Images
  BY DEF Sound
<1>2. d \in Dinodes
  BY <1>1 DEF Images
<1>3. Iupdate(D, i, d) = D
  BY <1>1, <1>2, Updated
<1>4. CASE Named(D, d, name) # {}
  <2> DEFINE r == Dirlink(D, i, d, name, n)
  <2>1. r.disk = D /\ r.d = d
    BY <1>4 DEF Dirlink
  <2> HIDE DEF r
  <2>2. Wrote(D, i, d, r)
    BY <1>2, <2>1 DEF Wrote, SameKind
  <2>3. QED BY <2>2 DEF r
<1>5. CASE Named(D, d, name) = {}
  <2> DEFINE off == FreeDirent(D, d)
  <2>1. off \in Nat
    <3> DEFINE offs == {d.size} \cup ((0 .. d.size - 1) \ Entries(D, d))
    <3>1. offs \subseteq Nat /\ offs # {}
      BY <1>2 DEF Dinodes
    <3>2. Min(offs) \in offs
      BY <3>1, Smallest
    <3>3. QED BY <3>1, <3>2 DEF FreeDirent
  <2>2. Dirlink(D, i, d, name, n) = Writei(D, i, d, off, [k \in {0} |-> Word(n, name)])
    BY <1>5 DEF Dirlink
  <2> HIDE DEF off
  <2>3. Wrote(D, i, d, Writei(D, i, d, off, [k \in {0} |-> Word(n, name)]))
    BY <1>1, <1>2, <1>3, <2>1, EntrySound
  <2>4. QED BY <2>2, <2>3
<1>6. QED BY <1>4, <1>5

\* The entries . and .. that create() writes.
LEMMA MakeDotsSound ==
  ASSUME NEW D, Sound(D), NEW i \in Inum, NEW d, D.inode[i] = d, d.type # "none",
         NEW n \in 0 .. NINODES
  PROVE  Wrote(D, i, d, MakeDots(D, i, d, n))
<1> DEFINE dot == Dirlink(D, i, d, ".", i)
<1>1. "." \in Names /\ ".." \in Names
  BY DEF Names
<1>2. i \in 0 .. NINODES
  BY Sizes DEF Inum
<1>3. Wrote(D, i, d, dot)
  BY <1>1, <1>2, DirlinkSound
<1>4. MakeDots(D, i, d, n) = IF dot.ok THEN Dirlink(dot.disk, i, dot.d, "..", n) ELSE dot
  BY DEF MakeDots, DotDot
<1> HIDE DEF dot
<1>5. CASE dot.ok
  <2> DEFINE both == Dirlink(dot.disk, i, dot.d, "..", n)
  <2>1. Sound(dot.disk) /\ dot.disk.inode[i] = dot.d /\ dot.d.type # "none"
    BY <1>3 DEF Wrote, SameKind
  <2>2. Wrote(dot.disk, i, dot.d, both)
    BY <1>1, <2>1, DirlinkSound
  <2> HIDE DEF both
  <2>3. Wrote(D, i, d, both)
    BY <1>3, <2>2 DEF Wrote, SameKind
  <2>4. QED BY <1>4, <1>5, <2>3 DEF both
<1>6. CASE ~ dot.ok
  BY <1>3, <1>4, <1>6
<1>7. QED BY <1>5, <1>6

\* A block of a file.
LEMMA DataWriteSound ==
  ASSUME NEW D, Sound(D), NEW i \in Inum, NEW d, D.inode[i] = d, d.type \notin {"none", "dir"},
         NEW off \in Nat
  PROVE  Wrote(D, i, d, Writei(D, i, d, off, Data))
<1>1. D \in Images
  BY DEF Sound
<1>2. d \in Dinodes
  BY <1>1 DEF Images
<1>3. Iupdate(D, i, d) = D
  BY <1>1, <1>2, Updated
<1>4. "" \in Names /\ -1 \in Int
  BY DEF Names
<1>5. Word(-1, "") \in Words
  BY <1>4, WordType, Zenon
<1>6. DOMAIN Data = 0 .. EPB - 1 /\ \A x \in DOMAIN Data : Data[x] \in Words
  BY <1>5 DEF Data
<1>7. Cardinality(DOMAIN Data) \in Nat \ {0}
  <2>1. Cardinality(0 .. EPB - 1) = IF 0 > EPB - 1 THEN 0 ELSE EPB - 1 - 0 + 1
    <3>1. 0 \in Int /\ EPB - 1 \in Int
      BY Sizes
    <3>2. QED BY <3>1, FS_Interval
  <2>2. QED BY <1>6, <2>1, Sizes
<1>8. QED BY <1>1, <1>2, <1>3, <1>6, <1>7, WriteiSound

-----------------------------------------------------------------------------
(* Blocks are freed: itrunc().                                             *)
\* The blocks of an inode are what its addresses name.
LEMMA BlocksArePlaces ==
  ASSUME NEW D \in Images, NEW i \in Inum, NEW b
  PROVE  b \in BlocksOf(D, D.inode[i]) <=> b # 0 /\ \E k \in Places : AddrAt(D, i, k) = b
<1> DEFINE d == D.inode[i]
<1>1. ASSUME NEW n \in 0 .. NDIRECT PROVE n \in Places /\ AddrAt(D, i, n) = d.addrs[n]
  BY Sizes DEF Places, AddrAt
<1>2. ASSUME NEW n \in 0 .. NINDIRECT - 1
      PROVE  NDIRECT + 1 + n \in Places /\ AddrAt(D, i, NDIRECT + 1 + n) = Indirect(D, d)[n].inum
  BY Sizes DEF Places, AddrAt
<1>3. ASSUME NEW k \in Places
      PROVE  \/ k \in 0 .. NDIRECT
             \/ k - NDIRECT - 1 \in 0 .. NINDIRECT - 1 /\ AddrAt(D, i, k) = Indirect(D, d)[k - NDIRECT - 1].inum
  BY Sizes DEF Places, AddrAt
<1> HIDE DEF d
<1>4. BlocksOf(D, d) = (DirectOf(d) \cup IndirectOf(D, d)) \ {0}
  BY DEF BlocksOf
<1>5. b \in DirectOf(d) <=> \E n \in 0 .. NDIRECT : d.addrs[n] = b
  BY DEF DirectOf
<1>6. b \in IndirectOf(D, d) <=> \E n \in 0 .. NINDIRECT - 1 : Indirect(D, d)[n].inum = b
  BY DEF IndirectOf
<1>7. (\E k \in Places : AddrAt(D, i, k) = b) <=> b \in DirectOf(d) \/ b \in IndirectOf(D, d)
  BY <1>1, <1>2, <1>3, <1>5, <1>6
<1>8. QED BY <1>4, <1>7 DEF d

\* An inode without addresses.
LEMMA NoPlaces ==
  ASSUME NEW D \in Images, NEW i \in Inum, D.inode[i].addrs = NoAddrs, NEW k \in Places
  PROVE  AddrAt(D, i, k) = 0
<1>1. \A n \in 0 .. NDIRECT : NoAddrs[n] = 0
  BY DEF NoAddrs
<1>2. CASE k <= NDIRECT
  BY <1>1, <1>2, Sizes DEF AddrAt, Places
<1>3. CASE k > NDIRECT
  <2>1. D.inode[i].addrs[NDIRECT] = 0
    BY <1>1, Sizes
  <2>2. Indirect(D, D.inode[i]) = ZeroBlock
    BY <2>1 DEF Indirect
  <2>3. k - NDIRECT - 1 \in 0 .. EPB - 1
    BY <1>3, Sizes DEF Places
  <2>4. QED BY <1>3, <2>2, <2>3, ZeroIsZero, Sizes DEF AddrAt, Places
<1>4. QED BY <1>2, <1>3, Sizes DEF Places

\* Images that differ in an inode that has lost its blocks.
LEMMA LessSound ==
  ASSUME NEW D, Sound(D), NEW E \in Images, NEW i \in Inum,
         E.inode[i].addrs = NoAddrs, E.inode[i].size = 0,
         \A j \in Inum : j # i => E.inode[j] = D.inode[j],
         \A b \in 1 .. NBLOCKS : b \in E.used <=> b \in D.used /\ b \notin BlocksOf(D, D.inode[i]),
         \A b \in 1 .. NBLOCKS : b \notin BlocksOf(D, D.inode[i]) => E.data[b] = D.data[b]
  PROVE  Sound(E)
<1>1. D \in Images /\ InRange(D) /\ Disjoint(D) /\ UsedExact(D) /\ FreeEmpty(D) /\ DirMapped(D) /\ DirWords(D)
  BY DEF Sound
<1>2. \A k \in Places : AddrAt(E, i, k) = 0
  BY NoPlaces
<1>3. \A b : b \in BlocksOf(D, D.inode[i]) <=> b # 0 /\ \E k \in Places : AddrAt(D, i, k) = b
  BY <1>1, BlocksArePlaces
<1> HIDE DEF BlocksOf
<1>4. ASSUME NEW j \in Inum, j # i, NEW k \in Places, AddrAt(D, j, k) # 0
      PROVE  AddrAt(D, j, k) \in 1 .. NBLOCKS /\ E.data[AddrAt(D, j, k)] = D.data[AddrAt(D, j, k)]
  <2>1. AddrAt(D, j, k) \in 1 .. NBLOCKS
    BY <1>1, <1>4, Sizes DEF InRange, Addr
  <2>2. AddrAt(D, j, k) \notin BlocksOf(D, D.inode[i])
    BY <1>1, <1>3, <1>4 DEF Disjoint
  <2>3. QED BY <2>1, <2>2
<1>5. NDIRECT \in Places /\ NDIRECT <= NDIRECT
  BY Sizes DEF Places
<1>6. ASSUME NEW j \in Inum, j # i, NEW k \in Places
      PROVE  AddrAt(E, j, k) = AddrAt(D, j, k)
  <2>1. AddrAt(D, j, NDIRECT) = D.inode[j].addrs[NDIRECT]
    BY <1>5 DEF AddrAt
  <2>2. D.inode[j].addrs[NDIRECT] # 0 => D.data[D.inode[j].addrs[NDIRECT]] = E.data[D.inode[j].addrs[NDIRECT]]
    BY <1>4, <1>5, <1>6, <2>1
  <2>3. QED BY <1>1, <1>6, <2>2, SameAddrs
<1>7. InRange(E) /\ Disjoint(E) /\ FreeEmpty(E)
  <2>1. 0 \in Addr
    BY Sizes DEF Addr
  <2>2. QED BY <1>1, <1>2, <1>6, <2>1 DEF InRange, Disjoint, FreeEmpty
<1>8. UsedExact(E)
  <2>1. ASSUME NEW b \in 1 .. NBLOCKS
        PROVE  b \in E.used <=> \E j \in Inum, k \in Places : AddrAt(E, j, k) = b
    <3>0. b # 0
      OBVIOUS
    <3>1. b \in D.used <=> \E j \in Inum, k \in Places : AddrAt(D, j, k) = b
      BY <1>1 DEF UsedExact
    <3>2. CASE b \in BlocksOf(D, D.inode[i])
      <4>1. PICK l \in Places : AddrAt(D, i, l) = b
        BY <1>3, <3>2
      <4>2. \A j \in Inum, k \in Places : AddrAt(D, j, k) = b => j = i
        BY <1>1, <3>0, <4>1 DEF Disjoint
      <4>3. QED BY <1>2, <1>6, <3>0, <3>2, <4>2
    <3>3. CASE b \notin BlocksOf(D, D.inode[i])
      <4>1. \A k \in Places : AddrAt(D, i, k) # b
        BY <1>3, <3>0, <3>3
      <4>2. QED BY <1>2, <1>6, <3>0, <3>1, <3>3, <4>1
    <3>4. QED BY <3>2, <3>3
  <2>2. QED BY <2>1 DEF UsedExact
<1>9. ASSUME NEW j \in Inum, NEW bn \in 0 .. MAXFILE - 1
      PROVE  DataAt(E, j, bn) = IF j = i THEN 0 ELSE DataAt(D, j, bn)
  BY <1>2, <1>6, PlaceOfInjective DEF DataAt
<1>10. DirMapped(E)
  <2>1. 0 .. E.inode[i].size - 1 = {}
    OBVIOUS
  <2>2. QED BY <1>1, <1>9, <2>1 DEF DirMapped
<1>11. ASSUME NEW j \in Inum, E.inode[j].type = "dir", NEW bn \in 0 .. MAXFILE - 1, DataAt(E, j, bn) # 0,
              NEW w \in 0 .. EPB - 1
       PROVE  E.data[DataAt(E, j, bn)][w].inum \in 0 .. NINODES
  <2>1. j # i /\ DataAt(E, j, bn) = DataAt(D, j, bn) /\ D.inode[j].type = "dir"
    BY <1>9, <1>11
  <2>2. E.data[DataAt(D, j, bn)] = D.data[DataAt(D, j, bn)]
    BY <1>4, <1>11, <2>1, PlaceOfInjective DEF DataAt
  <2>3. QED BY <1>1, <1>11, <2>1, <2>2 DEF DirWords
<1>12. DirWords(E)
  BY <1>11 DEF DirWords
<1>13. QED BY <1>7, <1>8, <1>10, <1>12 DEF Sound

\* Bfree() on an image.
LEMMA BfreeImage ==
  ASSUME NEW D \in Images, NEW B
  PROVE  /\ Bfree(D, B) \in Images /\ Bfree(D, B).inode = D.inode /\ Bfree(D, B).used = D.used \ B
         /\ \A b \in 1 .. NBLOCKS : b \notin B => Bfree(D, B).data[b] = D.data[b]
BY ZeroIsZero DEF Bfree, Images

\* itrunc(), and what iput() writes after it: the inode has no blocks any more.
LEMMA FreedSound ==
  ASSUME NEW D, Sound(D), NEW i \in Inum, NEW e \in Dinodes, e.addrs = NoAddrs, e.size = 0,
         NEW E, E = Iupdate(Bfree(D, BlocksOf(D, D.inode[i])), i, e)
  PROVE  Sound(E) /\ E.inode[i] = e /\ \A j \in Inum : j # i => E.inode[j] = D.inode[j]
<1> DEFINE B == BlocksOf(D, D.inode[i])
           F == Bfree(D, B)
<1>1. D \in Images
  BY DEF Sound
<1>2. /\ F \in Images /\ F.inode = D.inode /\ F.used = D.used \ B
      /\ \A b \in 1 .. NBLOCKS : b \notin B => F.data[b] = D.data[b]
  BY <1>1, BfreeImage
<1> HIDE DEF F
<1>3. /\ E \in Images /\ E.used = F.used /\ E.data = F.data /\ E.inode[i] = e
      /\ \A j \in Inum : j # i => E.inode[j] = F.inode[j]
  BY <1>2, Updated DEF F
<1>4. Sound(E)
  BY <1>2, <1>3, LessSound
<1>5. QED BY <1>2, <1>3, <1>4

\* No addresses at all.
LEMMA NoAddrsType == NoAddrs \in [0 .. NDIRECT -> Addr]
BY Sizes DEF NoAddrs, Addr

\* What itrunc() makes of an inode.
LEMMA TruncatedType ==
  ASSUME NEW d \in Dinodes
  PROVE  /\ Truncated(d) \in Dinodes /\ Truncated(d).addrs = NoAddrs /\ Truncated(d).size = 0
         /\ SameKind(Truncated(d), d)
         /\ [Truncated(d) EXCEPT !.type = "none"] \in Dinodes
         /\ [Truncated(d) EXCEPT !.type = "none"].addrs = NoAddrs
         /\ [Truncated(d) EXCEPT !.type = "none"].size = 0
         /\ [Truncated(d) EXCEPT !.type = "none"].type = "none"
BY NoAddrsType DEF Truncated, Dinodes, SameKind, Kinds

\* itrunc() leaves the image sound.
LEMMA ItruncSound ==
  ASSUME NEW D, Sound(D), NEW i \in Inum
  PROVE  /\ Sound(Itrunc(D, i, D.inode[i])) /\ Itrunc(D, i, D.inode[i]).inode[i] = Truncated(D.inode[i])
         /\ \A j \in Inum : j # i => Itrunc(D, i, D.inode[i]).inode[j] = D.inode[j]
<1>1. D.inode[i] \in Dinodes
  BY DEF Sound, Images
<1> DEFINE d == Truncated(D.inode[i])
           E == Itrunc(D, i, D.inode[i])
<1>2. d \in Dinodes /\ d.addrs = NoAddrs /\ d.size = 0
  BY <1>1, TruncatedType
<1>3. E = Iupdate(Bfree(D, BlocksOf(D, D.inode[i])), i, d)
  BY DEF Itrunc
<1> HIDE DEF d, E
<1>4. Sound(E) /\ E.inode[i] = d /\ \A j \in Inum : j # i => E.inode[j] = D.inode[j]
  BY <1>2, <1>3, FreedSound
<1>5. QED BY <1>4 DEF d, E

\* iput() of the last reference: itrunc(), then an inode without a type.
LEMMA IfreeSound ==
  ASSUME NEW D, Sound(D), NEW i \in Inum, NEW e \in Dinodes, e.addrs = NoAddrs, e.size = 0,
         NEW E, E = Iupdate(Itrunc(D, i, D.inode[i]), i, e)
  PROVE  Sound(E) /\ E.inode[i] = e /\ \A j \in Inum : j # i => E.inode[j] = D.inode[j]
<1>1. D \in Images /\ D.inode[i] \in Dinodes
  BY DEF Sound, Images
<1>2. Truncated(D.inode[i]) \in Dinodes
  BY <1>1, TruncatedType
<1>3. Bfree(D, BlocksOf(D, D.inode[i])) \in Images
  BY <1>1, BfreeImage
<1>4. Iupdate(Itrunc(D, i, D.inode[i]), i, e) = Iupdate(Bfree(D, BlocksOf(D, D.inode[i])), i, e)
  BY <1>2, <1>3, UpdatedTwice DEF Itrunc
<1>5. E = Iupdate(Bfree(D, BlocksOf(D, D.inode[i])), i, e)
  BY <1>4
<1>6. QED BY <1>2, <1>5, FreedSound

\* ialloc() of an inode that is free.
LEMMA IallocSound ==
  ASSUME NEW D, Sound(D), NEW i \in Inum, D.inode[i].type = "none", NEW type \in Kinds
  PROVE  /\ Sound(Ialloc(D, i, type))
         /\ Ialloc(D, i, type).inode[i].type = type /\ Ialloc(D, i, type).inode[i].nlink = 0
         /\ \A j \in Inum : j # i => Ialloc(D, i, type).inode[j] = D.inode[j]
<1> DEFINE e == [FreeInode EXCEPT !.type = type]
           E == Iupdate(D, i, e)
<1>1. D \in Images /\ FreeEmpty(D)
  BY DEF Sound
<1>2. e \in Dinodes /\ e.addrs = NoAddrs /\ e.size = 0 /\ e.type = type /\ e.nlink = 0
  BY NoAddrsType DEF Dinodes, FreeInode, Dinode, Kinds
<1>3. Ialloc(D, i, type) = E
  BY DEF Ialloc
<1> HIDE DEF e
<1>4. /\ E \in Images /\ E.used = D.used /\ E.data = D.data /\ E.inode[i] = e
      /\ \A j \in Inum : j # i => E.inode[j] = D.inode[j]
  BY <1>1, <1>2, Updated
<1> HIDE DEF E
<1>5. \A b : b \notin BlocksOf(D, D.inode[i])
  BY <1>1, BlocksArePlaces DEF FreeEmpty
<1>6. Sound(E)
  BY <1>2, <1>4, <1>5, LessSound
<1>7. QED BY <1>2, <1>3, <1>4, <1>6

-----------------------------------------------------------------------------
(* Directories, and the image that mkfs makes.                             *)
\* What dirlookup() finds in a directory names an inode.
LEMMA DirlookupFinds ==
  ASSUME NEW D, Sound(D), NEW i \in Inum, NEW d, d = D.inode[i], d.type = "dir", NEW name,
         NEW off, off = Dirlookup(D, d, name), off # -1
  PROVE  off \in Nat /\ Dirent(D, d, off).inum \in Inum
<1>1. D \in Images /\ DirMapped(D) /\ DirWords(D)
  BY DEF Sound
<1>2. d.size \in Nat
  BY <1>1 DEF Images, Dinodes
<1>3. off \in Named(D, d, name)
  <2>1. Named(D, d, name) # {} /\ off = Min(Named(D, d, name))
    BY DEF Dirlookup
  <2>2. Named(D, d, name) \subseteq Nat
    BY <1>2 DEF Named, Entries
  <2>3. QED BY <2>1, <2>2, Smallest
<1>4. off \in 0 .. d.size - 1 /\ Dirent(D, d, off).inum # 0
  BY <1>3 DEF Named, Entries
<1>5. off \in Nat
  BY <1>2, <1>4
<1> DEFINE bn == off \div EPB
           w == off % EPB
<1>6. w \in 0 .. EPB - 1
  BY <1>5, Offset
<1>7. bn \in 0 .. MAXFILE - 1 /\ DataAt(D, i, bn) # 0
  BY <1>1, <1>4 DEF DirMapped
<1>8. Dirent(D, d, off) = D.data[BlockAt(D, d, bn)][w]
  BY DEF Dirent
<1> HIDE DEF bn, w
<1>9. BlockAt(D, d, bn) = DataAt(D, i, bn)
  BY <1>7, BlockAtPlace
<1>10. Dirent(D, d, off).inum \in 0 .. NINODES
  BY <1>1, <1>6, <1>7, <1>8, <1>9 DEF DirWords
<1>11. QED BY <1>4, <1>5, <1>10, Sizes DEF Inum

\* What ialloc() finds is free.
LEMMA FreeInumIsFree ==
  ASSUME NEW D, FreeInum(D) # 0
  PROVE  FreeInum(D) \in Inum /\ D.inode[FreeInum(D)].type = "none"
<1> DEFINE free == {i \in Inum : D.inode[i].type = "none"}
<1>1. free # {} /\ FreeInum(D) = Min(free)
  BY DEF FreeInum
<1>2. free \subseteq Nat
  BY Sizes DEF Inum
<1> HIDE DEF free
<1>3. FreeInum(D) \in free
  BY <1>1, <1>2, Smallest
<1>4. QED BY <1>3 DEF free

\* The image of mkfs is sound.
EntryOK(w) == w \in Words /\ w.inum \in 0 .. NINODES

\* The entries of the root that mkfs writes.
LEMMA RootWordsType == RootWords \in Seq({w \in Words : EntryOK(w)}) /\ Len(RootWords) = Len(ImageFiles) + 2
<1> DEFINE S == {w \in Words : EntryOK(w)}
           L == Len(ImageFiles)
           F == [n \in 1 .. L |-> Word(n + 1, ImageFiles[n])]
           a == Word(ROOTINO, ".")
           b == Word(ROOTINO, "..")
<1>1. L \in Nat /\ L < NINODES /\ \A n \in 1 .. L : ImageFiles[n] \in STRING
  BY FsDiskAssumption, LenProperties
<1>2. \A i \in 1 .. NINODES, name \in Names : Word(i, name) \in S
  BY WordType, Sizes DEF EntryOK
<1>3. "." \in Names /\ ".." \in Names /\ STRING \subseteq Names
  BY DEF Names
<1>4. ROOTINO \in 1 .. NINODES
  BY <1>1, Sizes DEF ROOTINO
<1>5. a \in S /\ b \in S
  BY <1>2, <1>3, <1>4, Zenon
<1>6. ASSUME NEW n \in 1 .. L PROVE Word(n + 1, ImageFiles[n]) \in S
  <2>1. ImageFiles[n] \in STRING
    BY <1>1
  <2>2. ImageFiles[n] \in Names
    BY <1>3, <2>1, Zenon
  <2>3. n + 1 \in 1 .. NINODES
    <3> HIDE DEF L
    <3>1. QED BY <1>1, Sizes
  <2>4. QED BY <1>2, <2>2, <2>3, Zenon
<1>7. F \in [1 .. L -> S]
  BY <1>6
<1> HIDE DEF F, a, b, S, L
<1>8. F \in Seq(S)
  BY <1>1, <1>7, SeqDef
<1>9. Len(F) = L
  BY <1>1, <1>7
<1>10. <<a, b>> \in Seq(S) /\ Len(<<a, b>>) = 2
  BY <1>5
<1>11. <<a, b>> \o F \in Seq(S) /\ Len(<<a, b>> \o F) = 2 + L
  BY <1>8, <1>9, <1>10, ConcatProperties
<1>12. RootWords = <<a, b>> \o F
  BY DEF RootWords, a, b, F, L
<1>13. QED BY <1>1, <1>11, <1>12 DEF S, L

\* The block of the root.
LEMMA RootBlockType == RootBlock \in Block /\ \A k \in 0 .. EPB - 1 : RootBlock[k].inum \in 0 .. NINODES
<1>1. Len(ImageFiles) \in Nat
  BY FsDiskAssumption, LenProperties
<1>2. ASSUME NEW k \in 0 .. EPB - 1, k < Len(RootWords) PROVE EntryOK(RootWords[k + 1])
  <2>1. k + 1 \in 1 .. Len(RootWords)
    BY <1>1, <1>2, RootWordsType, Sizes
  <2>2. RootWords[k + 1] \in {w \in Words : EntryOK(w)}
    BY <2>1, RootWordsType, ElementOfSeq
  <2>3. QED BY <2>2
<1>3. EntryOK(ZeroWord)
  <2>1. "" \in Names /\ 0 \in Int
    BY DEF Names
  <2>2. Word(0, "") \in Words /\ Word(0, "").inum = 0
    BY <2>1, WordType, Zenon
  <2>3. ZeroWord \in Words /\ ZeroWord.inum = 0
    BY <2>2, Zenon DEF ZeroWord
  <2>4. QED BY <2>3, Sizes DEF EntryOK
<1>4. ASSUME NEW k \in 0 .. EPB - 1 PROVE EntryOK(RootBlock[k])
  BY <1>2, <1>3 DEF RootBlock
<1>5. RootBlock = [k \in 0 .. EPB - 1 |-> RootBlock[k]]
  BY DEF RootBlock
<1>6. QED BY <1>4, <1>5 DEF EntryOK, Block

\* The blocks of the image that mkfs makes.
LEMMA DataType == Data \in Block
<1>1. "" \in Names /\ -1 \in Int
  BY DEF Names
<1>2. Word(-1, "") \in Words
  BY <1>1, WordType, Zenon
<1>3. QED BY <1>2 DEF Data, Block

\* The inodes of that image.
LEMMA MadeInodes ==
  ASSUME NEW i \in Inum
  PROVE  /\ MadeInode(i) \in Dinodes
         /\ MadeInode(i).type = "dir" <=> i = 1
         /\ MadeInode(i).type = "none" <=> i \notin 1 .. Len(ImageFiles) + 1
         /\ MadeInode(i).type # "none" => MadeInode(i).nlink = 1
         /\ i = 1 => MadeInode(i).size = EPB
         /\ \A n \in 0 .. NDIRECT : MadeInode(i).addrs[n] =
              IF n = 0 /\ i \in 1 .. Len(ImageFiles) + 1 THEN i ELSE 0
<1> DEFINE L == Len(ImageFiles)
           one == [NoAddrs EXCEPT ![0] = i]
           size == (Len(RootWords) \div EPB + 1) * EPB
<1>1. L \in Nat /\ L + 2 < EPB /\ L < NINODES /\ L < NBLOCKS
  BY FsDiskAssumption, LenProperties
<1>2. size = EPB
  <2>1. Len(RootWords) = L + 2
    BY RootWordsType
  <2> HIDE DEF L
  <2>2. (L + 2) \div EPB = 0
    BY <1>1, Sizes
  <2>3. QED BY <2>1, <2>2, Sizes
<1>3. i \in 1 .. L + 1 => i \in Addr
  BY <1>1, Sizes DEF Addr, Inum
<1>4. /\ i \in 1 .. L + 1 => one \in [0 .. NDIRECT -> Addr]
      /\ \A n \in 0 .. NDIRECT : one[n] = (IF n = 0 THEN i ELSE 0) /\ NoAddrs[n] = 0
  BY <1>3, NoAddrsType, Sizes DEF NoAddrs
<1>5. ImageFile(i) <=> i \in 2 .. L + 1
  BY <1>1, Sizes DEF ImageFile, Inum
<1> HIDE DEF L, one, size
<1>6. CASE i = 1
  <2>1. MadeInode(i) = Dinode("dir", 0, 1, size, [NoAddrs EXCEPT ![0] = 1])
    BY <1>5, <1>6, <1>1 DEF MadeInode, ROOTINO, size
  <2>2. [NoAddrs EXCEPT ![0] = 1] = one
    BY <1>6 DEF one
  <2>3. MadeInode(i) = Dinode("dir", 0, 1, EPB, one)
    BY <1>2, <2>1, <2>2
  <2>4. i \in 1 .. L + 1 /\ EPB \in Nat
    BY <1>1, <1>6, Sizes
  <2>5. /\ MadeInode(i).type = "dir" /\ MadeInode(i).nlink = 1 /\ MadeInode(i).size = EPB
        /\ MadeInode(i).addrs = one
    BY <2>3 DEF Dinode
  <2>6. MadeInode(i) \in Dinodes
    BY <1>4, <2>3, <2>4 DEF Dinode, Dinodes, Kinds
  <2>7. QED BY <1>4, <1>6, <2>4, <2>5, <2>6 DEF L
<1>7. CASE i \in 2 .. L + 1
  <2>1. MadeInode(i) = Dinode("file", 0, 1, EPB, one)
    BY <1>5, <1>7 DEF MadeInode, ROOTINO, one
  <2>2. i \in 1 .. L + 1 /\ EPB \in Nat /\ i # 1
    BY <1>1, <1>7, Sizes
  <2>3. QED BY <1>4, <2>1, <2>2 DEF Dinode, Dinodes, Kinds, L
<1>8. CASE i # 1 /\ i \notin 2 .. L + 1
  <2>1. MadeInode(i) = Dinode("none", 0, 0, 0, NoAddrs)
    BY <1>5, <1>8 DEF MadeInode, ROOTINO, FreeInode
  <2>2. i \notin 1 .. L + 1
    BY <1>1, <1>8, Sizes DEF Inum
  <2>3. QED BY <1>4, <1>8, <2>1, <2>2, NoAddrsType DEF Dinode, Dinodes, Kinds, L
<1>9. QED BY <1>6, <1>7, <1>8

\* The image that mkfs makes is sound.
LEMMA ImageSound == Sound(Image) /\ Orphans(Image) = {} /\ ROOTINO \in Inum
<1> DEFINE L == Len(ImageFiles)
           H == 1 .. L + 1
<1>1. L \in Nat /\ L + 2 < EPB /\ L < NINODES /\ L < NBLOCKS
  BY FsDiskAssumption, LenProperties
<1>2. /\ Image.used = H /\ \A i \in Inum : Image.inode[i] = MadeInode(i)
      /\ \A b \in 1 .. NBLOCKS : Image.data[b] = Appended(b)
  BY DEF Image, Marked
<1>20. ~ ImageFile(1)
  BY <1>1 DEF ImageFile
<1>3. \A b \in 1 .. NBLOCKS : Appended(b) \in Block
  BY RootBlockType, DataType, ZeroIsZero DEF Appended
<1>4. Image \in Images
  <2>1. H \subseteq 1 .. NBLOCKS
    BY <1>1, Sizes
  <2>2. [i \in Inum |-> MadeInode(i)] \in [Inum -> Dinodes]
    BY MadeInodes
  <2>3. [b \in 1 .. NBLOCKS |-> Appended(b)] \in [1 .. NBLOCKS -> Block]
    BY <1>3
  <2>4. QED BY <2>1, <2>2, <2>3 DEF Image, Images, Marked
<1>5. \A b \in 1 .. NBLOCKS : b = 1 => Image.data[b] = RootBlock
  BY <1>2, <1>20 DEF Appended
<1> HIDE DEF H, L
<1>6. ASSUME NEW i \in Inum, NEW k \in Places
      PROVE  AddrAt(Image, i, k) = IF k = 0 /\ i \in H THEN i ELSE 0
  <2>1. \A n \in 0 .. NDIRECT : Image.inode[i].addrs[n] = IF n = 0 /\ i \in H THEN i ELSE 0
    BY <1>2, MadeInodes DEF H, L
  <2>2. CASE k <= NDIRECT
    BY <2>1, <2>2, Sizes DEF AddrAt, Places
  <2>3. CASE k > NDIRECT
    <3>1. Image.inode[i].addrs[NDIRECT] = 0
      BY <2>1, Sizes
    <3>2. Indirect(Image, Image.inode[i]) = ZeroBlock
      BY <3>1 DEF Indirect
    <3>3. k - NDIRECT - 1 \in 0 .. EPB - 1 /\ k # 0
      BY <2>3, Sizes DEF Places
    <3>4. QED BY <2>3, <3>2, <3>3, ZeroIsZero, Sizes DEF AddrAt, Places
  <2>4. QED BY <2>2, <2>3, Sizes DEF Places
<1>7. H \subseteq Inum /\ H \subseteq 1 .. NBLOCKS /\ 0 \in Places /\ 1 \in H /\ 0 \notin H
  BY <1>1, Sizes DEF H, Inum, Places
<1>8. InRange(Image) /\ Disjoint(Image)
  <2>1. 0 \in Addr /\ 1 .. NBLOCKS \subseteq Addr
    BY Sizes DEF Addr
  <2>2. InRange(Image)
    BY <1>6, <1>7, <2>1 DEF InRange
  <2>3. Disjoint(Image)
    BY <1>6 DEF Disjoint
  <2>4. QED BY <2>2, <2>3
<1>9. UsedExact(Image)
  <2>1. ASSUME NEW b \in 1 .. NBLOCKS
        PROVE  b \in Image.used <=> \E i \in Inum, k \in Places : AddrAt(Image, i, k) = b
    <3>1. b # 0
      OBVIOUS
    <3>2. b \in H => AddrAt(Image, b, 0) = b /\ b \in Inum
      BY <1>6, <1>7
    <3>3. ASSUME NEW i \in Inum, NEW k \in Places, AddrAt(Image, i, k) = b PROVE b \in H
      BY <1>6, <3>1, <3>3
    <3>4. QED BY <1>2, <1>7, <3>2, <3>3
  <2>2. QED BY <2>1 DEF UsedExact
<1>10. FreeEmpty(Image)
  <2>1. \A i \in Inum : Image.inode[i].type = "none" => i \notin H
    BY <1>2, MadeInodes DEF H, L
  <2>2. QED BY <1>6, <2>1 DEF FreeEmpty
<1>11. \A bn \in 0 .. MAXFILE - 1 : DataAt(Image, 1, bn) = IF bn = 0 THEN 1 ELSE 0
  <2>1. ASSUME NEW bn \in 0 .. MAXFILE - 1 PROVE PlaceOf(bn) = 0 <=> bn = 0
    BY Sizes DEF PlaceOf
  <2>2. QED BY <1>6, <1>7, <2>1, PlaceOfInjective DEF DataAt
<1>12. \A i \in Inum : Image.inode[i].type = "dir" => i = 1 /\ Image.inode[i].size = EPB
  BY <1>2, MadeInodes
<1>13. DirMapped(Image)
  <2>1. ASSUME NEW off \in 0 .. EPB - 1 PROVE off \div EPB = 0
    BY Sizes
  <2>2. 0 \in 0 .. MAXFILE - 1
    BY Sizes
  <2>3. QED BY <1>11, <1>12, <2>1, <2>2 DEF DirMapped
<1>14. DirWords(Image)
  BY <1>5, <1>7, <1>11, <1>12, RootBlockType DEF DirWords
<1>15. Orphans(Image) = {}
  BY <1>2, MadeInodes DEF Orphans
<1>16. QED BY <1>4, <1>7, <1>8, <1>9, <1>10, <1>13, <1>14, <1>15 DEF Sound, ROOTINO

-----------------------------------------------------------------------------
(* Sums of counts, and lists of what is left to do.                        *)
\* What a sound image says of the blocks.
LEMMA SoundBlocks ==
  ASSUME NEW D, Sound(D)
  PROVE  /\ D.used = UNION {BlocksOf(D, D.inode[i]) : i \in Allocated(D)}
         /\ \A i, j \in Allocated(D) : i # j => BlocksOf(D, D.inode[i]) \cap BlocksOf(D, D.inode[j]) = {}
<1>1. D \in Images /\ InRange(D) /\ Disjoint(D) /\ UsedExact(D) /\ FreeEmpty(D)
  BY DEF Sound
<1>2. \A i \in Inum : \A b : b \in BlocksOf(D, D.inode[i]) <=> b # 0 /\ \E k \in Places : AddrAt(D, i, k) = b
  BY <1>1, BlocksArePlaces
<1> HIDE DEF BlocksOf
<1>3. \A i : i \in Allocated(D) <=> i \in Inum /\ D.inode[i].type # "none"
  BY DEF Allocated
<1>4. \A i, j \in Allocated(D) : i # j => BlocksOf(D, D.inode[i]) \cap BlocksOf(D, D.inode[j]) = {}
  BY <1>1, <1>2, <1>3 DEF Disjoint
<1>5. D.used \subseteq 1 .. NBLOCKS
  BY <1>1 DEF Images
<1>6. ASSUME NEW b \in D.used PROVE \E i \in Allocated(D) : b \in BlocksOf(D, D.inode[i])
  <2>1. b \in 1 .. NBLOCKS /\ b # 0
    BY <1>5
  <2>2. PICK i \in Inum, k \in Places : AddrAt(D, i, k) = b
    BY <1>1, <2>1 DEF UsedExact
  <2>3. D.inode[i].type # "none"
    BY <1>1, <2>1, <2>2 DEF FreeEmpty
  <2>4. QED BY <1>2, <1>3, <2>1, <2>2, <2>3
<1>7. ASSUME NEW i \in Allocated(D), NEW b \in BlocksOf(D, D.inode[i]) PROVE b \in D.used
  <2>1. PICK k \in Places : AddrAt(D, i, k) = b /\ b # 0
    BY <1>2, <1>3
  <2>2. b \in 1 .. NBLOCKS
    BY <1>1, <1>3, <2>1, Sizes DEF InRange, Addr
  <2>3. QED BY <1>1, <1>3, <2>1, <2>2 DEF UsedExact
<1>8. QED BY <1>4, <1>6, <1>7

\* Sums over the processes.
PairsOf(h) == UNION {{q} \X (1 .. h[q]) : q \in DOMAIN h}

\* Total(h) counts pairs: the definition once more.
LEMMA PairsAre ==
  ASSUME NEW h \in [Proc -> Nat], NEW x
  PROVE  x \in PairsOf(h) <=> \E q \in Proc : x \in {q} \X (1 .. h[q])
BY DEF PairsOf

\* The pairs of one process.
LEMMA CountOne ==
  ASSUME NEW p, NEW n \in Nat
  PROVE  IsFiniteSet({p} \X (1 .. n)) /\ Cardinality({p} \X (1 .. n)) = n
<1>1. IsFiniteSet({p}) /\ Cardinality({p}) = 1
  BY FS_Singleton
<1>2. IsFiniteSet(1 .. n) /\ Cardinality(1 .. n) = n
  <2>1. 1 \in Int /\ n \in Int
    OBVIOUS
  <2>2. IsFiniteSet(1 .. n) /\ Cardinality(1 .. n) = IF 1 > n THEN 0 ELSE n - 1 + 1
    BY <2>1, FS_Interval
  <2>3. QED BY <2>2
<1>3. /\ IsFiniteSet({p} \X (1 .. n))
      /\ Cardinality({p} \X (1 .. n)) = Cardinality({p}) * Cardinality(1 .. n)
  BY <1>1, <1>2, FS_Product
<1>4. QED BY <1>1, <1>2, <1>3

\* The pairs are finitely many.
LEMMA PairsFinite ==
  ASSUME NEW h \in [Proc -> Nat]
  PROVE  IsFiniteSet(PairsOf(h))
<1> DEFINE row(q) == {q} \X (1 .. h[q])
           rows == {row(q) : q \in Proc}
           f == [q \in Proc |-> row(q)]
<1>1. f \in Surjection(Proc, rows)
  BY DEF Surjection
<1>2. IsFiniteSet(Proc)
  BY FileSysAssumption
<1>3. IsFiniteSet(rows)
  BY <1>1, <1>2, FS_Surjection
<1>4. \A q \in Proc : IsFiniteSet(row(q))
  BY CountOne
<1>5. PairsOf(h) = UNION rows
  BY DEF PairsOf
<1> HIDE DEF row
<1>6. \A R \in rows : IsFiniteSet(R)
  BY <1>4
<1>7. QED BY <1>3, <1>5, <1>6, FS_UNION

\* When one process's part changes, the sum changes by as much.
LEMMA TotalChange ==
  ASSUME NEW h \in [Proc -> Nat], NEW g \in [Proc -> Nat], NEW p \in Proc,
         \A q \in Proc : q # p => g[q] = h[q]
  PROVE  Total(h) \in Nat /\ Total(h) >= h[p] /\ Total(g) = Total(h) - h[p] + g[p]
<1> DEFINE Rest(e) == {x \in PairsOf(e) : x \notin {p} \X (1 .. e[p])}
<1>1. ASSUME NEW e \in [Proc -> Nat]
      PROVE  /\ Total(e) = Cardinality(Rest(e)) + e[p] /\ Cardinality(Rest(e)) \in Nat
             /\ \A x : x \in Rest(e) <=> \E q \in Proc \ {p} : x \in {q} \X (1 .. e[q])
  <2> DEFINE R == Rest(e)
             P == {p} \X (1 .. e[p])
  <2>1. IsFiniteSet(PairsOf(e)) /\ IsFiniteSet(P) /\ Cardinality(P) = e[p]
    BY PairsFinite, CountOne
  <2>2. R \in SUBSET PairsOf(e) /\ R \cap P = {}
    OBVIOUS
  <2>3. P \subseteq PairsOf(e)
    BY PairsAre
  <2>4. PairsOf(e) = R \cup P
    BY <2>3
  <2>5. \A x : x \in R <=> \E q \in Proc \ {p} : x \in {q} \X (1 .. e[q])
    BY PairsAre
  <2>6. Total(e) = Cardinality(PairsOf(e))
    BY DEF Total, PairsOf
  <2> HIDE DEF R, P
  <2>7. IsFiniteSet(R) /\ Cardinality(R) \in Nat
    BY <2>1, <2>2, FS_Subset, FS_CardinalityType
  <2>8. Cardinality(R \cup P) = Cardinality(R) + Cardinality(P) - Cardinality(R \cap P)
    BY <2>1, <2>7, FS_Union
  <2>9. Cardinality(R \cap P) = 0
    BY <2>2, FS_EmptySet
  <2>10. Total(e) = Cardinality(R) + e[p]
    BY <2>1, <2>4, <2>6, <2>7, <2>8, <2>9
  <2>11. QED BY <2>5, <2>7, <2>10 DEF R
<1> HIDE DEF Rest
<1>2. Rest(g) = Rest(h)
  <2>1. \A x : x \in Rest(g) <=> \E q \in Proc \ {p} : x \in {q} \X (1 .. g[q])
    BY <1>1
  <2>2. \A x : x \in Rest(h) <=> \E q \in Proc \ {p} : x \in {q} \X (1 .. h[q])
    BY <1>1
  <2>3. QED BY <2>1, <2>2
<1>3. Total(g) = Cardinality(Rest(g)) + g[p]
  BY <1>1
<1>4. Total(h) = Cardinality(Rest(h)) + h[p] /\ Cardinality(Rest(h)) \in Nat
  BY <1>1
<1>5. QED BY <1>2, <1>3, <1>4

\* Equal parts have equal sums.
LEMMA TotalSame ==
  ASSUME NEW h \in [Proc -> Nat], NEW g \in [Proc -> Nat], \A q \in Proc : g[q] = h[q]
  PROVE  Total(g) = Total(h) /\ Total(h) \in Nat
<1>1. g = h
  OBVIOUS
<1>2. PICK p \in Proc : TRUE
  BY FileSysAssumption
<1>3. QED BY <1>1, <1>2, TotalChange

\* A sum of nothing.
LEMMA TotalZero ==
  ASSUME NEW h \in [Proc -> Nat], \A q \in Proc : h[q] = 0
  PROVE  Total(h) = 0
<1>1. \A x : x \notin PairsOf(h)
  <2>1. \A q \in Proc : {q} \X (1 .. h[q]) = {}
    OBVIOUS
  <2>2. QED BY <2>1, PairsAre
<1>2. PairsOf(h) = {}
  BY <1>1
<1>3. QED BY <1>2, FS_EmptySet DEF Total, PairsOf

\* Two processes' parts of a sum.
LEMMA TotalTwo ==
  ASSUME NEW h \in [Proc -> Nat], NEW p \in Proc, NEW q \in Proc, p # q
  PROVE  Total(h) >= h[p] + h[q] /\ Total(h) \in Nat
<1> DEFINE g == [r \in Proc |-> IF r = p THEN 0 ELSE h[r]]
<1>1. g \in [Proc -> Nat] /\ g[p] = 0 /\ g[q] = h[q] /\ \A r \in Proc : r # p => g[r] = h[r]
  OBVIOUS
<1> HIDE DEF g
<1>2. Total(g) >= g[q] /\ Total(g) \in Nat
  BY <1>1, TotalChange
<1>3. Total(h) \in Nat /\ Total(g) = Total(h) - h[p] + g[p]
  BY <1>1, TotalChange
<1>4. QED BY <1>1, <1>2, <1>3

\* Who has a part makes the sum positive.
LEMMA TotalPositive ==
  ASSUME NEW h \in [Proc -> Nat], Total(h) > 0
  PROVE  \E p \in Proc : h[p] > 0
BY TotalZero

\* The lists of things to do.
Tokened(t, s) == Cardinality(InTodo(t, s))

\* What is left to do holds finitely many references.
LEMMA TodoFinite ==
  ASSUME NEW t \in Seq(Items), NEW s
  PROVE  IsFiniteSet(InTodo(t, s)) /\ Tokened(t, s) \in Nat /\ (s \in SlotsOf(t, Tokens) => Tokened(t, s) >= 1)
<1>1. DOMAIN t = 1 .. Len(t) /\ Len(t) \in Nat
  BY LenProperties
<1>2. IsFiniteSet(1 .. Len(t))
  BY <1>1, FS_Interval
<1>3. InTodo(t, s) \in SUBSET (1 .. Len(t))
  BY <1>1 DEF InTodo
<1>4. IsFiniteSet(InTodo(t, s)) /\ Tokened(t, s) \in Nat
  BY <1>2, <1>3, FS_Subset, FS_CardinalityType DEF Tokened
<1>5. ASSUME s \in SlotsOf(t, Tokens) PROVE Tokened(t, s) # 0
  <2>1. InTodo(t, s) # {}
    BY <1>5 DEF SlotsOf, Tokens, InTodo
  <2>2. QED BY <1>4, <2>1, FS_EmptySet DEF Tokened
<1>6. QED BY <1>4, <1>5

\* A list of one item.
LEMMA TodoDo ==
  ASSUME NEW what \in Tokens \cup Unlocks \cup {"end_op"}, NEW x \in 0 .. NINODE
  PROVE  /\ Do(what, x) \in Seq(Items) /\ Len(Do(what, x)) = 1 /\ DOMAIN Do(what, x) = {1}
         /\ Do(what, x)[1].do = what /\ Do(what, x)[1].slot = x
         /\ \A s : Tokened(Do(what, x), s) = One(what \in Tokens /\ x = s)
         /\ \A W : SlotsOf(Do(what, x), W) = IF what \in W THEN {x} ELSE {}
<1> DEFINE r == [do |-> what, slot |-> x]
           t == Do(what, x)
<1>1. r \in Items /\ r.do = what /\ r.slot = x
  BY DEF Items
<1>2. t = <<r>>
  BY DEF Do
<1> HIDE DEF r, t
<1>3. t \in Seq(Items) /\ Len(t) = 1 /\ DOMAIN t = {1} /\ t[1] = r
  BY <1>1, <1>2
<1>4. ASSUME NEW s PROVE Tokened(t, s) = One(what \in Tokens /\ x = s)
  <2>1. InTodo(t, s) = IF what \in Tokens /\ x = s THEN {1} ELSE {}
    BY <1>1, <1>3 DEF InTodo, Tokens
  <2>2. Cardinality({1}) = 1 /\ Cardinality({}) = 0
    BY FS_Singleton, FS_EmptySet
  <2>3. QED BY <2>1, <2>2 DEF Tokened, One
<1>5. ASSUME NEW W PROVE SlotsOf(t, W) = IF what \in W THEN {x} ELSE {}
  BY <1>1, <1>3 DEF SlotsOf
<1>6. QED BY <1>1, <1>3, <1>4, <1>5 DEF t

\* The empty list.
LEMMA TodoNone ==
  /\ <<>> \in Seq(Items) /\ TodoOK(<<>>)
  /\ \A s : Tokened(<<>>, s) = 0
  /\ \A W : SlotsOf(<<>>, W) = {}
<1>1. <<>> \in Seq(Items) /\ DOMAIN <<>> = {}
  BY EmptySeq, LenProperties
<1>2. ASSUME NEW s PROVE Tokened(<<>>, s) = 0
  <2>1. InTodo(<<>>, s) = {}
    BY <1>1 DEF InTodo
  <2>2. QED BY <2>1, FS_EmptySet DEF Tokened
<1>3. ASSUME NEW W PROVE SlotsOf(<<>>, W) = {}
  BY <1>1 DEF SlotsOf
<1>4. TodoOK(<<>>)
  BY <1>1 DEF TodoOK
<1>5. QED BY <1>1, <1>2, <1>3, <1>4

\* The places of a list of two parts.
LEMMA Joined ==
  ASSUME NEW a \in Seq(Items), NEW b \in Seq(Items)
  PROVE  /\ a \o b \in Seq(Items) /\ Len(a) \in Nat /\ Len(b) \in Nat
         /\ DOMAIN a = 1 .. Len(a) /\ DOMAIN b = 1 .. Len(b) /\ DOMAIN (a \o b) = 1 .. Len(a) + Len(b)
         /\ \A k \in DOMAIN a : k \in DOMAIN (a \o b) /\ (a \o b)[k] = a[k]
         /\ \A k \in DOMAIN b : k + Len(a) \in DOMAIN (a \o b) /\ (a \o b)[k + Len(a)] = b[k]
         /\ \A k \in DOMAIN (a \o b) : k \in DOMAIN a \/ k - Len(a) \in DOMAIN b
<1>1. /\ Len(a) \in Nat /\ Len(b) \in Nat
      /\ DOMAIN a = 1 .. Len(a) /\ DOMAIN b = 1 .. Len(b)
  BY LenProperties
<1> DEFINE c == a \o b
<1>2. /\ c \in Seq(Items) /\ Len(c) = Len(a) + Len(b)
      /\ \A k \in 1 .. Len(a) + Len(b) : c[k] = IF k <= Len(a) THEN a[k] ELSE b[k - Len(a)]
  BY ConcatProperties
<1>3. DOMAIN c = 1 .. Len(a) + Len(b)
  BY <1>2, LenProperties
<1> HIDE DEF c
<1>4. \A k \in DOMAIN a : k \in DOMAIN c /\ c[k] = a[k]
  BY <1>1, <1>2, <1>3
<1>5. \A k \in DOMAIN b : k + Len(a) \in DOMAIN c /\ c[k + Len(a)] = b[k]
  BY <1>1, <1>2, <1>3
<1>6. \A k \in DOMAIN c : k \in DOMAIN a \/ k - Len(a) \in DOMAIN b
  BY <1>1, <1>3
<1>7. QED BY <1>1, <1>2, <1>3, <1>4, <1>5, <1>6 DEF c

\* The references of a list of two parts.
LEMMA TodoConcat ==
  ASSUME NEW a \in Seq(Items), NEW b \in Seq(Items)
  PROVE  /\ a \o b \in Seq(Items)
         /\ \A s : Tokened(a \o b, s) = Tokened(a, s) + Tokened(b, s)
         /\ \A W : SlotsOf(a \o b, W) = SlotsOf(a, W) \cup SlotsOf(b, W)
<1> DEFINE c == a \o b
           n == Len(a)
<1>1. /\ c \in Seq(Items) /\ n \in Nat /\ DOMAIN a = 1 .. n /\ DOMAIN b \subseteq Nat \ {0}
      /\ \A k \in DOMAIN a : k \in DOMAIN c /\ c[k] = a[k]
      /\ \A k \in DOMAIN b : k + n \in DOMAIN c /\ c[k + n] = b[k]
      /\ \A k \in DOMAIN c : k \in Nat /\ (k \in DOMAIN a \/ k - n \in DOMAIN b)
  BY Joined
<1> HIDE DEF c, n
<1>2. ASSUME NEW s PROVE Tokened(c, s) = Tokened(a, s) + Tokened(b, s)
  <2> DEFINE A == InTodo(a, s)
             B == InTodo(b, s)
             M == {k + n : k \in B}
             f == [k \in B |-> k + n]
  <2>1. IsFiniteSet(A) /\ IsFiniteSet(B)
    BY TodoFinite
  <2>2. B \subseteq DOMAIN b /\ A \subseteq DOMAIN a
    BY DEF InTodo
  <2>3. f \in Bijection(B, M)
    <3>1. \A k \in B : k \in Nat
      BY <1>1, <2>2
    <3> HIDE DEF B
    <3>2. f \in Surjection(B, M)
      BY DEF Surjection
    <3>3. f \in Injection(B, M)
      BY <1>1, <3>1 DEF Injection, IsInjective
    <3>4. QED BY <3>2, <3>3 DEF Bijection
  <2>4. IsFiniteSet(M) /\ Cardinality(M) = Cardinality(B)
    BY <2>1, <2>3, FS_Bijection DEF ExistsBijection
  <2>5. InTodo(c, s) = A \cup M
    <3>1. ASSUME NEW k \in InTodo(c, s) PROVE k \in A \cup M
      <4>1. k \in DOMAIN c /\ c[k].do \in {"iput", "decr"} /\ c[k].slot = s /\ k \in Nat
        BY <1>1 DEF InTodo
      <4>2. CASE k \in DOMAIN a
        BY <1>1, <4>1, <4>2 DEF InTodo
      <4>3. CASE k - n \in DOMAIN b
        <5>1. (k - n) + n = k /\ c[(k - n) + n] = b[k - n]
          BY <1>1, <4>1, <4>3
        <5>2. k - n \in B
          BY <4>1, <4>3, <5>1 DEF InTodo
        <5>3. QED BY <5>1, <5>2
      <4>4. QED BY <1>1, <4>1, <4>2, <4>3
    <3>2. ASSUME NEW k \in A PROVE k \in InTodo(c, s)
      BY <1>1 DEF InTodo
    <3>3. ASSUME NEW k \in B PROVE k + n \in InTodo(c, s)
      BY <1>1 DEF InTodo
    <3>4. QED BY <3>1, <3>2, <3>3
  <2>6. A \cap M = {}
    <3>1. \A k \in A : k \in 1 .. n
      BY <1>1, <2>2
    <3>2. \A k \in B : k \in Nat \ {0}
      BY <1>1, <2>2
    <3>3. QED BY <1>1, <3>1, <3>2
  <2> HIDE DEF A, B, M, f
  <2>7. Cardinality(A \cup M) = Cardinality(A) + Cardinality(M) - Cardinality(A \cap M)
    BY <2>1, <2>4, FS_Union
  <2>8. Cardinality(A \cap M) = 0 /\ Cardinality(A) \in Nat /\ Cardinality(M) \in Nat
    BY <2>1, <2>4, <2>6, FS_EmptySet, FS_CardinalityType
  <2>9. QED BY <2>4, <2>5, <2>7, <2>8 DEF Tokened, A, B
<1>3. ASSUME NEW W PROVE SlotsOf(c, W) = SlotsOf(a, W) \cup SlotsOf(b, W)
  <2>1. ASSUME NEW x \in SlotsOf(c, W) PROVE x \in SlotsOf(a, W) \cup SlotsOf(b, W)
    <3>1. PICK k \in DOMAIN c : c[k].do \in W /\ c[k].slot = x
      BY DEF SlotsOf
    <3>2. CASE k \in DOMAIN a
      BY <1>1, <3>1, <3>2 DEF SlotsOf
    <3>3. CASE k - n \in DOMAIN b
      <4>1. (k - n) + n = k /\ c[(k - n) + n] = b[k - n]
        BY <1>1, <3>3
      <4>2. QED BY <3>1, <3>3, <4>1 DEF SlotsOf
    <3>4. QED BY <1>1, <3>2, <3>3
  <2>2. ASSUME NEW x \in SlotsOf(a, W) PROVE x \in SlotsOf(c, W)
    BY <1>1 DEF SlotsOf
  <2>3. ASSUME NEW x \in SlotsOf(b, W) PROVE x \in SlotsOf(c, W)
    BY <1>1 DEF SlotsOf
  <2>4. QED BY <2>1, <2>2, <2>3
<1>4. QED BY <1>1, <1>2, <1>3 DEF c

-----------------------------------------------------------------------------
(* Lists in order, and what the invariant says of references.              *)
\* When a list of two parts is in order.
LEMMA TodoOKConcat ==
  ASSUME NEW a \in Seq(Items), NEW b \in Seq(Items), TodoOK(a), TodoOK(b),
         SlotsOf(a, Unlocks) \cap SlotsOf(b, Unlocks) = {}
  PROVE  TodoOK(a \o b)
<1> DEFINE c == a \o b
           n == Len(a)
<1>1. /\ n \in Nat /\ DOMAIN a = 1 .. n /\ DOMAIN b \subseteq Nat \ {0}
      /\ \A k \in DOMAIN a : k \in DOMAIN c /\ c[k] = a[k]
      /\ \A k \in DOMAIN b : k + n \in DOMAIN c /\ c[k + n] = b[k]
      /\ \A k \in DOMAIN c : k \in Nat /\ (k \in DOMAIN a \/ k - n \in DOMAIN b)
  BY Joined
<1> HIDE DEF c, n
<1>2. ASSUME NEW k \in DOMAIN c
      PROVE  \/ k \in DOMAIN a /\ c[k] = a[k]
             \/ k - n \in DOMAIN b /\ c[k] = b[k - n] /\ k = (k - n) + n
  <2>1. CASE k \in DOMAIN a
    BY <1>1, <2>1
  <2>2. CASE k - n \in DOMAIN b
    <3>1. k \in Nat /\ (k - n) + n = k
      BY <1>1
    <3>2. c[(k - n) + n] = b[k - n]
      BY <1>1, <2>2
    <3>3. QED BY <2>2, <3>1, <3>2
  <2>3. QED BY <1>1, <2>1, <2>2
<1>3. ASSUME NEW k \in DOMAIN c, c[k].do # "end_op" PROVE c[k].slot \in Slot
  BY <1>2, <1>3 DEF TodoOK
<1>4. ASSUME NEW k \in DOMAIN c, c[k].do \in Unlocks
      PROVE  \E l \in DOMAIN c : l > k /\ c[l].do \in Tokens /\ c[l].slot = c[k].slot
  <2>1. CASE k \in DOMAIN a /\ c[k] = a[k]
    <3>1. PICK l \in DOMAIN a : l > k /\ a[l].do \in Tokens /\ a[l].slot = a[k].slot
      BY <1>4, <2>1 DEF TodoOK
    <3>2. QED BY <1>1, <2>1, <3>1
  <2>2. CASE k - n \in DOMAIN b /\ c[k] = b[k - n] /\ k = (k - n) + n
    <3>1. PICK l \in DOMAIN b : l > k - n /\ b[l].do \in Tokens /\ b[l].slot = b[k - n].slot
      BY <1>4, <2>2 DEF TodoOK
    <3>2. l \in Nat /\ k \in Nat /\ l + n \in DOMAIN c /\ c[l + n] = b[l]
      BY <1>1
    <3>3. l + n > k
      BY <1>1, <3>1, <3>2
    <3>4. QED BY <2>2, <3>1, <3>2, <3>3
  <2>3. QED BY <1>2, <2>1, <2>2
<1>5. ASSUME NEW k \in DOMAIN c, NEW l \in DOMAIN c,
             c[k].do \in Unlocks, c[l].do \in Unlocks, c[k].slot = c[l].slot
      PROVE  k = l
  <2>1. ASSUME NEW x \in DOMAIN a, NEW y \in DOMAIN b, a[x].do \in Unlocks, b[y].do \in Unlocks
        PROVE  a[x].slot # b[y].slot
    BY <2>1 DEF SlotsOf
  <2>2. CASE k \in DOMAIN a /\ c[k] = a[k]
    <3>1. CASE l \in DOMAIN a /\ c[l] = a[l]
      BY <1>5, <2>2, <3>1 DEF TodoOK
    <3>2. CASE l - n \in DOMAIN b /\ c[l] = b[l - n] /\ l = (l - n) + n
      BY <1>5, <2>1, <2>2, <3>2
    <3>3. QED BY <1>2, <3>1, <3>2
  <2>3. CASE k - n \in DOMAIN b /\ c[k] = b[k - n] /\ k = (k - n) + n
    <3>1. CASE l \in DOMAIN a /\ c[l] = a[l]
      BY <1>5, <2>1, <2>3, <3>1
    <3>2. CASE l - n \in DOMAIN b /\ c[l] = b[l - n] /\ l = (l - n) + n
      <4>1. k - n = l - n
        BY <1>5, <2>3, <3>2 DEF TodoOK
      <4>2. QED BY <2>3, <3>2, <4>1
    <3>3. QED BY <1>2, <3>1, <3>2
  <2>4. QED BY <1>2, <2>2, <2>3
<1>6. TodoOK(c)
  BY <1>3, <1>4, <1>5 DEF TodoOK
<1>7. QED BY <1>6 DEF c

\* A list of one item is in order.
LEMMA TodoOKDo ==
  ASSUME NEW what \in Tokens \cup {"end_op"}, NEW x \in 0 .. NINODE, what = "end_op" \/ x \in Slot
  PROVE  TodoOK(Do(what, x))
<1>1. what \in Tokens \cup Unlocks \cup {"end_op"}
  OBVIOUS
<1>2. DOMAIN Do(what, x) = {1} /\ Do(what, x)[1].do = what /\ Do(what, x)[1].slot = x
  BY <1>1, TodoDo
<1>3. what \notin Unlocks
  BY DEF Tokens, Unlocks
<1> HIDE DEF Do
<1>4. QED BY <1>2, <1>3 DEF TodoOK

\* An unlock and the iput() after it are in order.
LEMMA TodoOKUnlock ==
  ASSUME NEW what \in Unlocks, NEW x \in Slot, NEW t \in Seq(Items), TodoOK(t),
         x \in SlotsOf(t, Tokens), x \notin SlotsOf(t, Unlocks)
  PROVE  TodoOK(Do(what, x) \o t)
<1> DEFINE a == Do(what, x)
           c == a \o t
<1>1. x \in 0 .. NINODE /\ what # "end_op"
  BY FileSysAssumption DEF Slot, Unlocks
<1>2. a \in Seq(Items) /\ Len(a) = 1 /\ DOMAIN a = {1} /\ a[1].do = what /\ a[1].slot = x
  BY <1>1, TodoDo
<1> HIDE DEF a
<1>3. /\ DOMAIN t \subseteq Nat \ {0} /\ 1 \in DOMAIN c /\ c[1] = a[1]
      /\ \A k \in DOMAIN t : k + 1 \in DOMAIN c /\ c[k + 1] = t[k]
      /\ \A k \in DOMAIN c : k \in Nat /\ (k = 1 \/ k - 1 \in DOMAIN t)
  <2> DEFINE n == Len(a)
  <2>1. /\ DOMAIN t = 1 .. Len(t) /\ Len(t) \in Nat /\ DOMAIN c = 1 .. n + Len(t)
        /\ \A k \in DOMAIN a : k \in DOMAIN c /\ c[k] = a[k]
        /\ \A k \in DOMAIN t : k + n \in DOMAIN c /\ c[k + n] = t[k]
        /\ \A k \in DOMAIN c : k \in DOMAIN a \/ k - n \in DOMAIN t
    BY <1>2, Joined
  <2>2. n = 1
    BY <1>2
  <2> HIDE DEF n, c
  <2>3. QED BY <1>2, <2>1, <2>2
<1> HIDE DEF c
<1>4. ASSUME NEW k \in DOMAIN c
      PROVE  k = 1 \/ (k - 1 \in DOMAIN t /\ c[k] = t[k - 1] /\ k = (k - 1) + 1)
  <2>1. ASSUME k # 1 PROVE k - 1 \in DOMAIN t /\ c[k] = t[k - 1] /\ k = (k - 1) + 1
    <3>1. k - 1 \in DOMAIN t /\ (k - 1) + 1 = k
      BY <1>3, <2>1
    <3>2. c[(k - 1) + 1] = t[k - 1]
      BY <1>3, <3>1
    <3>3. QED BY <3>1, <3>2
  <2>2. QED BY <2>1
<1>5. ASSUME NEW k \in DOMAIN c, c[k].do # "end_op" PROVE c[k].slot \in Slot
  BY <1>2, <1>3, <1>4, <1>5 DEF TodoOK
<1>6. ASSUME NEW k \in DOMAIN c, c[k].do \in Unlocks
      PROVE  \E l \in DOMAIN c : l > k /\ c[l].do \in Tokens /\ c[l].slot = c[k].slot
  <2>1. CASE k = 1
    <3>1. PICK l \in DOMAIN t : t[l].do \in Tokens /\ t[l].slot = x
      BY DEF SlotsOf
    <3>2. l + 1 > 1 /\ l + 1 \in DOMAIN c /\ c[l + 1] = t[l]
      BY <1>3
    <3>3. QED BY <1>2, <1>3, <2>1, <3>1, <3>2
  <2>2. CASE k - 1 \in DOMAIN t /\ c[k] = t[k - 1] /\ k = (k - 1) + 1
    <3>1. PICK l \in DOMAIN t : l > k - 1 /\ t[l].do \in Tokens /\ t[l].slot = t[k - 1].slot
      BY <1>6, <2>2 DEF TodoOK
    <3>2. l \in Nat /\ k \in Nat /\ l + 1 \in DOMAIN c /\ c[l + 1] = t[l]
      BY <1>3
    <3>3. l + 1 > k
      BY <3>1, <3>2
    <3>4. QED BY <2>2, <3>1, <3>2, <3>3
  <2>3. QED BY <1>4, <2>1, <2>2
<1>7. ASSUME NEW k \in DOMAIN c, NEW l \in DOMAIN c,
             c[k].do \in Unlocks, c[l].do \in Unlocks, c[k].slot = c[l].slot
      PROVE  k = l
  <2>1. \A y \in DOMAIN t : t[y].do \in Unlocks => t[y].slot # x
    BY DEF SlotsOf
  <2>2. CASE k = 1 \/ l = 1
    BY <1>2, <1>3, <1>4, <1>7, <2>1, <2>2
  <2>3. CASE k # 1 /\ l # 1
    <3>1. k - 1 \in DOMAIN t /\ c[k] = t[k - 1] /\ k = (k - 1) + 1
      BY <1>4, <2>3
    <3>2. l - 1 \in DOMAIN t /\ c[l] = t[l - 1] /\ l = (l - 1) + 1
      BY <1>4, <2>3
    <3>3. k - 1 = l - 1
      BY <1>7, <3>1, <3>2 DEF TodoOK
    <3>4. QED BY <3>1, <3>2, <3>3
  <2>4. QED BY <2>2, <2>3
<1>8. TodoOK(c)
  BY <1>5, <1>6, <1>7 DEF TodoOK
<1>9. QED BY <1>8 DEF c, a

\* What remains when the first item is done.
LEMMA TodoTail ==
  ASSUME NEW t \in Seq(Items), t # <<>>, TodoOK(t)
  PROVE  LET h == Head(t) IN
         /\ h.do \in Tokens \cup Unlocks \cup {"end_op"} /\ h.slot \in 0 .. NINODE
         /\ h.do # "end_op" => h.slot \in Slot
         /\ Tail(t) \in Seq(Items) /\ TodoOK(Tail(t))
         /\ \A s : Tokened(t, s) = One(h.do \in Tokens /\ h.slot = s) + Tokened(Tail(t), s)
         /\ \A W : SlotsOf(t, W) = (IF h.do \in W THEN {h.slot} ELSE {}) \cup SlotsOf(Tail(t), W)
         /\ h.do \in Unlocks => h.slot \in SlotsOf(Tail(t), Tokens) /\ h.slot \notin SlotsOf(Tail(t), Unlocks)
<1> DEFINE h == Head(t)
           u == Tail(t)
           a == Do(h.do, h.slot)
<1>1. /\ h \in Items /\ u \in Seq(Items) /\ Len(u) = Len(t) - 1 /\ Len(t) \in Nat \ {0}
      /\ \A k \in 1 .. Len(u) : u[k] = t[k + 1]
  BY HeadTailProperties, EmptySeq, LenProperties
<1>2. h = t[1] /\ DOMAIN t = 1 .. Len(t) /\ DOMAIN u = 1 .. Len(u)
  BY <1>1, LenProperties
<1> HIDE DEF u, h
<1>3. h.do \in Tokens \cup Unlocks \cup {"end_op"} /\ h.slot \in 0 .. NINODE
  BY <1>1 DEF Items
<1>4. a \in Seq(Items) /\ Len(a) = 1 /\ a[1] = h
  <2>1. h = [do |-> h.do, slot |-> h.slot]
    BY <1>1 DEF Items
  <2>2. a[1] = [do |-> h.do, slot |-> h.slot]
    BY DEF Do
  <2>3. QED BY <1>3, <2>1, <2>2, TodoDo
<1>5. t = a \o u
  <2> HIDE DEF a
  <2>1. /\ a \o u \in Seq(Items) /\ Len(a \o u) = 1 + Len(u)
        /\ \A k \in 1 .. 1 + Len(u) : (a \o u)[k] = IF k <= 1 THEN a[k] ELSE u[k - 1]
    <3> DEFINE n == Len(a)
               c == a \o u
    <3>1. /\ c \in Seq(Items) /\ Len(c) = n + Len(u)
          /\ \A k \in 1 .. n + Len(u) : c[k] = IF k <= n THEN a[k] ELSE u[k - n]
      BY <1>1, <1>4, ConcatProperties
    <3>2. n = 1
      BY <1>4
    <3> HIDE DEF n, c
    <3>3. /\ c \in Seq(Items) /\ Len(c) = 1 + Len(u)
          /\ \A k \in 1 .. 1 + Len(u) : c[k] = IF k <= 1 THEN a[k] ELSE u[k - 1]
      BY <3>1, <3>2
    <3>4. QED BY <3>3 DEF c
  <2>2. Len(t) = Len(a \o u)
    BY <1>1, <2>1
  <2>3. ASSUME NEW k \in 1 .. Len(t) PROVE t[k] = (a \o u)[k]
    <3>1. CASE k = 1
      BY <1>1, <1>2, <1>4, <2>1, <3>1
    <3>2. CASE k # 1
      <4>1. k - 1 \in 1 .. Len(u) /\ (k - 1) + 1 = k /\ ~ (k <= 1) /\ k \in 1 .. 1 + Len(u)
        BY <1>1, <3>2
      <4>2. u[k - 1] = t[(k - 1) + 1]
        BY <1>1, <4>1
      <4>3. QED BY <2>1, <4>1, <4>2
    <3>3. QED BY <3>1, <3>2
  <2>4. QED BY <2>1, <2>2, <2>3, SeqEqual
<1>6. \A s : Tokened(t, s) = Tokened(a, s) + Tokened(u, s)
  BY <1>1, <1>4, <1>5, TodoConcat
<1>7. \A W : SlotsOf(t, W) = SlotsOf(a, W) \cup SlotsOf(u, W)
  BY <1>1, <1>4, <1>5, TodoConcat
<1>8. /\ \A s : Tokened(a, s) = One(h.do \in Tokens /\ h.slot = s)
      /\ \A W : SlotsOf(a, W) = IF h.do \in W THEN {h.slot} ELSE {}
  <2>1. PICK w : h.do = w
    OBVIOUS
  <2>2. PICK y : h.slot = y
    OBVIOUS
  <2>3. w \in Tokens \cup Unlocks \cup {"end_op"} /\ y \in 0 .. NINODE
    BY <1>3, <2>1, <2>2
  <2>4. /\ \A s : Tokened(Do(w, y), s) = One(w \in Tokens /\ y = s)
        /\ \A W : SlotsOf(Do(w, y), W) = IF w \in W THEN {y} ELSE {}
    BY <2>3, TodoDo
  <2>5. QED BY <2>1, <2>2, <2>4
<1> HIDE DEF a
<1>9. ASSUME NEW k \in DOMAIN u PROVE k + 1 \in DOMAIN t /\ u[k] = t[k + 1] /\ k \in Nat \ {0}
  BY <1>1, <1>2
<1>10. ASSUME NEW k \in DOMAIN t, k > 1 PROVE k - 1 \in DOMAIN u /\ u[k - 1] = t[k] /\ k \in Nat
  <2>1. k - 1 \in 1 .. Len(u) /\ (k - 1) + 1 = k /\ k \in Nat
    BY <1>1, <1>2, <1>10
  <2>2. QED BY <1>2, <1>9, <2>1
<1>11. TodoOK(u)
  <2>1. ASSUME NEW k \in DOMAIN u, u[k].do # "end_op" PROVE u[k].slot \in Slot
    BY <1>9, <2>1 DEF TodoOK
  <2>2. ASSUME NEW k \in DOMAIN u, u[k].do \in Unlocks
        PROVE  \E l \in DOMAIN u : l > k /\ u[l].do \in Tokens /\ u[l].slot = u[k].slot
    <3>1. PICK l \in DOMAIN t : l > k + 1 /\ t[l].do \in Tokens /\ t[l].slot = t[k + 1].slot
      BY <1>9, <2>2 DEF TodoOK
    <3>2. k \in Nat \ {0} /\ l \in Nat /\ l > 1
      BY <1>1, <1>2, <1>9, <3>1
    <3>3. l - 1 \in DOMAIN u /\ u[l - 1] = t[l] /\ l - 1 > k
      BY <1>10, <3>1, <3>2
    <3>4. QED BY <1>9, <3>1, <3>3
  <2>3. ASSUME NEW k \in DOMAIN u, NEW l \in DOMAIN u,
               u[k].do \in Unlocks, u[l].do \in Unlocks, u[k].slot = u[l].slot
        PROVE  k = l
    <3>1. k + 1 = l + 1
      BY <1>9, <2>3 DEF TodoOK
    <3>2. QED BY <1>9, <3>1
  <2>4. QED BY <2>1, <2>2, <2>3 DEF TodoOK
<1>12. 1 \in DOMAIN t
  BY <1>1, <1>2
<1>13. h.do # "end_op" => h.slot \in Slot
  BY <1>2, <1>12 DEF TodoOK
<1>14. ASSUME h.do \in Unlocks PROVE h.slot \in SlotsOf(u, Tokens) /\ h.slot \notin SlotsOf(u, Unlocks)
  <2>1. PICK l \in DOMAIN t : l > 1 /\ t[l].do \in Tokens /\ t[l].slot = h.slot
    BY <1>2, <1>12, <1>14 DEF TodoOK
  <2>2. h.slot \in SlotsOf(u, Tokens)
    BY <1>10, <2>1 DEF SlotsOf
  <2>3. ASSUME NEW k \in DOMAIN u, u[k].do \in Unlocks, u[k].slot = h.slot PROVE FALSE
    <3>1. k + 1 \in DOMAIN t /\ u[k] = t[k + 1] /\ k \in Nat \ {0}
      BY <1>9
    <3>2. k + 1 = 1
      BY <1>2, <1>12, <1>14, <2>3, <3>1 DEF TodoOK
    <3>3. QED BY <3>1, <3>2
  <2>4. QED BY <2>2, <2>3 DEF SlotsOf
<1>15. QED BY <1>1, <1>3, <1>6, <1>7, <1>8, <1>11, <1>13, <1>14 DEF u, h

\* Who unlocks a slot has a reference to it.
LEMMA UnlocksHaveTokens ==
  ASSUME NEW t, TodoOK(t), NEW s \in SlotsOf(t, Unlocks)
  PROVE  s \in Slot /\ s \in SlotsOf(t, Tokens)
<1>1. PICK k \in DOMAIN t : t[k].do \in Unlocks /\ t[k].slot = s
  BY DEF SlotsOf
<1>2. t[k].do # "end_op"
  BY <1>1 DEF Unlocks
<1>3. QED BY <1>1, <1>2 DEF TodoOK, SlotsOf

Held(p, s) == HeldBy(st[p], cwd[p], s)

\* Numbers of references are numbers.
LEMMA HeldNat ==
  ASSUME NEW r, r.todo \in Seq(Items), NEW dir, NEW s
  PROVE  HeldBy(r, dir, s) \in Nat /\ HeldBy(r, dir, s) =
            One(HoldsAt(r) /\ r.at = s) + One(HoldsDp(r) /\ r.dp = s)
            + One(HoldsIp(r) /\ r.ip = s) + One(dir = s) + Tokened(r.todo, s)
<1>1. Tokened(r.todo, s) \in Nat
  BY TodoFinite
<1>2. \A c : One(c) \in Nat
  BY DEF One
<1>3. QED BY <1>1, <1>2 DEF HeldBy, Tokened

\* The same, of all the processes.
LEMMA HeldFun ==
  ASSUME Types, NEW s
  PROVE  /\ [p \in Proc |-> HeldBy(st[p], cwd[p], s)] \in [Proc -> Nat]
         /\ \A p \in Proc : Held(p, s) \in Nat
<1>1. \A p \in Proc : st[p].todo \in Seq(Items)
  BY DEF Types, Control
<1>2. \A p \in Proc : Held(p, s) \in Nat
  BY <1>1, HeldNat DEF Held
<1>3. QED BY <1>2 DEF Held

\* There are finitely many files.
LEMMA FilesFinite == \A s : IsFiniteSet(FilesOf(s)) /\ Cardinality(FilesOf(s)) \in Nat
<1>1. IsFiniteSet(File)
  <2>1. 1 \in Int /\ NFILE \in Int
    BY FileSysAssumption
  <2>2. QED BY <2>1, FS_Interval DEF File
<1>2. \A s : FilesOf(s) \in SUBSET File
  BY DEF FilesOf
<1>3. QED BY <1>1, <1>2, FS_Subset, FS_CardinalityType

\* What a slot's count is at least.
LEMMA RefsAtLeast ==
  ASSUME Types, Counted, NEW s \in Slot
  PROVE  /\ \A p \in Proc : itable[s].ref >= Held(p, s) + Cardinality(FilesOf(s)) /\ Held(p, s) \in Nat
         /\ \A p, q \in Proc : p # q => itable[s].ref >= Held(p, s) + Held(q, s)
         /\ Cardinality(FilesOf(s)) \in Nat
         /\ itable[s].ref \in Nat
<1> DEFINE h == [p \in Proc |-> HeldBy(st[p], cwd[p], s)]
<1>1. h \in [Proc -> Nat] /\ \A p \in Proc : h[p] = Held(p, s)
  BY HeldFun DEF Held
<1>2. itable[s].ref = Cardinality(FilesOf(s)) + Total(h)
  BY DEF Counted, RefsTo
<1>3. Cardinality(FilesOf(s)) \in Nat
  BY FilesFinite
<1> HIDE DEF h
<1>4. ASSUME NEW p \in Proc PROVE Total(h) >= h[p] /\ Total(h) \in Nat
  BY <1>1, TotalChange
<1>5. ASSUME NEW p \in Proc, NEW q \in Proc, p # q PROVE Total(h) >= h[p] + h[q]
  BY <1>1, <1>5, TotalTwo
<1>6. PICK p0 \in Proc : TRUE
  BY FileSysAssumption
<1>7. Total(h) \in Nat /\ \A p \in Proc : h[p] \in Nat
  BY <1>1, <1>4, <1>6
<1>8. itable[s].ref \in Nat
  BY <1>2, <1>3, <1>7
<1>9. ASSUME NEW p \in Proc
      PROVE  itable[s].ref >= Held(p, s) + Cardinality(FilesOf(s)) /\ Held(p, s) \in Nat
  BY <1>1, <1>2, <1>3, <1>4, <1>7
<1>10. ASSUME NEW p \in Proc, NEW q \in Proc, p # q PROVE itable[s].ref >= Held(p, s) + Held(q, s)
  BY <1>1, <1>2, <1>3, <1>5, <1>7, <1>10
<1>11. QED BY <1>3, <1>8, <1>9, <1>10

\* The inode of an open file is counted.
LEMMA FileRefs ==
  ASSUME Types, Counted, NEW s \in Slot, NEW f \in File, ftable[f].ref > 0, ftable[f].ip = s
  PROVE  Cardinality(FilesOf(s)) >= 1
<1>1. FilesOf(s) # {}
  BY DEF FilesOf
<1>2. QED BY <1>1, FilesFinite, FS_EmptySet

\* The references that a process in some place holds.
LEMMA Holds ==
  ASSUME Types, NEW p \in Proc, NEW s
  PROVE  /\ HoldsAt(st[p]) /\ st[p].at = s => Held(p, s) >= 1
         /\ HoldsDp(st[p]) /\ st[p].dp = s => Held(p, s) >= 1
         /\ HoldsIp(st[p]) /\ st[p].ip = s => Held(p, s) >= 1
         /\ cwd[p] = s => Held(p, s) >= 1
         /\ Held(p, s) >= Tokened(st[p].todo, s)
         /\ s \in SlotsOf(st[p].todo, Tokens) => Tokened(st[p].todo, s) >= 1
         /\ HoldsDp(st[p]) /\ st[p].dp = s => Held(p, s) >= Tokened(st[p].todo, s) + 1
         /\ HoldsIp(st[p]) /\ st[p].ip = s => Held(p, s) >= Tokened(st[p].todo, s) + 1
         /\ HoldsAt(st[p]) /\ st[p].at = s => Held(p, s) >= Tokened(st[p].todo, s) + 1
         /\ cwd[p] = s => Held(p, s) >= Tokened(st[p].todo, s) + 1
         /\ Tokened(st[p].todo, s) \in Nat
<1>1. st[p].todo \in Seq(Items)
  BY DEF Types, Control
<1>2. /\ Tokened(st[p].todo, s) \in Nat
      /\ s \in SlotsOf(st[p].todo, Tokens) => Tokened(st[p].todo, s) >= 1
  BY <1>1, TodoFinite
<1> DEFINE r == st[p]
           a == One(HoldsAt(r) /\ r.at = s)
           d == One(HoldsDp(r) /\ r.dp = s)
           i == One(HoldsIp(r) /\ r.ip = s)
           c == One(cwd[p] = s)
<1>3. Held(p, s) = a + d + i + c + Tokened(st[p].todo, s)
  BY <1>1, HeldNat DEF Held
<1>4. a \in Nat /\ d \in Nat /\ i \in Nat /\ c \in Nat
  BY DEF One
<1>5. /\ HoldsAt(r) /\ r.at = s => a = 1
      /\ HoldsDp(r) /\ r.dp = s => d = 1
      /\ HoldsIp(r) /\ r.ip = s => i = 1
      /\ cwd[p] = s => c = 1
  BY DEF One
<1> HIDE DEF r, a, d, i, c
<1>6. QED BY <1>2, <1>3, <1>4, <1>5 DEF r

\* A slot that a process has locked, or is about to free, is one that it refers to.
LEMMA LocksAreHeld ==
  ASSUME Types, NEW p \in Proc, Local(p), NEW s
  PROVE  /\ s \in SlotsOf(st[p].todo, Unlocks) => s \in Slot /\ Held(p, s) >= 1 /\ Tokened(st[p].todo, s) >= 1
         /\ s \in PcLocks(st[p]) => s \in Slot /\ Held(p, s) >= 1 /\ Held(p, s) >= Tokened(st[p].todo, s) + 1
         /\ s \in SlotsOf(st[p].todo, {"invalid"}) => s \in SlotsOf(st[p].todo, Unlocks)
<1>1. ASSUME s \in SlotsOf(st[p].todo, Unlocks)
      PROVE  s \in Slot /\ s \in SlotsOf(st[p].todo, Tokens)
  BY <1>1, UnlocksHaveTokens DEF Local
<1>2. ASSUME s \in PcLocks(st[p])
      PROVE  s \in Slot /\ ((HoldsDp(st[p]) /\ st[p].dp = s) \/ (HoldsIp(st[p]) /\ st[p].ip = s))
  <2>1. CASE st[p].pc \in {"unlinkip", "fill"}
    <3>1. s = st[p].dp
      BY <1>2, <2>1 DEF PcLocks
    <3>2. HoldsDp(st[p])
      BY <2>1 DEF HoldsDp
    <3>3. QED BY <3>1, <3>2 DEF Local, Holding
  <2>2. CASE st[p].pc \in {"unlinked", "made"}
    <3>1. s = st[p].ip
      BY <1>2, <2>2 DEF PcLocks
    <3>2. HoldsIp(st[p])
      BY <2>2 DEF HoldsIp
    <3>3. QED BY <3>1, <3>2 DEF Local, Holding
  <2>3. QED BY <1>2, <2>1, <2>2 DEF PcLocks
<1>3. s \in SlotsOf(st[p].todo, {"invalid"}) => s \in SlotsOf(st[p].todo, Unlocks)
  BY DEF SlotsOf, Unlocks
<1>4. /\ s \in SlotsOf(st[p].todo, Tokens) => Tokened(st[p].todo, s) >= 1
      /\ Held(p, s) >= Tokened(st[p].todo, s) /\ Tokened(st[p].todo, s) \in Nat
      /\ HoldsDp(st[p]) /\ st[p].dp = s => Held(p, s) >= Tokened(st[p].todo, s) + 1
      /\ HoldsIp(st[p]) /\ st[p].ip = s => Held(p, s) >= Tokened(st[p].todo, s) + 1
      /\ Held(p, s) \in Nat
  BY Holds, HeldFun
<1>5. QED BY <1>1, <1>2, <1>3, <1>4

\* The inode that ilock() finds is the one on the disk.
LEMMA InodeIsDisk ==
  ASSUME IInv, NEW p \in Proc, st[p].todo = <<>>, NEW s \in Slot, itable[s].ref > 0,
         itable[s].lock \in {p, NoProc}
  PROVE  /\ Inode(s) = disk.inode[itable[s].inum] /\ itable[s].inum \in Inum /\ ~ Going(s)
         /\ Inode(s) \in Dinodes
<1>1. ASSUME Going(s) PROVE FALSE
  <2>1. PICK q \in Proc : s \in SlotsOf(st[q].todo, {"invalid"})
    BY <1>1 DEF Going
  <2>2. q # p
    BY <2>1, TodoNone
  <2>3. Local(q) /\ Types
    BY DEF IInv
  <2>4. s \in SlotsOf(st[q].todo, Unlocks)
    BY <2>1, <2>3, LocksAreHeld
  <2>5. itable[s].lock = q
    BY <2>3, <2>4 DEF Local, Locked
  <2>6. q # NoProc
    BY FileSysAssumption
  <2>7. QED BY <2>2, <2>5, <2>6
<1>2. itable[s].valid => itable[s].d = disk.inode[itable[s].inum]
  BY <1>1 DEF IInv, Agree, Steady
<1>3. itable[s].inum \in Inum
  BY DEF IInv, Named2
<1>4. disk.inode[itable[s].inum] \in Dinodes
  BY <1>3 DEF IInv, Sound, Images
<1>5. QED BY <1>1, <1>2, <1>3, <1>4 DEF Inode

Tables == [Slot -> Slots]

\* An inode without a type.
LEMMA FreeInodeType == FreeInode \in Dinodes
BY NoAddrsType DEF FreeInode, Dinode, Dinodes, Kinds

LoadedAs(T, L, s, d, who) ==
    /\ L \in Tables /\ L[s].valid = TRUE /\ L[s].d = d /\ L[s].lock = who
    /\ L[s].ref = T[s].ref /\ L[s].inum = T[s].inum
    /\ \A t \in Slot : t # s => L[t] = T[t]

\* What Loaded() makes of a table.
LEMMA LoadedFacts ==
  ASSUME NEW T \in Tables, NEW s \in Slot, NEW d \in Dinodes, NEW who \in Proc \cup {NoProc}
  PROVE  LoadedAs(T, Loaded(T, s, d, who), s, d, who)
<1> DEFINE r == [[[T[s] EXCEPT !.valid = TRUE] EXCEPT !.d = d] EXCEPT !.lock = who]
           L == Loaded(T, s, d, who)
<1>1. T[s] \in Slots
  BY DEF Tables
<1>2. r \in Slots /\ r.valid = TRUE /\ r.d = d /\ r.lock = who /\ r.ref = T[s].ref /\ r.inum = T[s].inum
  BY <1>1 DEF Slots
<1>3. L = [T EXCEPT ![s] = r]
  BY DEF Loaded, Tables
<1> HIDE DEF r, L
<1>4. L \in Tables /\ L[s] = r /\ \A t \in Slot : t # s => L[t] = T[t]
  BY <1>2, <1>3 DEF Tables
<1>5. LoadedAs(T, L, s, d, who)
  BY <1>2, <1>4 DEF LoadedAs
<1>6. QED BY <1>5 DEF L

\* What iget() and idup() do: a slot x of inode i has one reference more.
Got(T, T2, i, x) ==
    /\ x \in Slot /\ T2 \in Tables
    /\ \A s \in Slot : s # x => T2[s] = T[s]
    /\ T2[x].ref = T[x].ref + 1 /\ T2[x].inum = i
    /\ T[x].ref > 0 => T[x].inum = i /\ T2[x].valid = T[x].valid /\ T2[x].d = T[x].d /\ T2[x].lock = T[x].lock
    /\ T[x].ref = 0 => ~ T2[x].valid /\ \A s \in Slot : T[s].ref > 0 => T[s].inum # i

Distinct(T) == /\ \A s \in Slot : T[s].ref > 0 => T[s].inum \in Inum
               /\ \A s, t \in Slot : s # t /\ T[s].ref > 0 /\ T[t].ref > 0 => T[s].inum # T[t].inum

\* idup() takes one reference.
LEMMA IdupGot ==
  ASSUME NEW T \in Tables, NEW s \in Slot, T[s].ref > 0
  PROVE  Got(T, Idup(T, s), T[s].inum, s)
<1> DEFINE r == [T[s] EXCEPT !.ref = T[s].ref + 1]
           L == Idup(T, s)
<1>1. T[s] \in Slots
  BY DEF Tables
<1>2. r \in Slots /\ r.ref = T[s].ref + 1 /\ r.inum = T[s].inum /\ r.valid = T[s].valid
      /\ r.d = T[s].d /\ r.lock = T[s].lock
  BY <1>1 DEF Slots
<1>3. L = [T EXCEPT ![s] = r]
  BY DEF Idup, Tables
<1> HIDE DEF r, L
<1>4. L \in Tables /\ L[s] = r /\ \A t \in Slot : t # s => L[t] = T[t]
  BY <1>2, <1>3 DEF Tables
<1>5. Got(T, L, T[s].inum, s)
  BY <1>2, <1>4 DEF Got
<1>6. QED BY <1>5 DEF L

\* iget() takes one reference, to the one slot of the inode.
LEMMA IgetGot ==
  ASSUME NEW T \in Tables, Distinct(T), NEW i \in Inum, Room(T, i)
  PROVE  Got(T, Iget(T, i).tab, i, Iget(T, i).slot)
<1> DEFINE x == Iget(T, i).slot
           T2 == Iget(T, i).tab
<1>1. Slot \subseteq Nat
  BY FileSysAssumption DEF Slot
<1>2. CASE Has(T, i) # {}
  <2>1. x = Min(Has(T, i)) /\ T2 = Idup(T, x)
    BY <1>2 DEF Iget, Idup
  <2>2. Has(T, i) \subseteq Nat
    BY <1>1 DEF Has
  <2> HIDE DEF x, T2
  <2>3. x \in Has(T, i)
    BY <1>2, <2>1, <2>2, Smallest
  <2>4. x \in Slot /\ T[x].ref > 0 /\ T[x].inum = i
    BY <2>3 DEF Has
  <2>5. QED BY <2>1, <2>4, IdupGot DEF x, T2
<1>3. CASE Has(T, i) = {}
  <2> DEFINE r == [[FreeSlot EXCEPT !.inum = i] EXCEPT !.ref = 1]
  <2>1. x = Min(Vacant(T)) /\ T2 = [T EXCEPT ![x] = r]
    BY <1>3 DEF Iget
  <2>2. Vacant(T) # {} /\ Vacant(T) \subseteq Nat
    BY <1>1, <1>3 DEF Vacant, Room
  <2> HIDE DEF x, T2
  <2>3. x \in Vacant(T)
    BY <2>1, <2>2, Smallest
  <2>4. x \in Slot /\ T[x].ref = 0
    BY <2>3 DEF Vacant
  <2>5. r \in Slots /\ r.inum = i /\ r.ref = 1 /\ r.valid = FALSE
    <3>1. FreeInode \in Dinodes
      BY FreeInodeType
    <3>2. FreeSlot \in Slots /\ FreeSlot.valid = FALSE
      BY <3>1, Sizes DEF FreeSlot, Slots
    <3>3. i \in 0 .. NINODES
      BY Sizes DEF Inum
    <3>4. QED BY <3>2, <3>3 DEF Slots
  <2> HIDE DEF r
  <2>6. T2 \in Tables /\ T2[x] = r /\ \A s \in Slot : s # x => T2[s] = T[s]
    BY <2>1, <2>4, <2>5 DEF Tables
  <2>7. \A s \in Slot : T[s].ref > 0 => T[s].inum # i
    BY <1>3 DEF Has
  <2>8. Got(T, T2, i, x)
    BY <2>4, <2>5, <2>6, <2>7 DEF Got
  <2>9. QED BY <2>8 DEF x, T2
<1>4. QED BY <1>2, <1>3

-----------------------------------------------------------------------------
(* Steps: what of the invariant they keep.                                 *)
\* What a step of process p may make of the table and of the image: T and D
\* come of itable and disk by loading the slots in W and by taking references.
Keeps(p, W, T, D) ==
    /\ T \in Tables /\ W \subseteq Slot
    /\ \A s \in Slot : itable[s].ref > 0 => T[s].ref > 0 /\ T[s].inum = itable[s].inum
    /\ \A s \in Slot \ W : itable[s].ref > 0 => T[s].valid = itable[s].valid /\ T[s].d = itable[s].d
    /\ \A s \in Slot : itable[s].ref > 0 /\ itable[s].lock \notin {p, NoProc} => T[s].lock = itable[s].lock
    /\ \A s \in W : /\ itable[s].ref > 0 /\ itable[s].lock \in {p, NoProc}
                    /\ T[s].valid /\ T[s].d = D.inode[itable[s].inum] /\ T[s].d.type # "none"
    /\ \A s \in Slot : itable[s].ref = 0 /\ T[s].ref > 0 => ~ T[s].valid
    /\ Distinct(T)
    /\ \A i \in Inum : disk.inode[i].type # "none" => D.inode[i].type = disk.inode[i].type
    /\ \A i \in Inum : disk.inode[i].type # "none" =>
          \/ D.inode[i] = disk.inode[i]
          \/ \E s \in W : itable[s].inum = i

\* A step that changes nothing.
LEMMA KeepsNothing ==
  ASSUME Types, Named2, NEW p
  PROVE  Keeps(p, {}, itable, disk)
BY DEF Types, Named2, Keeps, Tables, Distinct, Slots

\* A step that loads, or changes, one slot more.
LEMMA KeepsLoaded ==
  ASSUME Types, Named2, NEW p \in Proc, NEW W, NEW T, NEW D, Keeps(p, W, T, D),
         NEW s \in Slot, itable[s].ref > 0, itable[s].lock \in {p, NoProc}, NEW who \in {p, NoProc},
         NEW E, NEW d \in Dinodes, E.inode[itable[s].inum] = d, d.type # "none",
         disk.inode[itable[s].inum].type \in {"none", d.type},
         \A j \in Inum : j # itable[s].inum => E.inode[j] = D.inode[j]
  PROVE  Keeps(p, W \cup {s}, Loaded(T, s, d, who), E)
<1> DEFINE L == Loaded(T, s, d, who)
           V == W \cup {s}
<1>1. who \in Proc \cup {NoProc} /\ T \in Tables
  BY DEF Keeps
<1>2. /\ L \in Tables /\ L[s].valid = TRUE /\ L[s].d = d /\ L[s].lock = who
      /\ L[s].ref = T[s].ref /\ L[s].inum = T[s].inum
      /\ \A t \in Slot : t # s => L[t] = T[t]
  <2>1. T \in Tables /\ s \in Slot /\ d \in Dinodes /\ who \in Proc \cup {NoProc}
    BY <1>1
  <2>2. LoadedAs(T, L, s, d, who)
    BY <2>1, LoadedFacts
  <2>3. QED BY <2>2 DEF LoadedAs
<1> HIDE DEF L
<1>3. V \subseteq Slot
  BY DEF Keeps
<1>4. \A t \in Slot : itable[t].ref > 0 => L[t].ref > 0 /\ L[t].inum = itable[t].inum
  BY <1>2 DEF Keeps
<1>5. \A t \in Slot \ V : itable[t].ref > 0 => L[t].valid = itable[t].valid /\ L[t].d = itable[t].d
  BY <1>2 DEF Keeps
<1>6. \A t \in Slot : itable[t].ref > 0 /\ itable[t].lock \notin {p, NoProc} => L[t].lock = itable[t].lock
  BY <1>2 DEF Keeps
<1>7. ASSUME NEW t \in V
      PROVE  /\ itable[t].ref > 0 /\ itable[t].lock \in {p, NoProc}
             /\ L[t].valid /\ L[t].d = E.inode[itable[t].inum] /\ L[t].d.type # "none"
  <2>1. CASE t = s
    BY <1>2, <2>1
  <2>2. CASE t # s
    <3>1. t \in W /\ t \in Slot /\ itable[t].ref > 0
      BY <1>3, <2>2 DEF Keeps
    <3>2. itable[t].inum # itable[s].inum /\ itable[t].inum \in Inum
      BY <2>2, <3>1 DEF Named2
    <3>3. L[t] = T[t] /\ E.inode[itable[t].inum] = D.inode[itable[t].inum]
      BY <1>2, <2>2, <3>1, <3>2
    <3>4. QED BY <3>1, <3>3 DEF Keeps
  <2>3. QED BY <2>1, <2>2
<1>8. \A t \in Slot : itable[t].ref = 0 /\ L[t].ref > 0 => ~ L[t].valid
  BY <1>2 DEF Keeps
<1>9. Distinct(L)
  BY <1>2 DEF Keeps, Distinct
<1>10. \A i \in Inum : disk.inode[i].type # "none" => E.inode[i].type = disk.inode[i].type
  BY DEF Keeps
<1>11. \A i \in Inum : disk.inode[i].type # "none" =>
          \/ E.inode[i] = disk.inode[i]
          \/ \E t \in V : itable[t].inum = i
  BY DEF Keeps
<1>12. QED BY <1>2, <1>3, <1>4, <1>5, <1>6, <1>7, <1>8, <1>9, <1>10, <1>11 DEF Keeps, L

\* A step that takes one reference more.
LEMMA KeepsGot ==
  ASSUME Types, NEW p \in Proc, NEW W, NEW T, NEW D, Keeps(p, W, T, D),
         NEW i \in Inum, NEW x, NEW T2, Got(T, T2, i, x)
  PROVE  Keeps(p, W, T2, D)
<1>1. /\ x \in Slot /\ T2 \in Tables
      /\ \A s \in Slot : s # x => T2[s] = T[s]
      /\ T2[x].ref = T[x].ref + 1 /\ T2[x].inum = i
      /\ T[x].ref > 0 => T[x].inum = i /\ T2[x].valid = T[x].valid /\ T2[x].d = T[x].d /\ T2[x].lock = T[x].lock
      /\ T[x].ref = 0 => ~ T2[x].valid /\ \A s \in Slot : T[s].ref > 0 => T[s].inum # i
  BY DEF Got
<1>2. \A s \in Slot : T[s].ref \in Nat /\ itable[s].ref \in Nat
  BY DEF Keeps, Tables, Slots, Types
<1>3. \A s \in Slot : itable[s].ref > 0 => T2[s].ref > 0 /\ T2[s].inum = itable[s].inum
  BY <1>1, <1>2 DEF Keeps
<1>4. \A s \in Slot : itable[s].ref > 0 => T2[s].valid = T[s].valid /\ T2[s].d = T[s].d /\ T2[s].lock = T[s].lock
  BY <1>1, <1>2 DEF Keeps
<1>5. \A s \in Slot : itable[s].ref = 0 /\ T2[s].ref > 0 => ~ T2[s].valid
  <2>1. ASSUME NEW s \in Slot, itable[s].ref = 0, T2[s].ref > 0 PROVE ~ T2[s].valid
    <3>1. CASE T[s].ref > 0
      BY <1>1, <2>1, <3>1 DEF Keeps
    <3>2. CASE T[s].ref = 0
      BY <1>1, <2>1, <3>2
    <3>3. QED BY <1>2, <3>1, <3>2
  <2>2. QED BY <2>1
<1>6. Distinct(T2)
  <2>1. ASSUME NEW s \in Slot, s # x, T2[s].ref > 0 PROVE T2[s].inum # i
    BY <1>1, <1>2, <2>1 DEF Keeps, Distinct
  <2>2. QED BY <1>1, <2>1 DEF Keeps, Distinct
<1>7. QED BY <1>1, <1>3, <1>4, <1>5, <1>6 DEF Keeps

\* ialloc() changes an inode that had no type.
LEMMA KeepsAlloc ==
  ASSUME Types, Named2, NEW p \in Proc, NEW W, NEW T, NEW D, Keeps(p, W, T, D),
         NEW i \in Inum, disk.inode[i].type = "none", NEW E,
         \A j \in Inum : j # i => E.inode[j] = D.inode[j],
         \A s \in W : itable[s].inum # i
  PROVE  Keeps(p, W, T, E)
<1>1. \A s \in W : s \in Slot /\ itable[s].ref > 0 /\ itable[s].inum \in Inum
  BY DEF Keeps, Named2
<1>2. \A s \in W : E.inode[itable[s].inum] = D.inode[itable[s].inum]
  BY <1>1
<1>3. QED BY <1>2 DEF Keeps

\* A step that unlocks a slot.
LEMMA KeepsUnlock ==
  ASSUME Types, Named2, NEW p \in Proc, NEW s \in Slot, itable[s].lock \in {p, NoProc}
  PROVE  Keeps(p, {}, [itable EXCEPT ![s].lock = NoProc], disk)
<1> DEFINE T == [itable EXCEPT ![s].lock = NoProc]
<1>1. T \in Tables /\ \A t \in Slot : /\ T[t].ref = itable[t].ref /\ T[t].inum = itable[t].inum
                                      /\ T[t].valid = itable[t].valid /\ T[t].d = itable[t].d
                                      /\ t # s => T[t].lock = itable[t].lock
  BY DEF Types, Tables, Slots
<1>2. \A t \in Slot : itable[t].ref \in Nat
  BY DEF Types, Slots
<1> HIDE DEF T
<1>3. Keeps(p, {}, T, disk)
  BY <1>1, <1>2 DEF Keeps, Distinct, Named2
<1>4. QED BY <1>3 DEF T

\* What the other processes have is not changed by a step of p.
Elsewhere(p) == \A q \in Proc \ {p} :
    /\ st'[q] = st[q] /\ cwd'[q] = cwd[q]
    /\ \A fd \in Fd : ofile'[q][fd] = ofile[q][fd]
    /\ \A fd \in Fd : ofile[q][fd] # 0 => ftable'[ofile[q][fd]].writable = ftable[ofile[q][fd]].writable
\* A new inode is one that p is about to fill, and one that was is loaded.
Fills(p, W) ==
    /\ st[p].pc = "fill" => st[p].ip \in W
    /\ \A i \in Inum : disk.inode[i].type = "none" /\ disk'.inode[i].type # "none" =>
          \E s \in Slot : itable'[s].ref > 0 /\ itable'[s].inum = i /\ st'[p].pc = "fill" /\ st'[p].ip = s

\* Agree is kept.
LEMMA KeepsAgree ==
  ASSUME IInv, NEW p \in Proc, st[p].todo = <<>>, NEW W, Keeps(p, W, itable', disk'),
         \A q \in Proc : q # p => st'[q] = st[q]
  PROVE  Agree' /\ Named2'
<1>1. Types /\ Agree /\ Named2
  BY DEF IInv
<1>2. Named2'
  BY DEF Keeps, Distinct, Named2
<1>3. ASSUME NEW s \in Slot, itable'[s].ref > 0, itable'[s].valid, ~ Going(s)'
      PROVE  itable'[s].d = disk'.inode[itable'[s].inum] /\ itable'[s].d.type # "none"
  <2>1. itable[s].ref \in Nat
    BY <1>1 DEF Types, Slots
  <2>2. itable[s].ref > 0 /\ itable'[s].inum = itable[s].inum
    BY <1>3, <2>1 DEF Keeps
  <2>3. CASE s \in W
    BY <2>2, <2>3 DEF Keeps
  <2>4. CASE s \notin W
    <3>1. itable[s].valid /\ itable'[s].d = itable[s].d
      BY <1>3, <2>2, <2>4 DEF Keeps
    <3>2. ~ Going(s)
      <4>1. ASSUME NEW q \in Proc PROVE s \notin SlotsOf(st[q].todo, {"invalid"})
        <5>1. CASE q = p
          BY <5>1, TodoNone
        <5>2. CASE q # p
          BY <1>3, <5>2 DEF Going
        <5>3. QED BY <5>1, <5>2
      <4>2. QED BY <4>1 DEF Going
    <3>3. itable[s].d = disk.inode[itable[s].inum] /\ itable[s].d.type # "none" /\ itable[s].inum \in Inum
      BY <1>1, <2>2, <3>1, <3>2 DEF Agree, Steady, Named2
    <3>4. ASSUME NEW t \in W PROVE itable[t].inum # itable[s].inum
      BY <1>1, <2>2, <2>4 DEF Keeps, Named2
    <3>5. disk'.inode[itable[s].inum] = disk.inode[itable[s].inum]
      BY <3>3, <3>4 DEF Keeps
    <3>6. QED BY <2>2, <3>1, <3>3, <3>5
  <2>5. QED BY <2>3, <2>4
<1>4. Agree'
  BY <1>3 DEF Agree, Steady
<1>5. QED BY <1>2, <1>4

\* Kept is kept.
LEMMA KeepsKept ==
  ASSUME IInv, NEW p \in Proc, st[p].todo = <<>>, NEW W, Keeps(p, W, itable', disk'),
         \A q \in Proc : q # p => st'[q] = st[q],
         SlotsOf(st'[p].todo, {"invalid"}) = {}, Fills(p, W), lost' = lost
  PROVE  Kept'
<1>1. Types /\ Kept /\ Named2
  BY DEF IInv
<1>2. ASSUME NEW s, ~ Going(s) PROVE ~ Going(s)'
  <2>1. ASSUME NEW q \in Proc PROVE s \notin SlotsOf(st'[q].todo, {"invalid"})
    <3>1. CASE q = p
      BY <3>1
    <3>2. CASE q # p
      BY <1>2, <3>2 DEF Going
    <3>3. QED BY <3>1, <3>2
  <2>2. QED BY <2>1 DEF Going
<1>3. ASSUME NEW s \in W
      PROVE  s \in Slot /\ itable'[s].ref > 0 /\ itable'[s].inum = itable[s].inum /\ Steady(s)'
  <2>1. s \in Slot /\ itable[s].ref > 0 /\ itable[s].lock \in {p, NoProc} /\ itable'[s].valid
    BY DEF Keeps
  <2>2. ~ Going(s)
    BY <2>1, InodeIsDisk
  <2>3. ~ Going(s)'
    BY <1>2, <2>2
  <2>4. QED BY <2>1, <2>3 DEF Keeps, Steady
<1>4. ASSUME NEW i \in Inum, disk'.inode[i].type # "none", disk'.inode[i].nlink = 0, i \notin lost
      PROVE  \E s \in Slot : itable'[s].ref > 0 /\ itable'[s].inum = i /\ (Steady(s)' \/ Filling(s)')
  <2>1. CASE disk.inode[i].type = "none"
    <3>1. PICK s \in Slot : itable'[s].ref > 0 /\ itable'[s].inum = i /\ st'[p].pc = "fill" /\ st'[p].ip = s
      BY <1>4, <2>1 DEF Fills
    <3>2. Filling(s)'
      BY <3>1 DEF Filling
    <3>3. QED BY <3>1, <3>2
  <2>2. CASE disk.inode[i].type # "none"
    <3>1. CASE \E s \in W : itable[s].inum = i
      BY <1>3, <3>1
    <3>2. CASE ~ \E s \in W : itable[s].inum = i
      <4>1. disk'.inode[i] = disk.inode[i]
        BY <2>2, <3>2 DEF Keeps
      <4>2. i \in Orphans(disk) \ lost
        BY <1>4, <4>1 DEF Orphans
      <4>3. PICK s \in Slot : itable[s].ref > 0 /\ itable[s].inum = i /\ (Steady(s) \/ Filling(s))
        BY <1>1, <4>2 DEF Kept
      <4>4. s \notin W
        BY <3>2, <4>3
      <4>5. itable'[s].ref > 0 /\ itable'[s].inum = i /\ itable'[s].valid = itable[s].valid
        BY <4>3, <4>4 DEF Keeps
      <4>6. Steady(s) => Steady(s)'
        BY <1>2, <4>5 DEF Steady
      <4>7. Filling(s) => Filling(s)'
        BY <4>4 DEF Filling, Fills
      <4>8. QED BY <4>3, <4>5, <4>6, <4>7
    <3>3. QED BY <3>1, <3>2
  <2>3. QED BY <2>1, <2>2
<1>5. QED BY <1>4 DEF Kept, Orphans

\* The inode that a slot in use names has the type that it had.
LEMMA KeepsType ==
  ASSUME Types, Named2, NEW p, NEW W, Keeps(p, W, itable', disk'),
         NEW s \in Slot, itable[s].ref > 0, TypeOf(s) # "none"
  PROVE  TypeOf(s)' = TypeOf(s)
BY DEF Keeps, TypeOf, Named2

\* Who refers to a slot keeps it in use.
LEMMA InUse ==
  ASSUME IInv, NEW q \in Proc, NEW s \in Slot, Held(q, s) >= 1
  PROVE  itable[s].ref > 0
<1>1. Types /\ Counted
  BY DEF IInv
<1>2. itable[s].ref >= Held(q, s) + Cardinality(FilesOf(s)) /\ Held(q, s) \in Nat
      /\ Cardinality(FilesOf(s)) \in Nat /\ itable[s].ref \in Nat
  BY <1>1, RefsAtLeast
<1>3. QED BY <1>2

\* What the other processes rely on is kept.
LEMMA KeepsLocal ==
  ASSUME IInv, NEW p \in Proc, NEW W, Keeps(p, W, itable', disk'), Elsewhere(p),
         NEW q \in Proc, q # p
  PROVE  Local(q)'
<1>1. Types /\ Named2 /\ Local(q)
  BY DEF IInv
<1>2. /\ st'[q] = st[q] /\ cwd'[q] = cwd[q]
      /\ \A fd \in Fd : ofile'[q][fd] = ofile[q][fd]
      /\ \A fd \in Fd : ofile[q][fd] # 0 => ftable'[ofile[q][fd]].writable = ftable[ofile[q][fd]].writable
  BY DEF Elsewhere
<1>3. ASSUME NEW s \in Slot, itable[s].ref > 0, TypeOf(s) # "none" PROVE TypeOf(s)' = TypeOf(s)
  BY <1>1, <1>3, KeepsType
<1>4. Locked(q)'
  <2>1. ASSUME NEW s, s \in SlotsOf(st[q].todo, Unlocks) \/ s \in PcLocks(st[q])
        PROVE  itable'[s].lock = q
    <3>1. s \in Slot /\ Held(q, s) >= 1
      BY <1>1, <2>1, LocksAreHeld
    <3>2. itable[s].ref > 0
      BY <3>1, InUse
    <3>3. itable[s].lock = q
      BY <1>1, <2>1 DEF Local, Locked
    <3>4. q \notin {p, NoProc}
      BY FileSysAssumption
    <3>5. QED BY <3>1, <3>2, <3>3, <3>4 DEF Keeps
  <2>2. QED BY <1>1, <1>2, <2>1 DEF Local, Locked
<1>5. Holding(q)'
  <2>1. Holding(q)
    BY <1>1 DEF Local
  <2>2. /\ HoldsDp(st[q]) => Held(q, st[q].dp) >= 1
        /\ HoldsIp(st[q]) => Held(q, st[q].ip) >= 1
    BY <1>1, Holds
  <2>3. HoldsDp(st[q]) => TypeOf(st[q].dp)' = "dir"
    <3>1. SUFFICES ASSUME HoldsDp(st[q]) PROVE TypeOf(st[q].dp)' = "dir"
      OBVIOUS
    <3>2. st[q].dp \in Slot /\ TypeOf(st[q].dp) = "dir"
      BY <2>1, <3>1 DEF Holding
    <3>3. itable[st[q].dp].ref > 0
      BY <2>2, <3>1, <3>2, InUse
    <3>4. QED BY <1>3, <3>2, <3>3, <1>2 DEF TypeOf
  <2>4. HoldsIp(st[q]) /\ TypeOf(st[q].ip) # "none" => TypeOf(st[q].ip)' = TypeOf(st[q].ip)
    <3>1. SUFFICES ASSUME HoldsIp(st[q]), TypeOf(st[q].ip) # "none"
                   PROVE  TypeOf(st[q].ip)' = TypeOf(st[q].ip)
      OBVIOUS
    <3>2. st[q].ip \in Slot
      BY <2>1, <3>1 DEF Holding
    <3>3. itable[st[q].ip].ref > 0
      BY <2>2, <3>1, <3>2, InUse
    <3>4. QED BY <1>2, <1>3, <3>1, <3>2, <3>3 DEF TypeOf
  <2>5. st[q].pc \in {"fill", "made", "unlinked"} => HoldsIp(st[q])
    BY DEF HoldsIp
  <2>6. NewType(st[q].call) # "none"
    BY DEF NewType
  <2>7. ASSUME st[q].pc \in {"fill", "made"} PROVE TypeOf(st[q].ip)' = NewType(st[q].call)
    <3>1. TypeOf(st[q].ip) = NewType(st[q].call)
      BY <2>1, <2>7 DEF Holding
    <3>2. TypeOf(st[q].ip)' = TypeOf(st[q].ip)
      BY <2>4, <2>5, <2>6, <2>7, <3>1
    <3>3. QED BY <3>1, <3>2
  <2>8. ASSUME st[q].pc = "unlinked" PROVE TypeOf(st[q].ip)' # "none"
    <3>1. TypeOf(st[q].ip) # "none"
      BY <2>1, <2>8 DEF Holding
    <3>2. TypeOf(st[q].ip)' = TypeOf(st[q].ip)
      BY <2>4, <2>5, <2>8, <3>1
    <3>3. QED BY <3>1, <3>2
  <2> DEFINE r == st[q]
  <2>9. /\ HoldsAt(r) => r.at \in Slot
        /\ HoldsDp(r) => r.dp \in Slot /\ r.path # <<>>
        /\ HoldsIp(r) => r.ip \in Slot
    BY <2>1 DEF Holding
  <2>10. QED BY <1>2, <2>3, <2>7, <2>8, <2>9 DEF Holding, TypeOf
<1>6. Using(q)'
  BY <1>1, <1>2 DEF Local, Using
<1>7. QED BY <1>1, <1>2, <1>4, <1>5, <1>6 DEF Local

\* The references of a slot change by those that p gives up and takes.
LEMMA CountedStep ==
  ASSUME Types, Counted, NEW p \in Proc, Types',
         \A q \in Proc : q # p => st'[q] = st[q] /\ cwd'[q] = cwd[q],
         \A s \in Slot : /\ Cardinality(FilesOf(s)') \in Nat
                         /\ itable'[s].ref = itable[s].ref - (Cardinality(FilesOf(s)) + Held(p, s))
                                             + (Cardinality(FilesOf(s)') + Held(p, s)')
  PROVE  Counted'
<1>1. ASSUME NEW s \in Slot PROVE itable'[s].ref = RefsTo(s)'
  <2> DEFINE h == [q \in Proc |-> HeldBy(st[q], cwd[q], s)]
             g == [q \in Proc |-> HeldBy(st'[q], cwd'[q], s)]
  <2>1. h \in [Proc -> Nat] /\ \A q \in Proc : h[q] = Held(q, s)
    BY HeldFun DEF Held
  <2>2. \A q \in Proc : st'[q].todo \in Seq(Items)
    BY DEF Types, Control
  <2>3. \A q \in Proc : HeldBy(st'[q], cwd'[q], s) \in Nat
    BY <2>2, HeldNat
  <2>4. g \in [Proc -> Nat] /\ g[p] = Held(p, s)' /\ \A q \in Proc : q # p => g[q] = h[q]
    BY <2>3 DEF Held
  <2>5. itable[s].ref = Cardinality(FilesOf(s)) + Total(h)
    BY DEF Counted, RefsTo
  <2>6. RefsTo(s)' = Cardinality(FilesOf(s)') + Total(g)
    BY DEF RefsTo
  <2>7. Cardinality(FilesOf(s)) \in Nat /\ Cardinality(FilesOf(s)') \in Nat
    BY FilesFinite
  <2> HIDE DEF h, g
  <2>8. Total(h) \in Nat /\ Total(g) = Total(h) - h[p] + g[p]
    BY <2>1, <2>4, TotalChange
  <2>9. h[p] = Held(p, s) /\ h[p] \in Nat /\ g[p] \in Nat
    BY <2>1, <2>4
  <2>10. QED BY <2>4, <2>5, <2>6, <2>7, <2>8, <2>9
<1>2. QED BY <1>1 DEF Counted

\* Files that stay open stay typed.
LEMMA KeepsFiles ==
  ASSUME IInv, NEW p, NEW W, Keeps(p, W, itable', disk'), NEW f \in File,
         ftable[f].ref > 0, ftable'[f].ip = ftable[f].ip,
         ftable'[f].writable = ftable[f].writable
  PROVE  /\ ftable'[f].ip \in Slot
         /\ ftable'[f].writable => TypeOf(ftable[f].ip)' \in {"file", "dev"}
<1>1. Types /\ Named2 /\ Counted /\ FilesTyped
  BY DEF IInv
<1> DEFINE s == ftable[f].ip
<1>2. s \in Slot /\ (ftable[f].writable => TypeOf(s) \in {"file", "dev"})
  BY <1>1 DEF FilesTyped
<1>3. itable[s].ref > 0
  <2>1. Cardinality(FilesOf(s)) >= 1
    BY <1>1, <1>2, FileRefs
  <2>2. PICK q \in Proc : TRUE
    BY FileSysAssumption
  <2>3. itable[s].ref >= Held(q, s) + Cardinality(FilesOf(s)) /\ Held(q, s) \in Nat
        /\ Cardinality(FilesOf(s)) \in Nat /\ itable[s].ref \in Nat
    BY <1>1, <1>2, RefsAtLeast
  <2>4. QED BY <2>1, <2>3
<1>4. TypeOf(s) # "none" => itable'[s].inum = itable[s].inum /\ disk'.inode[itable[s].inum].type = TypeOf(s)
  BY <1>1, <1>2, <1>3 DEF Keeps, TypeOf, Named2
<1>5. itable'[s].inum = itable[s].inum
  BY <1>2, <1>3 DEF Keeps
<1>6. QED BY <1>2, <1>4, <1>5 DEF TypeOf

\* A step of p that loads the slots in W keeps the invariant, when it does so for
\* what p itself has, for the files and for the counts.
LEMMA StepKeepsAll ==
  ASSUME IInv, NEW p \in Proc, st[p].todo = <<>>, NEW W, Keeps(p, W, itable', disk'), Sound(disk'),
         Elsewhere(p), Fills(p, W), SlotsOf(st'[p].todo, {"invalid"}) = {},
         Types', durable' = durable, lost' = lost,
         Local(p)', FilesTyped', FilesOK', Counted'
  PROVE  IInv'
<1>1. \A q \in Proc : q # p => st'[q] = st[q]
  BY DEF Elsewhere
<1>2. Agree' /\ Named2'
  BY <1>1, KeepsAgree
<1>3. Kept'
  BY <1>1, KeepsKept
<1>4. \A q \in Proc : Local(q)'
  BY KeepsLocal
<1>5. Sound(durable)'
  BY DEF IInv
<1>6. Sound(disk)'
  OBVIOUS
<1>7. QED BY <1>2, <1>3, <1>4, <1>5, <1>6 DEF IInv

\* The same for a step that leaves the descriptors alone, and of the files all
\* but the offsets.
SameFiles == /\ ofile' = ofile /\ ftable' \in [File -> Files]
             /\ \A f \in File : /\ ftable'[f].ref = ftable[f].ref /\ ftable'[f].ip = ftable[f].ip
                                /\ ftable'[f].writable = ftable[f].writable
\* All of IInv, but for what p itself has, the files and the counts.
LEMMA StepKeeps ==
  ASSUME IInv, NEW p \in Proc, st[p].todo = <<>>, NEW W, Keeps(p, W, itable', disk'), Sound(disk'),
         Fills(p, W), SlotsOf(st'[p].todo, {"invalid"}) = {},
         st' \in [Proc -> Control], cwd' \in [Proc -> 0 .. NINODE], inop' \subseteq Proc,
         \A q \in Proc : q # p => st'[q] = st[q] /\ cwd'[q] = cwd[q],
         SameFiles, durable' = durable, lost' = lost, Local(p)',
         \A s \in Slot : itable'[s].ref = itable[s].ref - Held(p, s) + Held(p, s)'
  PROVE  IInv'
<1>1. Types /\ FilesTyped /\ FilesOK /\ Counted
  BY DEF IInv
<1>2. Types'
  BY <1>1 DEF Types, Keeps, Tables, SameFiles
<1>3. Elsewhere(p)
  <2>1. \A q \in Proc, fd \in Fd : ofile[q][fd] # 0 => ofile[q][fd] \in File
    BY <1>1 DEF Types, File
  <2>2. QED BY <2>1 DEF Elsewhere, SameFiles
<1>4. FilesTyped'
  <2>1. ASSUME NEW f \in File, ftable'[f].ref > 0
        PROVE  ftable'[f].ip \in Slot /\ (ftable'[f].writable => TypeOf(ftable[f].ip)' \in {"file", "dev"})
    <3>1. ftable[f].ref > 0 /\ ftable'[f].ip = ftable[f].ip /\ ftable'[f].writable = ftable[f].writable
      BY <2>1 DEF SameFiles
    <3>2. /\ ftable'[f].ip \in Slot
          /\ ftable'[f].writable => TypeOf(ftable[f].ip)' \in {"file", "dev"}
      BY <3>1, KeepsFiles
    <3>3. QED BY <3>1, <3>2
  <2>2. QED BY <2>1 DEF FilesTyped
<1>5. FilesOK'
  BY <1>1 DEF FilesOK, FdsOf, SameFiles
<1>6. Counted'
  <2>1. ASSUME NEW s \in Slot
        PROVE  /\ Cardinality(FilesOf(s)') \in Nat
               /\ itable'[s].ref = itable[s].ref - (Cardinality(FilesOf(s)) + Held(p, s))
                                   + (Cardinality(FilesOf(s)') + Held(p, s)')
    <3>1. FilesOf(s)' = FilesOf(s)
      BY DEF FilesOf, SameFiles
    <3>2. Cardinality(FilesOf(s)) \in Nat /\ Held(p, s) \in Nat /\ itable[s].ref \in Nat
      BY <1>1, FilesFinite, HeldFun DEF Types, Slots
    <3>3. Held(p, s)' \in Nat
      BY <1>2, HeldNat DEF Types, Control, Held
    <3>4. itable'[s].ref = itable[s].ref - Held(p, s) + Held(p, s)'
      OBVIOUS
    <3>5. QED BY <3>1, <3>2, <3>3, <3>4
  <2>2. QED BY <1>1, <1>2, <2>1, CountedStep
<1>7. QED BY <1>2, <1>3, <1>4, <1>5, <1>6, StepKeepsAll

\* The lists of what remains to be done.
Plain(t, U) == t \in Seq(Items) /\ TodoOK(t) /\ SlotsOf(t, Unlocks) = U /\ SlotsOf(t, {"invalid"}) = {}

\* end_op() alone.
LEMMA TodoEnd == Plain(EndOp, {}) /\ \A s : Tokened(EndOp, s) = 0
<1>1. 0 \in 0 .. NINODE
  BY FileSysAssumption
<1>2. /\ EndOp \in Seq(Items)
      /\ \A s : Tokened(EndOp, s) = One("end_op" \in Tokens /\ 0 = s)
      /\ \A W : SlotsOf(EndOp, W) = IF "end_op" \in W THEN {0} ELSE {}
  BY <1>1, TodoDo DEF EndOp
<1>3. TodoOK(EndOp)
  BY <1>1, TodoOKDo DEF EndOp
<1>4. SlotsOf(EndOp, Unlocks) = {} /\ SlotsOf(EndOp, {"invalid"}) = {}
  BY <1>2 DEF Unlocks
<1>5. \A s : Tokened(EndOp, s) = 0
  BY <1>2 DEF Tokens, One
<1>6. QED BY <1>2, <1>3, <1>4, <1>5 DEF Plain

\* One iput().
LEMMA TodoPut ==
  ASSUME NEW x \in Slot
  PROVE  Plain(Do("iput", x), {}) /\ \A s : Tokened(Do("iput", x), s) = One(x = s)
<1>1. x \in 0 .. NINODE
  BY FileSysAssumption DEF Slot
<1>2. /\ Do("iput", x) \in Seq(Items)
      /\ \A s : Tokened(Do("iput", x), s) = One("iput" \in Tokens /\ x = s)
      /\ \A W : SlotsOf(Do("iput", x), W) = IF "iput" \in W THEN {x} ELSE {}
  BY <1>1, TodoDo DEF Tokens
<1>3. TodoOK(Do("iput", x))
  BY <1>1, TodoOKDo DEF Tokens
<1>4. SlotsOf(Do("iput", x), Unlocks) = {} /\ SlotsOf(Do("iput", x), {"invalid"}) = {}
  BY <1>2 DEF Unlocks
<1>5. \A s : Tokened(Do("iput", x), s) = One(x = s)
  BY <1>2 DEF Tokens, One
<1>6. QED BY <1>2, <1>3, <1>4, <1>5 DEF Plain

\* Lists of two parts, one of which unlocks nothing.
LEMMA PlainConcat ==
  ASSUME NEW a, NEW b, NEW U, Plain(a, {}), Plain(b, U)
  PROVE  Plain(a \o b, U) /\ Plain(b \o a, U)
<1>1. /\ a \in Seq(Items) /\ b \in Seq(Items) /\ TodoOK(a) /\ TodoOK(b)
      /\ SlotsOf(a, Unlocks) = {} /\ SlotsOf(b, Unlocks) = U
      /\ SlotsOf(a, {"invalid"}) = {} /\ SlotsOf(b, {"invalid"}) = {}
  BY DEF Plain
<1>2. /\ a \o b \in Seq(Items)
      /\ \A W : SlotsOf(a \o b, W) = SlotsOf(a, W) \cup SlotsOf(b, W)
  BY <1>1, TodoConcat
<1>3. /\ b \o a \in Seq(Items)
      /\ \A W : SlotsOf(b \o a, W) = SlotsOf(b, W) \cup SlotsOf(a, W)
  BY <1>1, TodoConcat
<1>4. TodoOK(a \o b) /\ TodoOK(b \o a)
  BY <1>1, TodoOKConcat
<1>5. /\ SlotsOf(a \o b, Unlocks) = U /\ SlotsOf(a \o b, {"invalid"}) = {}
      /\ SlotsOf(b \o a, Unlocks) = U /\ SlotsOf(b \o a, {"invalid"}) = {}
  <2>1. PICK V : V = Unlocks
    OBVIOUS
  <2>2. PICK W : W = {"invalid"}
    OBVIOUS
  <2>3. {} \cup U = U /\ U \cup {} = U
    OBVIOUS
  <2>4. SlotsOf(a \o b, V) = U /\ SlotsOf(b \o a, V) = U
    BY <1>1, <1>2, <1>3, <2>1, <2>3
  <2>5. SlotsOf(a \o b, W) = {} /\ SlotsOf(b \o a, W) = {}
    BY <1>1, <1>2, <1>3, <2>2
  <2>6. QED BY <2>1, <2>2, <2>4, <2>5
<1>6. QED BY <1>2, <1>3, <1>4, <1>5 DEF Plain

\* Their references.
LEMMA PlainTokens ==
  ASSUME NEW a, NEW b, NEW U, NEW V, Plain(a, U), Plain(b, V)
  PROVE  \A s : Tokened(a \o b, s) = Tokened(a, s) + Tokened(b, s)
BY TodoConcat DEF Plain

\* iput() and end_op().
LEMMA TodoPutEnd ==
  ASSUME NEW x \in Slot
  PROVE  Plain(Do("iput", x) \o EndOp, {}) /\ \A s : Tokened(Do("iput", x) \o EndOp, s) = One(x = s)
<1> DEFINE a == Do("iput", x)
           b == EndOp
<1>1. Plain(a, {}) /\ Plain(b, {})
  BY TodoPut, TodoEnd
<1>2. \A s : Tokened(a, s) = One(x = s) /\ Tokened(b, s) = 0
  BY TodoPut, TodoEnd
<1> HIDE DEF a, b
<1>3. Plain(a \o b, {})
  BY <1>1, PlainConcat
<1>4. \A s : Tokened(a \o b, s) = Tokened(a, s) + Tokened(b, s)
  BY <1>1, PlainTokens
<1>5. \A s : Tokened(a \o b, s) = One(x = s)
  BY <1>2, <1>4 DEF One
<1>6. QED BY <1>3, <1>5 DEF a, b

\* Two times iput(), and end_op().
LEMMA TodoPutPutEnd ==
  ASSUME NEW x \in Slot, NEW y \in Slot
  PROVE  /\ Plain(Do("iput", x) \o Do("iput", y) \o EndOp, {})
         /\ \A s : Tokened(Do("iput", x) \o Do("iput", y) \o EndOp, s) = One(x = s) + One(y = s)
<1> DEFINE a == Do("iput", x)
           b == Do("iput", y)
           c == EndOp
<1>1. Plain(a, {}) /\ Plain(b, {}) /\ Plain(c, {})
  BY TodoPut, TodoEnd
<1>2. \A s : Tokened(a, s) = One(x = s) /\ Tokened(b, s) = One(y = s) /\ Tokened(c, s) = 0
  BY TodoPut, TodoEnd
<1> HIDE DEF a, b, c
<1>3. Plain(a \o b, {})
  BY <1>1, PlainConcat
<1>4. \A s : Tokened(a \o b, s) = Tokened(a, s) + Tokened(b, s)
  BY <1>1, PlainTokens
<1>5. Plain((a \o b) \o c, {})
  BY <1>1, <1>3, PlainConcat
<1>6. \A s : Tokened((a \o b) \o c, s) = Tokened(a \o b, s) + Tokened(c, s)
  BY <1>1, <1>3, PlainTokens
<1>7. \A s : Tokened((a \o b) \o c, s) = One(x = s) + One(y = s)
  BY <1>2, <1>4, <1>6 DEF One
<1>8. QED BY <1>5, <1>7 DEF a, b, c

\* iunlock() and iput().
LEMMA TodoUnlock ==
  ASSUME NEW y \in Slot
  PROVE  /\ Plain(Do("iunlock", y) \o Do("iput", y), {y})
         /\ \A s : Tokened(Do("iunlock", y) \o Do("iput", y), s) = One(y = s)
<1> DEFINE u == Do("iunlock", y)
           t == Do("iput", y)
<1>1. y \in 0 .. NINODE
  BY FileSysAssumption DEF Slot
<1>2. /\ u \in Seq(Items)
      /\ \A s : Tokened(u, s) = One("iunlock" \in Tokens /\ y = s)
      /\ \A W : SlotsOf(u, W) = IF "iunlock" \in W THEN {y} ELSE {}
  BY <1>1, TodoDo DEF Unlocks
<1>3. /\ t \in Seq(Items)
      /\ \A W : SlotsOf(t, W) = IF "iput" \in W THEN {y} ELSE {}
  BY <1>1, TodoDo DEF Tokens
<1>4. Plain(t, {}) /\ \A s : Tokened(t, s) = One(y = s)
  BY TodoPut
<1> HIDE DEF u, t
<1>5. y \in SlotsOf(t, Tokens) /\ y \notin SlotsOf(t, Unlocks)
  BY <1>3 DEF Tokens, Unlocks
<1>6. TodoOK(u \o t)
  BY <1>3, <1>4, <1>5, TodoOKUnlock DEF Plain, Unlocks, u
<1>7. /\ u \o t \in Seq(Items)
      /\ \A s : Tokened(u \o t, s) = Tokened(u, s) + Tokened(t, s)
      /\ \A W : SlotsOf(u \o t, W) = SlotsOf(u, W) \cup SlotsOf(t, W)
  BY <1>2, <1>3, TodoConcat
<1>8. \A s : Tokened(u, s) = 0
  BY <1>2 DEF Tokens, One
<1>9. \A s : 0 + One(y = s) = One(y = s)
  BY DEF One
<1>10. \A s : Tokened(u \o t, s) = One(y = s)
  BY <1>4, <1>7, <1>8 DEF One
<1>11. SlotsOf(u \o t, Unlocks) = {y} /\ SlotsOf(u \o t, {"invalid"}) = {}
  BY <1>2, <1>3, <1>7 DEF Unlocks
<1>12. QED BY <1>6, <1>7, <1>10, <1>11 DEF Plain, u, t

\* iput() of one inode, iunlockput() of another, and end_op().
LEMMA TodoPutUnlock ==
  ASSUME NEW x \in Slot, NEW y \in Slot
  PROVE  /\ Plain(Do("iput", x) \o Do("iunlock", y) \o Do("iput", y) \o EndOp, {y})
         /\ \A s : Tokened(Do("iput", x) \o Do("iunlock", y) \o Do("iput", y) \o EndOp, s)
                      = One(x = s) + One(y = s)
<1> DEFINE a == Do("iput", x)
           u == Do("iunlock", y)
           t == Do("iput", y)
           c == (a \o u) \o t
           e == EndOp
<1>1. Plain(u \o t, {y}) /\ Plain(a, {}) /\ Plain(e, {})
  BY TodoUnlock, TodoPut, TodoEnd, Zenon
<1>2. \A s : Tokened(a, s) = One(x = s) /\ Tokened(e, s) = 0
  BY TodoPut, TodoEnd
<1>12. \A s : Tokened(u \o t, s) = One(y = s)
  BY TodoUnlock
<1>3. u \in Seq(Items) /\ t \in Seq(Items) /\ a \in Seq(Items)
  <2>1. x \in 0 .. NINODE /\ y \in 0 .. NINODE
    BY FileSysAssumption DEF Slot
  <2>2. QED BY <2>1, TodoDo DEF Tokens, Unlocks
<1> HIDE DEF a, u, t, e
<1>4. c = a \o (u \o t)
  BY <1>3, ConcatAssociative
<1>5. Plain(a \o (u \o t), {y})
  BY <1>1, PlainConcat
<1>6. \A s : Tokened(a \o (u \o t), s) = Tokened(a, s) + Tokened(u \o t, s)
  BY <1>1, PlainTokens
<1> HIDE DEF c
<1>7. Plain(c, {y})
  BY <1>4, <1>5
<1>8. Plain(c \o e, {y})
  BY <1>1, <1>7, PlainConcat
<1>9. \A s : Tokened(c \o e, s) = Tokened(c, s) + Tokened(e, s)
  BY <1>1, <1>7, PlainTokens
<1>10. \A s : Tokened(c \o e, s) = One(x = s) + One(y = s)
  <2>1. \A s : Tokened(c, s) = One(x = s) + One(y = s)
    BY <1>2, <1>12, <1>4, <1>6
  <2>2. \A s : Tokened(c \o e, s) = Tokened(c, s) + 0
    BY <1>2, <1>9, Zenon
  <2>3. QED BY <2>1, <2>2 DEF One
<1>11. QED BY <1>8, <1>10 DEF c, a, u, t, e

\* What Go() leaves of the other processes.
LEMMA GoFacts ==
  ASSUME Types, NEW p \in Proc, NEW r \in Control, Go(p, r)
  PROVE  /\ st' \in [Proc -> Control] /\ st'[p] = r
         /\ \A q \in Proc : q # p => st'[q] = st[q]
BY DEF Types, Go

Ended(p, pc, t) == st' = [st EXCEPT ![p] = [Idle(pc, @.calls) EXCEPT !.todo = t]]

\* What Return() leaves of them.
LEMMA EndedFacts ==
  ASSUME Types, NEW p \in Proc, NEW pc \in {"user", "none"}, NEW t \in Seq(Items), Ended(p, pc, t)
  PROVE  /\ st' \in [Proc -> Control] /\ st'[p].pc = pc /\ st'[p].todo = t
         /\ \A q \in Proc : q # p => st'[q] = st[q]
<1> DEFINE r == [Idle(pc, st[p].calls) EXCEPT !.todo = t]
<1>1. st[p].calls \in SUBSET Calls
  BY DEF Types, Control
<1>2. <<>> \in Seq(Items) /\ <<>> \in Seq(STRING) /\ 0 \in 0 .. NINODE /\ [op |-> "none"] \in Calls \cup {NoCall}
  BY FileSysAssumption, EmptySeq DEF NoCall
<1>3. pc \in Pcs
  BY DEF Pcs
<1>4. Idle(pc, st[p].calls) \in Control
  BY <1>1, <1>2, <1>3 DEF Idle, Control
<1>5. r \in Control /\ r.pc = pc /\ r.todo = t
  BY <1>4 DEF Control, Idle
<1>6. st' = [st EXCEPT ![p] = r]
  BY DEF Ended, Types
<1> HIDE DEF r
<1>7. QED BY <1>5, <1>6 DEF Types

\* The references that a process holds by where it is.
HeldHere(r, dir, s) == One(HoldsAt(r) /\ r.at = s) + One(HoldsDp(r) /\ r.dp = s)
                       + One(HoldsIp(r) /\ r.ip = s) + One(dir = s)
\* The references of a process are those of its place and those of its todo.
LEMMA HeldParts ==
  ASSUME NEW r, r.todo \in Seq(Items), NEW dir, NEW s
  PROVE  /\ HeldHere(r, dir, s) \in Nat
         /\ HeldBy(r, dir, s) = HeldHere(r, dir, s) + Tokened(r.todo, s)
<1>1. HeldHere(r, dir, s) \in Nat
  BY DEF HeldHere, One
<1>2. HeldBy(r, dir, s) = HeldHere(r, dir, s) + Tokened(r.todo, s)
  BY HeldNat DEF HeldHere
<1>3. QED BY <1>1, <1>2

\* With nothing left to do, they are those of its place.
LEMMA HeldNow ==
  ASSUME Types, NEW p \in Proc, st[p].todo = <<>>, NEW s
  PROVE  Held(p, s) = HeldHere(st[p], cwd[p], s)
<1>1. Tokened(st[p].todo, s) = 0
  BY TodoNone
<1>2. /\ HeldHere(st[p], cwd[p], s) \in Nat
      /\ HeldBy(st[p], cwd[p], s) = HeldHere(st[p], cwd[p], s) + Tokened(st[p].todo, s)
  BY HeldParts DEF Types, Control
<1>3. QED BY <1>1, <1>2 DEF Held

\* Outside of a call, it is the current directory.
LEMMA HeldOutside ==
  ASSUME NEW r, r.todo \in Seq(Items), r.pc \in {"user", "none", "exit", "write", "writemore"}, NEW dir, NEW s
  PROVE  HeldBy(r, dir, s) = One(dir = s) + Tokened(r.todo, s)
<1>1. ~ HoldsAt(r) /\ ~ HoldsDp(r) /\ ~ HoldsIp(r)
  BY DEF HoldsAt, HoldsDp, HoldsIp
<1>2. Tokened(r.todo, s) \in Nat
  BY TodoFinite
<1>3. QED BY <1>1, <1>2, HeldNat DEF One

\* The end of a call.
LEMMA ReturnStep ==
  ASSUME IInv, NEW p \in Proc, st[p].todo = <<>>, NEW W, Keeps(p, W, itable', disk'), Sound(disk'),
         st[p].pc = "fill" => st[p].ip \in W,
         \A i \in Inum : disk.inode[i].type = "none" => disk'.inode[i].type = "none",
         NEW t, NEW U, Plain(t, U), \A s \in U : itable'[s].lock = p,
         Ended(p, "user", t), cwd' \in [Proc -> 0 .. NINODE], cwd'[p] \in Slot,
         \A q \in Proc : q # p => cwd'[q] = cwd[q], inop' \subseteq Proc,
         SameFiles, durable' = durable, lost' = lost,
         \A s \in Slot : itable'[s].ref = itable[s].ref - Held(p, s) + (One(cwd'[p] = s) + Tokened(t, s))
  PROVE  IInv'
<1>1. Types /\ t \in Seq(Items) /\ TodoOK(t) /\ SlotsOf(t, {"invalid"}) = {} /\ SlotsOf(t, Unlocks) = U
  BY DEF IInv, Plain
<1>2. /\ st' \in [Proc -> Control] /\ st'[p].pc = "user" /\ st'[p].todo = t
      /\ \A q \in Proc : q # p => st'[q] = st[q]
  BY <1>1, EndedFacts
<1>3. Fills(p, W)
  BY DEF Fills
<1>4. Local(p)'
  <2>1. TodoOK(st'[p].todo) /\ CallOK(st'[p])
    BY <1>1, <1>2 DEF CallOK
  <2>2. Locked(p)'
    BY <1>1, <1>2 DEF Locked, PcLocks
  <2>3. Holding(p)'
    BY <1>2 DEF Holding, HoldsAt, HoldsDp, HoldsIp
  <2>4. Using(p)'
    BY <1>2 DEF Using
  <2>5. QED BY <2>1, <2>2, <2>3, <2>4 DEF Local
<1>5. \A s \in Slot : itable'[s].ref = itable[s].ref - Held(p, s) + Held(p, s)'
  BY <1>1, <1>2, HeldOutside DEF Held
<1>6. QED BY <1>1, <1>2, <1>3, <1>4, <1>5, StepKeeps

\* The slots that a process refers to by where it is.
Reaches(p, s) == \/ HoldsAt(st[p]) /\ st[p].at = s
                 \/ HoldsDp(st[p]) /\ st[p].dp = s
                 \/ HoldsIp(st[p]) /\ st[p].ip = s

\* The inode that a process at some place refers to.
LEMMA Reached ==
  ASSUME IInv, NEW p \in Proc, st[p].todo = <<>>, NEW s, Reaches(p, s)
  PROVE  /\ s \in Slot /\ itable[s].ref > 0 /\ itable[s].inum \in Inum
         /\ itable[s].lock \in {p, NoProc} =>
              /\ Inode(s) = disk.inode[itable[s].inum] /\ ~ Going(s) /\ Inode(s) \in Dinodes
              /\ Inode(s).type = TypeOf(s)
<1>1. Types /\ Local(p) /\ Named2
  BY DEF IInv
<1>2. s \in Slot
  BY <1>1 DEF Local, Holding, Reaches
<1>3. Held(p, s) >= 1
  BY <1>1, Holds DEF Reaches
<1>4. itable[s].ref > 0
  BY <1>2, <1>3, InUse
<1>5. itable[s].inum \in Inum
  BY <1>1, <1>2, <1>4 DEF Named2
<1>6. itable[s].lock \in {p, NoProc} =>
        /\ Inode(s) = disk.inode[itable[s].inum] /\ ~ Going(s) /\ Inode(s) \in Dinodes
  BY <1>2, <1>4, InodeIsDisk
<1>7. QED BY <1>2, <1>4, <1>5, <1>6 DEF TypeOf

\* The current directory.
LEMMA CwdReached ==
  ASSUME IInv, NEW p \in Proc, st[p].pc # "none"
  PROVE  cwd[p] \in Slot /\ itable[cwd[p]].ref > 0 /\ itable[cwd[p]].inum \in Inum
<1>1. Types /\ Local(p) /\ Named2
  BY DEF IInv
<1>2. cwd[p] \in Slot
  BY <1>1 DEF Local, Using
<1>3. Held(p, cwd[p]) >= 1
  BY <1>1, Holds
<1>4. QED BY <1>1, <1>2, <1>3, InUse DEF Named2

\* The slot of an inode, loaded with what the step makes of it.
LEMMA LoadKeeps ==
  ASSUME IInv, NEW p \in Proc, NEW s \in Slot, itable[s].ref > 0, itable[s].lock \in {p, NoProc},
         NEW who \in {p, NoProc}, NEW E, NEW d \in Dinodes, E.inode[itable[s].inum] = d, d.type # "none",
         disk.inode[itable[s].inum].type \in {"none", d.type},
         \A j \in Inum : j # itable[s].inum => E.inode[j] = disk.inode[j]
  PROVE  Keeps(p, {s}, Loaded(itable, s, d, who), E)
<1>1. Types /\ Named2
  BY DEF IInv
<1>2. Keeps(p, {}, itable, disk)
  BY <1>1, KeepsNothing
<1>3. Keeps(p, {} \cup {s}, Loaded(itable, s, d, who), E)
  BY <1>1, <1>2, KeepsLoaded, Z3
<1>4. {} \cup {s} = {s}
  OBVIOUS
<1>5. QED BY <1>3, <1>4

\* Loading a slot leaves the counts.
LEMMA LoadCounts ==
  ASSUME IInv, NEW s \in Slot, NEW d \in Dinodes, NEW who \in Proc \cup {NoProc}, NEW x \in Slot
  PROVE  Loaded(itable, s, d, who)[x].ref = itable[x].ref /\ itable[x].ref \in Nat
<1>1. itable \in Tables
  BY DEF IInv, Types, Tables
<1>2. LoadedAs(itable, Loaded(itable, s, d, who), s, d, who)
  BY <1>1, LoadedFacts
<1>3. QED BY <1>1, <1>2 DEF LoadedAs, Tables, Slots

\* The end of a call of a process that refers to one inode, with what the call
\* has made of it.
LEMMA PutBack ==
  ASSUME IInv, NEW p \in Proc, st[p].todo = <<>>, NEW s, Reaches(p, s), itable[s].lock \in {p, NoProc},
         st[p].pc \notin {"fill", "none"},
         \A x \in Slot : HeldHere(st[p], cwd[p], x) = One(s = x) + One(cwd[p] = x),
         NEW d \in Dinodes, d.type # "none", TypeOf(s) = d.type,
         itable' = Loaded(itable, s, d, NoProc), Sound(disk'), disk'.inode[itable[s].inum] = d,
         \A j \in Inum : j # itable[s].inum => disk'.inode[j] = disk.inode[j],
         Ended(p, "user", Do("iput", s) \o EndOp), cwd' = cwd, inop' = inop, SameFiles,
         durable' = durable, lost' = lost
  PROVE  IInv'
<1>1. Types /\ s \in Slot /\ itable[s].ref > 0 /\ itable[s].inum \in Inum
  BY Reached DEF IInv
<1>2. Keeps(p, {s}, itable', disk')
  BY <1>1, LoadKeeps DEF TypeOf
<1>3. \A i \in Inum : disk.inode[i].type = "none" => disk'.inode[i].type = "none"
  BY DEF TypeOf
<1> DEFINE t == Do("iput", s) \o EndOp
<1>4. Plain(t, {}) /\ \A x : Tokened(t, x) = One(s = x)
  BY <1>1, TodoPutEnd
<1> HIDE DEF t
<1>5. cwd' \in [Proc -> 0 .. NINODE] /\ cwd'[p] \in Slot /\ inop' \subseteq Proc
  BY <1>1, CwdReached DEF Types
<1>6. ASSUME NEW x \in Slot
      PROVE  itable'[x].ref = itable[x].ref - Held(p, x) + (One(cwd'[p] = x) + Tokened(t, x))
  <2>1. itable'[x].ref = itable[x].ref /\ itable[x].ref \in Nat
    BY <1>1, LoadCounts
  <2>2. Held(p, x) = One(s = x) + One(cwd[p] = x)
    BY <1>1, HeldNow
  <2>3. QED BY <1>4, <2>1, <2>2 DEF One
<1>7. Ended(p, "user", t)
  BY DEF t
<1>8. st[p].pc = "fill" => st[p].ip \in {s}
  OBVIOUS
<1>9. QED BY <1>2, <1>3, <1>4, <1>5, <1>6, <1>7, <1>8, ReturnStep

\* A step inside a call: what its new place r has to have.
PlaceOK(r, T, D, p) ==
    /\ r \in Control /\ CallOK(r) /\ Plain(r.todo, {})
    /\ \A s \in PcLocks(r) : T[s].lock = p
    /\ HoldsAt(r) => r.at \in Slot
    /\ HoldsDp(r) => r.dp \in Slot /\ r.path # <<>> /\ D.inode[T[r.dp].inum].type = "dir"
    /\ HoldsIp(r) => r.ip \in Slot
    /\ r.pc \in {"fill", "made"} => D.inode[T[r.ip].inum].type = NewType(r.call)
    /\ r.pc = "unlinked" => D.inode[T[r.ip].inum].type # "none"
    /\ r.pc \in {"write", "writemore"} =>
         r.fd \in Fd /\ ofile[p][r.fd] # 0 /\ ftable[ofile[p][r.fd]].writable

\* A step to another place of the call.
LEMMA GoStep ==
  ASSUME IInv, NEW p \in Proc, st[p].todo = <<>>, st[p].pc # "none",
         NEW W, Keeps(p, W, itable', disk'), Sound(disk'), Fills(p, W),
         NEW r, Go(p, r), r.pc # "none", PlaceOK(r, itable', disk', p),
         cwd' = cwd, inop' \subseteq Proc, SameFiles, durable' = durable, lost' = lost,
         \A s \in Slot : itable'[s].ref = itable[s].ref - HeldHere(st[p], cwd[p], s)
                                          + (HeldHere(r, cwd[p], s) + Tokened(r.todo, s))
  PROVE  IInv'
<1>1. /\ Types /\ Local(p) /\ r \in Control /\ TodoOK(r.todo) /\ r.todo \in Seq(Items)
      /\ SlotsOf(r.todo, {"invalid"}) = {} /\ SlotsOf(r.todo, Unlocks) = {}
  BY DEF IInv, PlaceOK, Plain
<1>2. /\ st' \in [Proc -> Control] /\ st'[p] = r
      /\ \A q \in Proc : q # p => st'[q] = st[q]
  BY <1>1, GoFacts
<1>3. Local(p)'
  <2>1. TodoOK(st'[p].todo) /\ CallOK(st'[p])
    BY <1>1, <1>2 DEF PlaceOK
  <2>2. Locked(p)'
    <3>1. \A s \in PcLocks(r) : itable'[s].lock = p
      BY DEF PlaceOK
    <3>2. QED BY <1>1, <1>2, <3>1 DEF Locked
  <2>3. Holding(p)'
    BY <1>2 DEF Holding, PlaceOK, TypeOf
  <2>4. Using(p)'
    <3>1. cwd[p] \in Slot
      BY <1>1 DEF Local, Using
    <3>2. r.pc \in {"write", "writemore"} => r.fd \in Fd /\ ofile[p][r.fd] # 0 /\ ftable[ofile[p][r.fd]].writable
      BY DEF PlaceOK
    <3>3. ASSUME r.pc \in {"write", "writemore"}
          PROVE  ftable'[ofile'[p][r.fd]].writable
      <4>1. ofile[p][r.fd] \in File
        BY <1>1, <3>2, <3>3 DEF Types, File
      <4>2. QED BY <3>2, <3>3, <4>1 DEF SameFiles
    <3>4. ofile' = ofile
      BY DEF SameFiles
    <3>5. QED BY <1>2, <3>1, <3>2, <3>3, <3>4 DEF Using
  <2>5. QED BY <2>1, <2>2, <2>3, <2>4 DEF Local
<1>4. ASSUME NEW s \in Slot
      PROVE  itable'[s].ref = itable[s].ref - Held(p, s) + Held(p, s)'
  <2>1. Held(p, s) = HeldHere(st[p], cwd[p], s)
    BY <1>1, HeldNow
  <2>2. Held(p, s)' = HeldHere(r, cwd[p], s) + Tokened(r.todo, s)
    BY <1>1, <1>2, HeldParts DEF Held
  <2>3. QED BY <2>1, <2>2
<1>5. SlotsOf(st'[p].todo, {"invalid"}) = {}
  BY <1>1, <1>2
<1>6. cwd' \in [Proc -> 0 .. NINODE] /\ \A q \in Proc : q # p => st'[q] = st[q] /\ cwd'[q] = cwd[q]
  BY <1>1, <1>2 DEF Types
<1>7. QED BY <1>2, <1>3, <1>4, <1>5, <1>6, StepKeeps

\* The files are as they were.
LEMMA FilesUnchanged ==
  ASSUME Types, ftable' = ftable, ofile' = ofile
  PROVE  SameFiles
BY DEF Types, SameFiles

\* The same, of an inode that has not changed.
LEMMA PutBackSame ==
  ASSUME IInv, NEW p \in Proc, st[p].todo = <<>>, NEW s, Reaches(p, s), itable[s].lock \in {p, NoProc},
         st[p].pc \notin {"fill", "none"}, Inode(s).type # "none",
         \A x \in Slot : HeldHere(st[p], cwd[p], x) = One(s = x) + One(cwd[p] = x),
         itable' = Loaded(itable, s, Inode(s), NoProc), Return(p, Do("iput", s) \o EndOp),
         UNCHANGED <<disk, durable, inop, ftable, ofile, cwd, lost>>
  PROVE  IInv'
<1>1. /\ s \in Slot /\ itable[s].inum \in Inum /\ Inode(s) = disk.inode[itable[s].inum]
      /\ Inode(s) \in Dinodes /\ Inode(s).type = TypeOf(s)
  BY Reached
<1>2. SameFiles /\ Sound(disk)
  BY FilesUnchanged DEF IInv
<1>3. Ended(p, "user", Do("iput", s) \o EndOp)
  BY DEF Return, Ended
<1>4. QED BY <1>1, <1>2, <1>3, PutBack

\* An inode with another count of links.
LEMMA WithNlink ==
  ASSUME NEW d \in Dinodes, NEW n \in Int
  PROVE  /\ [d EXCEPT !.nlink = n] \in Dinodes
         /\ [d EXCEPT !.nlink = n].addrs = d.addrs /\ [d EXCEPT !.nlink = n].size = d.size
         /\ [d EXCEPT !.nlink = n].type = d.type /\ d.nlink \in Int
BY DEF Dinodes

\* The count of links of an inode set to something else.
LEMMA NlinkSound ==
  ASSUME NEW D, Sound(D), NEW i \in Inum, NEW d \in Dinodes,
         d.addrs = D.inode[i].addrs, d.size = D.inode[i].size, d.type = D.inode[i].type
  PROVE  /\ Sound(Iupdate(D, i, d)) /\ Iupdate(D, i, d).inode[i] = d
         /\ \A j \in Inum : j # i => Iupdate(D, i, d).inode[j] = D.inode[j]
<1>1. D \in Images
  BY DEF Sound
<1>2. QED BY <1>1, FieldsSound, Updated

\* sys_link() of a directory.
LEMMA LinkDirStep ==
  ASSUME IInv, NEW p \in Proc, LinkDir(p)
  PROVE  IInv'
<1> DEFINE s == st[p].ip
<1>1. /\ st[p].todo = <<>> /\ st[p].pc = "linkold" /\ Unlocked(s) /\ Inode(s).type # "none"
      /\ itable' = Loaded(itable, s, Inode(s), NoProc) /\ Return(p, Do("iput", s) \o EndOp)
      /\ UNCHANGED <<disk, durable, inop, ftable, ofile, cwd, lost>>
  BY DEF LinkDir, At, Free, Ilock
<1>2. Reaches(p, s) /\ itable[s].lock = NoProc
  BY <1>1 DEF Reaches, HoldsIp, Unlocked
<1>3. \A x \in Slot : HeldHere(st[p], cwd[p], x) = One(s = x) + One(cwd[p] = x)
  BY <1>1 DEF HeldHere, HoldsAt, HoldsDp, HoldsIp, One
<1> HIDE DEF s
<1>4. QED BY <1>1, <1>2, <1>3, PutBackSame

\* bad: of sys_link().
LEMMA LinkUndoStep ==
  ASSUME IInv, NEW p \in Proc, LinkUndo(p)
  PROVE  IInv'
<1> DEFINE s == st[p].ip
           d == [Inode(s) EXCEPT !.nlink = @ - 1]
<1>1. /\ st[p].todo = <<>> /\ st[p].pc = "unlinkold" /\ Unlocked(s) /\ Inode(s).type # "none"
      /\ disk' = Iupdate(disk, itable[s].inum, d)
      /\ itable' = Loaded(itable, s, d, NoProc) /\ Return(p, Do("iput", s) \o EndOp)
      /\ UNCHANGED <<durable, inop, ftable, ofile, cwd, lost>>
  BY DEF LinkUndo, At, Free, Ilock
<1>2. Reaches(p, s) /\ itable[s].lock = NoProc
  BY <1>1 DEF Reaches, HoldsIp, Unlocked
<1>3. \A x \in Slot : HeldHere(st[p], cwd[p], x) = One(s = x) + One(cwd[p] = x)
  BY <1>1 DEF HeldHere, HoldsAt, HoldsDp, HoldsIp, One
<1> HIDE DEF s
<1>4. /\ itable[s].inum \in Inum /\ Inode(s) = disk.inode[itable[s].inum]
      /\ Inode(s) \in Dinodes /\ Inode(s).type = TypeOf(s)
  BY <1>1, <1>2, Reached
<1>5. /\ d \in Dinodes /\ d.addrs = Inode(s).addrs /\ d.size = Inode(s).size /\ d.type = Inode(s).type
  BY <1>4, WithNlink DEF Dinodes
<1> HIDE DEF d
<1>6. /\ Sound(disk') /\ disk'.inode[itable[s].inum] = d
      /\ \A j \in Inum : j # itable[s].inum => disk'.inode[j] = disk.inode[j]
  BY <1>1, <1>4, <1>5, NlinkSound DEF IInv
<1>7. SameFiles
  BY <1>1, FilesUnchanged DEF IInv
<1>8. Ended(p, "user", Do("iput", s) \o EndOp)
  BY <1>1 DEF Return, Ended
<1>9. QED BY <1>1, <1>2, <1>3, <1>4, <1>5, <1>6, <1>7, <1>8, PutBack

\* The end of sys_unlink().
LEMMA UnlinkedStep ==
  ASSUME IInv, NEW p \in Proc, Unlinked(p)
  PROVE  IInv'
<1> DEFINE s == st[p].ip
           d == [Inode(s) EXCEPT !.nlink = @ - 1]
<1>1. /\ st[p].todo = <<>> /\ st[p].pc = "unlinked"
      /\ disk' = Iupdate(disk, itable[s].inum, d)
      /\ itable' = Loaded(itable, s, d, NoProc) /\ Return(p, Do("iput", s) \o EndOp)
      /\ UNCHANGED <<durable, inop, ftable, ofile, cwd, lost>>
  BY DEF Unlinked, At, Free
<1>2. Reaches(p, s) /\ itable[s].lock = p /\ TypeOf(s) # "none"
  <2>1. Local(p)
    BY DEF IInv
  <2>2. s \in PcLocks(st[p])
    BY <1>1 DEF PcLocks
  <2>3. QED BY <1>1, <2>1, <2>2 DEF Reaches, HoldsIp, Local, Locked, Holding
<1>3. \A x \in Slot : HeldHere(st[p], cwd[p], x) = One(s = x) + One(cwd[p] = x)
  BY <1>1 DEF HeldHere, HoldsAt, HoldsDp, HoldsIp, One
<1> HIDE DEF s
<1>4. /\ itable[s].inum \in Inum /\ Inode(s) = disk.inode[itable[s].inum]
      /\ Inode(s) \in Dinodes /\ Inode(s).type = TypeOf(s)
  BY <1>1, <1>2, Reached
<1>5. /\ d \in Dinodes /\ d.addrs = Inode(s).addrs /\ d.size = Inode(s).size /\ d.type = Inode(s).type
  BY <1>4, WithNlink DEF Dinodes
<1> HIDE DEF d
<1>6. /\ Sound(disk') /\ disk'.inode[itable[s].inum] = d
      /\ \A j \in Inum : j # itable[s].inum => disk'.inode[j] = disk.inode[j]
  BY <1>1, <1>4, <1>5, NlinkSound DEF IInv
<1>7. SameFiles
  BY <1>1, FilesUnchanged DEF IInv
<1>8. Ended(p, "user", Do("iput", s) \o EndOp)
  BY <1>1 DEF Return, Ended
<1>9. QED BY <1>1, <1>2, <1>3, <1>4, <1>5, <1>6, <1>7, <1>8, PutBack

\* The lock of the inode that open() is about to use.
LEMMA OpenLock ==
  ASSUME IInv, NEW p \in Proc, st[p].todo = <<>>, OpenPc(p)
  PROVE  /\ Reaches(p, st[p].ip) /\ itable[st[p].ip].lock \in {p, NoProc} /\ Inode(st[p].ip).type # "none"
         /\ st[p].pc \in {"open", "exists", "made"}
         /\ \A x \in Slot : HeldHere(st[p], cwd[p], x) = One(st[p].ip = x) + One(cwd[p] = x)
<1> DEFINE s == st[p].ip
<1>1. st[p].pc \in {"open", "exists", "made"}
  BY DEF OpenPc
<1>2. Reaches(p, s)
  BY <1>1 DEF Reaches, HoldsIp
<1>3. itable[s].lock \in {p, NoProc}
  <2>1. CASE st[p].pc = "made"
    BY <2>1 DEF IInv, Local, Locked, PcLocks
  <2>2. CASE st[p].pc # "made"
    BY <2>2 DEF OpenPc, Ilock, Unlocked
  <2>3. QED BY <2>1, <2>2
<1>4. Inode(s).type # "none"
  <2>1. CASE st[p].pc = "made"
    <3>1. Local(p) /\ TypeOf(s) = NewType(st[p].call)
      BY <2>1 DEF IInv, Local, Holding
    <3>2. NewType(st[p].call) # "none"
      BY DEF NewType
    <3>3. QED BY <1>2, <1>3, <3>1, <3>2, Reached
  <2>2. CASE st[p].pc # "made"
    BY <2>2 DEF OpenPc, Ilock
  <2>3. QED BY <2>1, <2>2
<1>5. \A x \in Slot : HeldHere(st[p], cwd[p], x) = One(s = x) + One(cwd[p] = x)
  BY <1>1 DEF HeldHere, HoldsAt, HoldsDp, HoldsIp, One
<1>6. QED BY <1>1, <1>2, <1>3, <1>4, <1>5

\* sys_open() that gives up.
LEMMA OpenFailStep ==
  ASSUME IInv, NEW p \in Proc, OpenFail(p)
  PROVE  IInv'
<1> DEFINE s == st[p].ip
<1>1. /\ st[p].todo = <<>> /\ OpenPc(p)
      /\ itable' = Loaded(itable, s, Inode(s), NoProc) /\ Return(p, Do("iput", s) \o EndOp)
      /\ UNCHANGED <<disk, durable, inop, ftable, ofile, cwd, lost>>
  BY DEF OpenFail, Free
<1>2. /\ Reaches(p, s) /\ itable[s].lock \in {p, NoProc} /\ Inode(s).type # "none"
      /\ st[p].pc \in {"open", "exists", "made"}
      /\ \A x \in Slot : HeldHere(st[p], cwd[p], x) = One(s = x) + One(cwd[p] = x)
  BY <1>1, OpenLock
<1> HIDE DEF s
<1>3. QED BY <1>1, <1>2, PutBackSame

\* Where a look-up that fails leads.
LEMMA FailStep ==
  ASSUME IInv, NEW p \in Proc, st[p].todo = <<>>, st[p].pc \in {"namex", "link"}, NEW s \in Slot,
         NEW W, Keeps(p, W, itable', disk'), Sound(disk'),
         \A i \in Inum : disk.inode[i].type = "none" => disk'.inode[i].type = "none",
         \A x \in Slot : itable'[x].ref = itable[x].ref /\ itable[x].ref \in Nat,
         \A x \in Slot : HeldHere(st[p], cwd[p], x) =
             One(s = x) + One(HoldsIp(st[p]) /\ st[p].ip = x) + One(cwd[p] = x),
         HoldsIp(st[p]) = Linking(p),
         Fail(p, Do("iput", s)), UNCHANGED <<durable, inop, ftable, ofile, cwd, lost>>
  PROVE  IInv'
<1>1. Types /\ Local(p) /\ SameFiles /\ inop' \subseteq Proc
  BY FilesUnchanged DEF IInv, Types
<1>2. CASE Linking(p)
  <2> DEFINE t == Do("iput", s)
             r == [st[p] EXCEPT !.pc = "unlinkold", !.todo = t]
  <2>1. Plain(t, {}) /\ (\A x : Tokened(t, x) = One(s = x)) /\ t \in Seq(Items)
    BY TodoPut DEF Plain
  <2>2. Go(p, r)
    BY <1>2 DEF Fail
  <2> HIDE DEF t
  <2>3. st[p] \in Control
    BY <1>1 DEF Types
  <2>4. r \in Control /\ r.pc = "unlinkold" /\ r.todo = t /\ r.ip = st[p].ip
    BY <2>1, <2>3 DEF Control, Pcs
  <2>5. st[p].ip \in Slot
    BY <1>1, <1>2 DEF Local, Holding
  <2> HIDE DEF r
  <2>6. ~ HoldsAt(r) /\ ~ HoldsDp(r) /\ HoldsIp(r) /\ PcLocks(r) = {} /\ CallOK(r)
    BY <2>4 DEF HoldsAt, HoldsDp, HoldsIp, PcLocks, CallOK
  <2>7. PlaceOK(r, itable', disk', p)
    BY <2>1, <2>4, <2>5, <2>6 DEF PlaceOK
  <2>8. \A x \in Slot : HeldHere(r, cwd[p], x) = One(st[p].ip = x) + One(cwd[p] = x)
    BY <2>4, <2>6 DEF HeldHere, One
  <2>9. ASSUME NEW x \in Slot
        PROVE  itable'[x].ref = itable[x].ref - HeldHere(st[p], cwd[p], x)
                                + (HeldHere(r, cwd[p], x) + Tokened(r.todo, x))
    <3>1. HeldHere(st[p], cwd[p], x) = One(s = x) + One(st[p].ip = x) + One(cwd[p] = x)
      BY <1>2 DEF One
    <3>2. Tokened(r.todo, x) = One(s = x)
      BY <2>1, <2>4
    <3>3. itable'[x].ref = itable[x].ref /\ itable[x].ref \in Nat
      OBVIOUS
    <3>4. HeldHere(r, cwd[p], x) = One(st[p].ip = x) + One(cwd[p] = x)
      BY <2>8
    <3>5. QED BY <3>1, <3>2, <3>3, <3>4 DEF One
  <2>10. Fills(p, W)
    BY DEF Fills
  <2>11. QED BY <1>1, <2>2, <2>4, <2>7, <2>9, <2>10, GoStep
<1>3. CASE ~ Linking(p)
  <2> DEFINE t == Do("iput", s) \o EndOp
  <2>1. Plain(t, {}) /\ \A x : Tokened(t, x) = One(s = x)
    BY TodoPutEnd
  <2>2. Ended(p, "user", t)
    BY <1>3 DEF Fail, Return, Ended
  <2> HIDE DEF t
  <2>3. cwd' \in [Proc -> 0 .. NINODE] /\ cwd'[p] \in Slot
    BY <1>1, CwdReached DEF Types
  <2>4. ASSUME NEW x \in Slot
        PROVE  itable'[x].ref = itable[x].ref - Held(p, x) + (One(cwd'[p] = x) + Tokened(t, x))
    <3>1. Held(p, x) = HeldHere(st[p], cwd[p], x)
      BY <1>1, HeldNow
    <3>2. HeldHere(st[p], cwd[p], x) = One(s = x) + One(cwd[p] = x)
      BY <1>3 DEF One
    <3>3. itable'[x].ref = itable[x].ref /\ itable[x].ref \in Nat
      OBVIOUS
    <3>4. QED BY <2>1, <3>1, <3>2, <3>3 DEF One
  <2>5. QED BY <1>1, <2>1, <2>2, <2>3, <2>4, ReturnStep
<1>4. QED BY <1>2, <1>3

\* A process in namex(): the directory that it is about to look into.
LEMMA AtNamex ==
  ASSUME IInv, NEW p \in Proc, st[p].todo = <<>>, st[p].pc = "namex"
  PROVE  /\ Reaches(p, st[p].at) /\ HoldsIp(st[p]) = Linking(p)
         /\ \A x \in Slot : HeldHere(st[p], cwd[p], x) =
               One(st[p].at = x) + One(HoldsIp(st[p]) /\ st[p].ip = x) + One(cwd[p] = x)
         /\ st[p].path \in Seq(STRING) /\ st[p] \in Control /\ CallOK(st[p])
         /\ HoldsIp(st[p]) => st[p].ip \in Slot
<1>1. Reaches(p, st[p].at) /\ HoldsIp(st[p]) = Linking(p)
  BY DEF Reaches, HoldsAt, HoldsIp, Linking
<1>2. \A x \in Slot : HeldHere(st[p], cwd[p], x) =
         One(st[p].at = x) + One(HoldsIp(st[p]) /\ st[p].ip = x) + One(cwd[p] = x)
  BY DEF HeldHere, HoldsAt, HoldsDp, One
<1>3. Types /\ Local(p)
  BY DEF IInv
<1>4. QED BY <1>1, <1>2, <1>3 DEF Types, Control, Local, Holding

-----------------------------------------------------------------------------
(* The system calls, one lemma for each action.                            *)
\* namex(): not a directory, or no such name.
LEMMA NamexFailStep ==
  ASSUME IInv, NEW p \in Proc, NamexFail(p)
  PROVE  IInv'
<1> DEFINE s == st[p].at
<1>1. /\ st[p].todo = <<>> /\ st[p].pc = "namex" /\ Unlocked(s) /\ Inode(s).type # "none"
      /\ itable' = Loaded(itable, s, Inode(s), NoProc) /\ Fail(p, Do("iput", s))
      /\ UNCHANGED <<disk, durable, inop, ftable, ofile, cwd, lost>>
  BY DEF NamexFail, At, Free, Ilock
<1>2. /\ Reaches(p, s) /\ HoldsIp(st[p]) = Linking(p)
      /\ \A x \in Slot : HeldHere(st[p], cwd[p], x) =
               One(s = x) + One(HoldsIp(st[p]) /\ st[p].ip = x) + One(cwd[p] = x)
  BY <1>1, AtNamex
<1> HIDE DEF s
<1>3. itable[s].lock = NoProc
  BY <1>1 DEF Unlocked
<1>4. /\ s \in Slot /\ itable[s].inum \in Inum /\ Inode(s) = disk.inode[itable[s].inum]
      /\ Inode(s) \in Dinodes /\ itable[s].ref > 0
  BY <1>1, <1>2, <1>3, Reached
<1>5. Keeps(p, {s}, itable', disk')
  BY <1>1, <1>3, <1>4, LoadKeeps
<1>6. \A x \in Slot : itable'[x].ref = itable[x].ref /\ itable[x].ref \in Nat
  BY <1>1, <1>4, LoadCounts
<1>7. Sound(disk')
  BY <1>1 DEF IInv
<1>8. QED BY <1>1, <1>2, <1>4, <1>5, <1>6, <1>7, FailStep

\* The place that namei() returns to.
LEMMA FoundPcs ==
  ASSUME NEW r, CallOK(r), r.pc = "namex", ~ r.parent
  PROVE  FoundPc(r.call) \in {"linkold", "open", "chdir"} /\ (FoundPc(r.call) = "linkold" => r.call.op = "link")
BY DEF CallOK, FoundPc

\* namex() at the end of the path.
LEMMA NamexEndStep ==
  ASSUME IInv, NEW p \in Proc, NamexEnd(p)
  PROVE  IInv'
<1> DEFINE s == st[p].at
<1>1. /\ st[p].todo = <<>> /\ st[p].pc = "namex"
      /\ IF st[p].parent THEN Fail(p, Do("iput", s))
         ELSE Go(p, [st[p] EXCEPT !.pc = FoundPc(st[p].call), !.ip = s])
      /\ UNCHANGED <<disk, durable, inop, itable, ftable, ofile, cwd, lost>>
  BY DEF NamexEnd, At, Free
<1>2. /\ Reaches(p, s) /\ HoldsIp(st[p]) = Linking(p)
      /\ \A x \in Slot : HeldHere(st[p], cwd[p], x) =
               One(s = x) + One(HoldsIp(st[p]) /\ st[p].ip = x) + One(cwd[p] = x)
      /\ st[p] \in Control /\ CallOK(st[p])
  BY <1>1, AtNamex
<1> HIDE DEF s
<1>3. s \in Slot
  BY <1>1, <1>2, Reached
<1>4. Types /\ Named2 /\ Sound(disk)
  BY DEF IInv
<1>5. Keeps(p, {}, itable', disk')
  BY <1>1, <1>4, KeepsNothing
<1>6. \A x \in Slot : itable'[x].ref = itable[x].ref /\ itable[x].ref \in Nat
  BY <1>1, <1>4 DEF Types, Slots
<1>7. CASE st[p].parent
  BY <1>1, <1>2, <1>3, <1>4, <1>5, <1>6, <1>7, FailStep
<1>8. CASE ~ st[p].parent
  <2> DEFINE r == [st[p] EXCEPT !.pc = FoundPc(st[p].call), !.ip = s]
  <2>1. Go(p, r)
    BY <1>1, <1>8
  <2>2. /\ FoundPc(st[p].call) \in {"linkold", "open", "chdir"}
        /\ FoundPc(st[p].call) = "linkold" => st[p].call.op = "link"
    BY <1>1, <1>2, <1>8, FoundPcs
  <2>3. s \in 0 .. NINODE /\ FoundPc(st[p].call) \in Pcs
    BY <1>3, <2>2, FileSysAssumption DEF Slot, Pcs
  <2>4. /\ r \in Control /\ r.pc = FoundPc(st[p].call) /\ r.todo = <<>> /\ r.ip = s
        /\ r.call = st[p].call /\ r.parent = st[p].parent
    BY <1>1, <1>2, <2>3 DEF Control
  <2> HIDE DEF r
  <2>5. CallOK(r)
    BY <1>1, <1>2, <1>8, <2>2, <2>4 DEF CallOK
  <2>6. ~ HoldsAt(r) /\ ~ HoldsDp(r) /\ HoldsIp(r) /\ PcLocks(r) = {} /\ Plain(r.todo, {})
    BY <2>2, <2>4, TodoNone DEF HoldsAt, HoldsDp, HoldsIp, PcLocks, Plain
  <2>7. PlaceOK(r, itable', disk', p)
    BY <1>3, <2>2, <2>4, <2>5, <2>6 DEF PlaceOK
  <2>8. ASSUME NEW x \in Slot
        PROVE  itable'[x].ref = itable[x].ref - HeldHere(st[p], cwd[p], x)
                                + (HeldHere(r, cwd[p], x) + Tokened(r.todo, x))
    <3>1. HeldHere(st[p], cwd[p], x) = One(s = x) + One(cwd[p] = x)
      <4>1. ~ HoldsIp(st[p])
        BY <1>2, <1>8 DEF Linking
      <4>2. QED BY <1>2, <4>1 DEF One
    <3>2. HeldHere(r, cwd[p], x) = One(s = x) + One(cwd[p] = x)
      BY <2>4, <2>6 DEF HeldHere, One
    <3>3. Tokened(r.todo, x) = 0
      BY <2>4, TodoNone
    <3>4. QED BY <1>6, <3>1, <3>2, <3>3 DEF One
  <2>9. Fills(p, {}) /\ SameFiles /\ inop' \subseteq Proc
    BY <1>1, <1>4, FilesUnchanged DEF Fills, Types
  <2>10. QED BY <1>1, <1>4, <1>5, <2>1, <2>2, <2>4, <2>7, <2>8, <2>9, GoStep
<1>9. QED BY <1>7, <1>8

\* nameiparent() stops one level early.
LEMMA NamexParentStep ==
  ASSUME IInv, NEW p \in Proc, NamexParent(p)
  PROVE  IInv'
<1> DEFINE s == st[p].at
           r == [st[p] EXCEPT !.pc = ParentPc(st[p].call), !.dp = s, !.at = 0]
<1>1. /\ st[p].todo = <<>> /\ st[p].pc = "namex" /\ st[p].parent /\ st[p].path # <<>>
      /\ Unlocked(s) /\ Inode(s).type = "dir"
      /\ itable' = Loaded(itable, s, Inode(s), NoProc) /\ Go(p, r)
      /\ UNCHANGED <<disk, durable, inop, ftable, ofile, cwd, lost>>
  BY DEF NamexParent, At, Free, Ilock
<1>2. /\ Reaches(p, s) /\ HoldsIp(st[p]) = Linking(p)
      /\ \A x \in Slot : HeldHere(st[p], cwd[p], x) =
               One(s = x) + One(HoldsIp(st[p]) /\ st[p].ip = x) + One(cwd[p] = x)
      /\ st[p] \in Control /\ CallOK(st[p]) /\ (HoldsIp(st[p]) => st[p].ip \in Slot)
  BY <1>1, AtNamex
<1>3. s \in 0 .. NINODE
  BY <1>2 DEF Control
<1>4. st[p].call.op \in Creates \cup {"unlink", "link"}
  BY <1>1, <1>2 DEF CallOK
<1>5. /\ ParentPc(st[p].call) \in {"unlink", "link", "create"}
      /\ ParentPc(st[p].call) = "link" <=> st[p].call.op = "link"
      /\ ParentPc(st[p].call) = "create" => st[p].call.op \in Creates
      /\ ParentPc(st[p].call) \in Pcs
  BY <1>4 DEF ParentPc, Pcs, Creates
<1>6. /\ r \in Control /\ r.pc = ParentPc(st[p].call) /\ r.todo = <<>> /\ r.dp = s /\ r.ip = st[p].ip
      /\ r.call = st[p].call /\ r.parent = st[p].parent /\ r.path = st[p].path
  <2>1. 0 \in 0 .. NINODE
    BY FileSysAssumption
  <2>2. QED BY <1>1, <1>2, <1>3, <1>5, <2>1 DEF Control
<1> HIDE DEF s, r
<1>7. itable[s].lock = NoProc
  BY <1>1 DEF Unlocked
<1>8. /\ s \in Slot /\ itable[s].inum \in Inum /\ Inode(s) = disk.inode[itable[s].inum]
      /\ Inode(s) \in Dinodes /\ itable[s].ref > 0 /\ Types
  BY <1>1, <1>2, <1>7, Reached DEF IInv
<1>9. Keeps(p, {s}, itable', disk')
  <2>1. Inode(s).type # "none" /\ disk' = disk
    BY <1>1
  <2>2. QED BY <1>1, <1>7, <1>8, <2>1, LoadKeeps
<1>10. \A x \in Slot : itable'[x].ref = itable[x].ref /\ itable[x].ref \in Nat
  BY <1>1, <1>8, LoadCounts
<1>11. disk'.inode[itable'[s].inum].type = "dir"
  <2>1. itable'[s].inum = itable[s].inum
    BY <1>8, <1>9 DEF Keeps
  <2>2. QED BY <1>1, <1>8, <2>1
<1>12. CallOK(r)
  BY <1>1, <1>5, <1>6 DEF CallOK
<1>13. /\ ~ HoldsAt(r) /\ HoldsDp(r) /\ HoldsIp(r) = HoldsIp(st[p]) /\ PcLocks(r) = {}
       /\ Plain(r.todo, {})
  BY <1>1, <1>2, <1>5, <1>6, TodoNone DEF HoldsAt, HoldsDp, HoldsIp, PcLocks, Plain
<1>14. PlaceOK(r, itable', disk', p)
  BY <1>1, <1>2, <1>5, <1>6, <1>8, <1>11, <1>12, <1>13 DEF PlaceOK
<1>15. ASSUME NEW x \in Slot
       PROVE  itable'[x].ref = itable[x].ref - HeldHere(st[p], cwd[p], x)
                               + (HeldHere(r, cwd[p], x) + Tokened(r.todo, x))
  <2>1. Tokened(r.todo, x) = 0
    BY <1>6, TodoNone
  <2>2. HeldHere(r, cwd[p], x) = HeldHere(st[p], cwd[p], x) /\ HeldHere(r, cwd[p], x) \in Nat
    BY <1>2, <1>6, <1>13 DEF HeldHere, One
  <2>3. QED BY <1>10, <2>1, <2>2
<1>16. Fills(p, {s}) /\ SameFiles /\ inop' \subseteq Proc /\ Sound(disk')
  BY <1>1, <1>8, FilesUnchanged DEF Fills, Types, IInv
<1>17. QED BY <1>1, <1>5, <1>6, <1>9, <1>14, <1>15, <1>16, GoStep

\* A slot x of inode i taken, with what the other slots keep.
Taken(T, T2, i, x) ==
    /\ x \in Slot /\ T2[x].inum = i
    /\ \A y \in Slot : /\ T2[y].ref = T[y].ref + One(x = y) /\ T[y].ref \in Nat
                       /\ T[y].ref > 0 => T2[y].lock = T[y].lock /\ T2[y].inum = T[y].inum

\* A reference is taken: what the step proofs need of it.
LEMMA GotTaken ==
  ASSUME NEW T \in Tables, NEW T2, NEW i, NEW x, Got(T, T2, i, x)
  PROVE  Taken(T, T2, i, x)
<1>1. /\ x \in Slot /\ T2[x].inum = i /\ T2[x].ref = T[x].ref + 1
      /\ T[x].ref > 0 => T[x].inum = i /\ T2[x].lock = T[x].lock
      /\ \A y \in Slot : y # x => T2[y] = T[y]
  BY DEF Got
<1>2. \A y \in Slot : T[y].ref \in Nat
  BY DEF Tables, Slots
<1>3. ASSUME NEW y \in Slot
      PROVE  /\ T2[y].ref = T[y].ref + One(x = y)
             /\ T[y].ref > 0 => T2[y].lock = T[y].lock /\ T2[y].inum = T[y].inum
  <2>1. CASE x = y
    BY <1>1, <2>1 DEF One
  <2>2. CASE x # y
    <3>1. T2[y] = T[y] /\ T[y].ref \in Nat /\ One(x = y) = 0
      BY <1>1, <1>2, <2>2 DEF One
    <3>2. QED BY <3>1
  <2>3. QED BY <2>1, <2>2
<1>4. QED BY <1>1, <1>2, <1>3 DEF Taken

\* The same of iget().
LEMMA GetKeeps ==
  ASSUME IInv, NEW p \in Proc, NEW W, NEW T, NEW D, Keeps(p, W, T, D), NEW i \in Inum,
         Room(T, i)
  PROVE  Keeps(p, W, Iget(T, i).tab, D) /\ Taken(T, Iget(T, i).tab, i, Iget(T, i).slot)
<1>1. Types /\ T \in Tables /\ Distinct(T)
  BY DEF IInv, Keeps
<1>2. Got(T, Iget(T, i).tab, i, Iget(T, i).slot)
  BY <1>1, IgetGot
<1>3. QED BY <1>1, <1>2, KeepsGot, GotTaken

\* The start of namex().
LEMMA FromKeeps ==
  ASSUME IInv, NEW p \in Proc, st[p].pc # "none", NEW path, StartRoom(path)
  PROVE  /\ Keeps(p, {}, NamexFrom(p, path).tab, disk)
         /\ NamexFrom(p, path).tab \in Tables
         /\ \E i : Taken(itable, NamexFrom(p, path).tab, i, NamexFrom(p, path).slot)
<1>1. Types /\ Named2 /\ itable \in Tables
  BY DEF IInv, Types, Tables
<1>2. Keeps(p, {}, itable, disk)
  BY <1>1, KeepsNothing
<1>3. CASE path[1] = "/"
  <2>1. NamexFrom(p, path) = Iget(itable, ROOTINO)
    BY <1>3 DEF NamexFrom
  <2>2. ROOTINO \in Inum
    BY ImageSound
  <2>3. Keeps(p, {}, Iget(itable, ROOTINO).tab, disk)
        /\ Taken(itable, Iget(itable, ROOTINO).tab, ROOTINO, Iget(itable, ROOTINO).slot)
    BY <1>2, <1>3, <2>2, GetKeeps DEF StartRoom
  <2>4. QED BY <2>1, <2>3 DEF Keeps
<1>4. CASE path[1] # "/"
  <2> DEFINE c == cwd[p]
             T2 == Idup(itable, c)
  <2>1. NamexFrom(p, path).slot = c /\ NamexFrom(p, path).tab = T2
    BY <1>4 DEF NamexFrom
  <2>2. c \in Slot /\ itable[c].ref > 0 /\ itable[c].inum \in Inum
    BY CwdReached
  <2>3. Got(itable, T2, itable[c].inum, c)
    BY <1>1, <2>2, IdupGot
  <2> HIDE DEF c, T2
  <2>4. Keeps(p, {}, T2, disk) /\ Taken(itable, T2, itable[c].inum, c)
    BY <1>1, <1>2, <2>2, <2>3, KeepsGot, GotTaken
  <2>5. QED BY <2>1, <2>4 DEF Keeps
<1>5. QED BY <1>3, <1>4

\* The first element of a path and the rest.
LEMMA PathTail ==
  ASSUME NEW path \in Seq(STRING), path # <<>>
  PROVE  path[1] \in Names /\ Tail(path) \in Seq(STRING)
<1>1. Len(path) \in Nat \ {0} /\ 1 \in 1 .. Len(path)
  BY EmptySeq, LenProperties
<1>2. path[1] \in STRING
  BY <1>1, ElementOfSeq
<1>3. QED BY <1>2, HeadTailProperties DEF Names

\* The elements of a path.
LEMMA ElemsType ==
  ASSUME NEW path, IsPath(path)
  PROVE  Elems(path) \in Seq(STRING)
BY PathTail DEF IsPath, Elems

\* begin_op() and the start of a look-up.
LEMMA SysPathStep ==
  ASSUME IInv, NEW p \in Proc, SysPath(p)
  PROVE  IInv'
<1>1. PICK c \in {c \in st[p].calls : "path" \in DOMAIN c} :
         /\ st[p].todo = <<>> /\ st[p].pc = "user" /\ inop' = inop \cup {p} /\ StartRoom(c.path)
         /\ itable' = NamexFrom(p, c.path).tab
         /\ Go(p, [st[p] EXCEPT !.pc = "namex", !.call = c, !.path = Elems(c.path),
                                !.at = NamexFrom(p, c.path).slot, !.parent = WantsParent(c)])
         /\ UNCHANGED <<disk, durable, ftable, ofile, cwd, lost>>
  BY DEF SysPath, At, Free, BeginOp
<1> DEFINE g == NamexFrom(p, c.path)
           r == [st[p] EXCEPT !.pc = "namex", !.call = c, !.path = Elems(c.path),
                              !.at = g.slot, !.parent = WantsParent(c)]
<1>2. Types /\ st[p] \in Control /\ Sound(disk)
  BY DEF IInv, Types
<1>3. c \in Calls
  BY <1>2 DEF Control
<1>4. IsPath(c.path) /\ c.op \in {"open", "link", "unlink", "mkdir", "mknod", "chdir"}
      /\ (c.op = "open" => c.create \in BOOLEAN)
  BY <1>3, CallsAssumption
<1>5. Elems(c.path) \in Seq(STRING) /\ WantsParent(c) \in BOOLEAN
  BY <1>4, ElemsType DEF WantsParent
<1>6. PICK i : Taken(itable, g.tab, i, g.slot)
  BY <1>1, FromKeeps
<1>7. Keeps(p, {}, itable', disk')
  BY <1>1, FromKeeps
<1>8. g.slot \in Slot /\ g.slot \in 0 .. NINODE
  BY <1>6, FileSysAssumption DEF Taken, Slot
<1>9. \A y \in Slot : itable'[y].ref = itable[y].ref + One(g.slot = y) /\ itable[y].ref \in Nat
  BY <1>1, <1>6 DEF Taken
<1>10. Go(p, r)
  BY <1>1
<1> HIDE DEF g
<1>11. /\ r \in Control /\ r.pc = "namex" /\ r.call = c /\ r.at = g.slot /\ r.todo = <<>>
       /\ r.parent = WantsParent(c)
  BY <1>1, <1>2, <1>3, <1>5, <1>8 DEF Control, Pcs
<1> HIDE DEF r
<1>12. CallOK(r)
  BY <1>1, <1>4, <1>11 DEF CallOK, WantsParent, Creates
<1>13. HoldsAt(r) /\ ~ HoldsDp(r) /\ ~ HoldsIp(r) /\ PcLocks(r) = {} /\ Plain(r.todo, {})
  BY <1>4, <1>11, TodoNone DEF HoldsAt, HoldsDp, HoldsIp, PcLocks, Plain, WantsParent
<1>14. PlaceOK(r, itable', disk', p)
  BY <1>8, <1>11, <1>12, <1>13 DEF PlaceOK
<1>15. ASSUME NEW x \in Slot
       PROVE  itable'[x].ref = itable[x].ref - HeldHere(st[p], cwd[p], x)
                               + (HeldHere(r, cwd[p], x) + Tokened(r.todo, x))
  <2>1. Tokened(r.todo, x) = 0
    BY <1>11, TodoNone
  <2>2. HeldHere(st[p], cwd[p], x) = One(cwd[p] = x)
    BY <1>1 DEF HeldHere, HoldsAt, HoldsDp, HoldsIp, One
  <2>3. HeldHere(r, cwd[p], x) = One(g.slot = x) + One(cwd[p] = x)
    BY <1>11, <1>13 DEF HeldHere, One
  <2>4. QED BY <1>9, <2>1, <2>2, <2>3 DEF One
<1>16. Fills(p, {}) /\ SameFiles /\ inop' \subseteq Proc /\ Sound(disk')
  BY <1>1, <1>2, FilesUnchanged DEF Fills, Types
<1>17. QED BY <1>1, <1>7, <1>10, <1>11, <1>14, <1>15, <1>16, GoStep

OneMore(T, x) == \A y \in Slot : T[y].ref = itable[y].ref + One(x = y) /\ itable[y].ref \in Nat
UsedFor(T, x, i) == T[x].inum = i /\ T[x].ref > 0
LockedBy(T, s, who) == T[s].lock = who /\ T[s].inum = itable[s].inum

\* ilock() of a directory and iget() of an inode that it names.
LEMMA LoadGet ==
  ASSUME IInv, NEW p \in Proc, st[p].todo = <<>>, NEW s, Reaches(p, s), itable[s].lock \in {p, NoProc},
         Inode(s).type # "none", NEW who \in {p, NoProc}, NEW i \in Inum,
         NEW g, Iget(Loaded(itable, s, Inode(s), who), i) = g, Room(itable, i)
  PROVE  /\ Keeps(p, {s}, g.tab, disk) /\ g.slot \in Slot /\ UsedFor(g.tab, g.slot, i)
         /\ LockedBy(g.tab, s, who) /\ OneMore(g.tab, g.slot)
<1> DEFINE L == Loaded(itable, s, Inode(s), who)
<1>1. /\ s \in Slot /\ itable[s].inum \in Inum /\ Inode(s) = disk.inode[itable[s].inum]
      /\ Inode(s) \in Dinodes /\ itable[s].ref > 0 /\ itable \in Tables
  BY Reached DEF IInv, Types, Tables
<1>2. Keeps(p, {s}, L, disk)
  BY <1>1, LoadKeeps
<1>3. LoadedAs(itable, L, s, Inode(s), who)
  BY <1>1, LoadedFacts
<1>4. \A y \in Slot : L[y].ref = itable[y].ref /\ itable[y].ref \in Nat
  BY <1>1, LoadCounts
<1>5. Iget(L, i) = g
  OBVIOUS
<1> HIDE DEF L
<1>8. Room(L, i)
  <2>1. \A y \in Slot : L[y].ref = itable[y].ref /\ L[y].inum = itable[y].inum
    BY <1>3, <1>4 DEF LoadedAs
  <2>2. Has(L, i) = Has(itable, i) /\ Vacant(L) = Vacant(itable)
    BY <2>1 DEF Has, Vacant
  <2>3. QED BY <2>2 DEF Room
<1>6. Keeps(p, {s}, g.tab, disk) /\ Taken(L, g.tab, i, g.slot)
  BY <1>2, <1>5, <1>8, GetKeeps
<1>7. /\ L[s].lock = who /\ L[s].inum = itable[s].inum /\ L[s].ref > 0
  BY <1>1, <1>3 DEF LoadedAs
<1>9. g.tab[s].lock = who /\ g.tab[s].inum = itable[s].inum
  BY <1>1, <1>6, <1>7 DEF Taken
<1>10. \A y \in Slot : g.tab[y].ref = itable[y].ref + One(g.slot = y) /\ itable[y].ref \in Nat
  BY <1>4, <1>6 DEF Taken
<1>11. g.slot \in Slot /\ g.tab[g.slot].inum = i
  BY <1>6 DEF Taken
<1>12. g.tab[g.slot].ref > 0
  BY <1>10, <1>11 DEF One
<1>13. QED BY <1>6, <1>9, <1>10, <1>11, <1>12 DEF OneMore, LockedBy, UsedFor

\* namex() one level down.
LEMMA NamexDownStep ==
  ASSUME IInv, NEW p \in Proc, NamexDown(p)
  PROVE  IInv'
<1> DEFINE s == st[p].at
           d == Inode(s)
           off == Dirlookup(disk, d, Elem(p))
           inum == Dirent(disk, d, off).inum
           g == Iget(Loaded(itable, s, d, NoProc), inum)
           x == g.slot
           rest == Tail(st[p].path)
           t == Do("iput", s)
           found == [st[p] EXCEPT !.pc = FoundPc(st[p].call), !.ip = x, !.path = rest, !.at = 0, !.todo = t]
           down == [st[p] EXCEPT !.path = rest, !.at = x, !.todo = t]
           r == IF rest = <<>> THEN found ELSE down
<1>1. /\ st[p].todo = <<>> /\ st[p].pc = "namex" /\ st[p].path # <<>> /\ Unlocked(s)
      /\ d.type = "dir" /\ ~ (st[p].parent /\ Len(st[p].path) = 1) /\ off # -1
      /\ itable' = g.tab /\ Go(p, r) /\ Room(itable, inum)
      /\ UNCHANGED <<disk, durable, inop, ftable, ofile, cwd, lost>>
  BY DEF NamexDown, At, Free, Ilock, LastElem
<1>2. /\ Reaches(p, s) /\ HoldsIp(st[p]) = Linking(p)
      /\ \A y \in Slot : HeldHere(st[p], cwd[p], y) =
               One(s = y) + One(HoldsIp(st[p]) /\ st[p].ip = y) + One(cwd[p] = y)
      /\ st[p].path \in Seq(STRING) /\ st[p] \in Control /\ CallOK(st[p])
      /\ HoldsIp(st[p]) => st[p].ip \in Slot
  BY <1>1, AtNamex
<1>3. rest \in Seq(STRING)
  BY <1>1, <1>2, PathTail
<1>4. rest = <<>> => ~ st[p].parent
  <2>1. rest = <<>> => Len(st[p].path) = 1
    <3>1. Len(rest) = Len(st[p].path) - 1 /\ Len(st[p].path) \in Nat
      BY <1>1, <1>2, HeadTailProperties, LenProperties
    <3>2. rest = <<>> => Len(rest) = 0
      BY EmptySeq
    <3> HIDE DEF rest
    <3>3. QED BY <3>1, <3>2
  <2>2. QED BY <1>1, <2>1
<1> HIDE DEF s, rest, r, found, down
<1>5. itable[s].lock = NoProc
  BY <1>1 DEF Unlocked
<1>6. /\ s \in Slot /\ itable[s].inum \in Inum /\ d = disk.inode[itable[s].inum] /\ itable[s].ref > 0
  BY <1>1, <1>2, <1>5, Reached
<1>7. Sound(disk) /\ Types
  BY DEF IInv
<1>8. inum \in Inum
  BY <1>1, <1>6, <1>7, DirlookupFinds
<1>9. /\ Keeps(p, {s}, g.tab, disk) /\ x \in Slot
      /\ \A y \in Slot : g.tab[y].ref = itable[y].ref + One(x = y) /\ itable[y].ref \in Nat
  <2>1. /\ Inode(s).type # "none" /\ Iget(Loaded(itable, s, Inode(s), NoProc), inum) = g
        /\ Room(itable, inum)
    BY <1>1
  <2>2. st[p].todo = <<>> /\ itable[s].lock \in {p, NoProc} /\ NoProc \in {p, NoProc} /\ Reaches(p, s)
    BY <1>1, <1>2, <1>5
  <2> HIDE DEF inum, g, d
  <2>3. Keeps(p, {s}, g.tab, disk) /\ g.slot \in Slot /\ OneMore(g.tab, g.slot)
    BY <1>8, <2>1, <2>2, LoadGet
  <2>4. QED BY <2>3 DEF OneMore
<1> HIDE DEF d, off, inum, g
<1>10. Plain(t, {}) /\ (\A y : Tokened(t, y) = One(s = y)) /\ t \in Seq(Items)
  BY <1>6, TodoPut DEF Plain
<1> HIDE DEF t
<1>11. x \in 0 .. NINODE /\ 0 \in 0 .. NINODE
  BY <1>9, FileSysAssumption DEF Slot
<1> HIDE DEF x
<1>12. CASE rest = <<>>
  <2>1. /\ FoundPc(st[p].call) \in {"linkold", "open", "chdir"}
        /\ FoundPc(st[p].call) = "linkold" => st[p].call.op = "link"
    BY <1>1, <1>2, <1>4, <1>12, FoundPcs
  <2>2. FoundPc(st[p].call) \in Pcs
    BY <2>1 DEF Pcs
  <2>3. /\ found \in Control /\ found.pc = FoundPc(st[p].call) /\ found.ip = x /\ found.todo = t
        /\ found.call = st[p].call /\ found.parent = st[p].parent
    <3>1. st[p] \in Control /\ rest \in Seq(STRING) /\ t \in Seq(Items)
      BY <1>2, <1>3, <1>10
    <3>2. QED BY <1>11, <2>2, <3>1 DEF Control, found
  <2>4. Go(p, found)
    BY <1>1, <1>12 DEF r
  <2>5. CallOK(found)
    BY <1>1, <1>2, <1>4, <1>12, <2>1, <2>3 DEF CallOK
  <2>6. ~ HoldsAt(found) /\ ~ HoldsDp(found) /\ HoldsIp(found) /\ PcLocks(found) = {}
    BY <2>1, <2>3 DEF HoldsAt, HoldsDp, HoldsIp, PcLocks
  <2>7. PlaceOK(found, itable', disk', p)
    BY <1>9, <1>10, <2>1, <2>3, <2>5, <2>6 DEF PlaceOK
  <2>8. ASSUME NEW y \in Slot
        PROVE  itable'[y].ref = itable[y].ref - HeldHere(st[p], cwd[p], y)
                                + (HeldHere(found, cwd[p], y) + Tokened(found.todo, y))
    <3>1. HeldHere(st[p], cwd[p], y) = One(s = y) + One(cwd[p] = y)
      <4>1. ~ HoldsIp(st[p])
        BY <1>2, <1>4, <1>12 DEF Linking
      <4>2. QED BY <1>2, <4>1 DEF One
    <3>2. HeldHere(found, cwd[p], y) = One(x = y) + One(cwd[p] = y)
      BY <2>3, <2>6 DEF HeldHere, One
    <3>3. Tokened(found.todo, y) = One(s = y)
      BY <1>10, <2>3
    <3>4. itable'[y].ref = itable[y].ref + One(x = y) /\ itable[y].ref \in Nat
      BY <1>1, <1>9
    <3>5. QED BY <3>1, <3>2, <3>3, <3>4 DEF One
  <2>9. Fills(p, {s}) /\ SameFiles /\ inop' \subseteq Proc /\ Sound(disk') /\ Keeps(p, {s}, itable', disk')
    BY <1>1, <1>7, <1>9, FilesUnchanged DEF Fills, Types
  <2>10. QED BY <1>1, <2>1, <2>3, <2>4, <2>7, <2>8, <2>9, GoStep
<1>13. CASE rest # <<>>
  <2>1. /\ down \in Control /\ down.pc = "namex" /\ down.at = x /\ down.todo = t /\ down.ip = st[p].ip
        /\ down.call = st[p].call /\ down.parent = st[p].parent
    <3>1. st[p] \in Control /\ rest \in Seq(STRING) /\ t \in Seq(Items)
      BY <1>2, <1>3, <1>10
    <3>2. QED BY <1>1, <1>11, <3>1 DEF Control, down
  <2>2. Go(p, down)
    BY <1>1, <1>13 DEF r
  <2>3. CallOK(down)
    BY <1>1, <1>2, <2>1 DEF CallOK
  <2>4. HoldsAt(down) /\ ~ HoldsDp(down) /\ HoldsIp(down) = HoldsIp(st[p]) /\ PcLocks(down) = {}
    BY <1>1, <2>1 DEF HoldsAt, HoldsDp, HoldsIp, PcLocks
  <2>5. PlaceOK(down, itable', disk', p)
    BY <1>2, <1>9, <1>10, <2>1, <2>3, <2>4 DEF PlaceOK
  <2>6. ASSUME NEW y \in Slot
        PROVE  itable'[y].ref = itable[y].ref - HeldHere(st[p], cwd[p], y)
                                + (HeldHere(down, cwd[p], y) + Tokened(down.todo, y))
    <3> DEFINE i == One(HoldsIp(st[p]) /\ st[p].ip = y)
    <3>1. HeldHere(st[p], cwd[p], y) = One(s = y) + i + One(cwd[p] = y)
      BY <1>2
    <3>2. HeldHere(down, cwd[p], y) = One(x = y) + i + One(cwd[p] = y)
      BY <2>1, <2>4 DEF HeldHere, One
    <3>3. Tokened(down.todo, y) = One(s = y)
      BY <1>10, <2>1
    <3>4. itable'[y].ref = itable[y].ref + One(x = y) /\ itable[y].ref \in Nat
      BY <1>1, <1>9
    <3>5. i \in Nat
      BY DEF One
    <3> HIDE DEF i
    <3>6. QED BY <3>1, <3>2, <3>3, <3>4, <3>5 DEF One
  <2>7. Fills(p, {s}) /\ SameFiles /\ inop' \subseteq Proc /\ Sound(disk') /\ Keeps(p, {s}, itable', disk')
    BY <1>1, <1>7, <1>9, FilesUnchanged DEF Fills, Types
  <2>8. QED BY <1>1, <2>1, <2>2, <2>5, <2>6, <2>7, GoStep
<1>14. QED BY <1>12, <1>13

\* sys_link(): nlink++.
LEMMA LinkOldStep ==
  ASSUME IInv, NEW p \in Proc, LinkOld(p)
  PROVE  IInv'
<1> DEFINE s == st[p].ip
           d == [Inode(s) EXCEPT !.nlink = @ + 1]
           g == NamexFrom(p, st[p].call.new)
           T == g.tab
           x == g.slot
           r == [st[p] EXCEPT !.pc = "namex", !.path = Elems(st[p].call.new), !.at = x, !.parent = TRUE]
<1>1. /\ st[p].todo = <<>> /\ st[p].pc = "linkold" /\ Unlocked(s) /\ Inode(s).type # "none"
      /\ disk' = Iupdate(disk, itable[s].inum, d) /\ StartRoom(st[p].call.new)
      /\ itable' = Loaded(T, s, d, NoProc) /\ Go(p, r)
      /\ UNCHANGED <<durable, inop, ftable, ofile, cwd, lost>>
  BY DEF LinkOld, At, Free, Ilock
<1>2. Types /\ Local(p) /\ st[p] \in Control /\ Sound(disk) /\ Named2
  BY DEF IInv, Types
<1>3. st[p].call.op = "link" /\ IsPath(st[p].call.new) /\ "path" \in DOMAIN st[p].call
  <2>1. st[p].call.op = "link" /\ "path" \in DOMAIN st[p].call
    BY <1>1, <1>2 DEF Local, CallOK
  <2>2. st[p].call \in Calls
    BY <1>2, <2>1 DEF Control, NoCall
  <2>3. QED BY <2>1, <2>2, CallsAssumption
<1>4. Elems(st[p].call.new) \in Seq(STRING)
  BY <1>3, ElemsType
<1>5. Reaches(p, s) /\ itable[s].lock = NoProc
  BY <1>1 DEF Reaches, HoldsIp, Unlocked
<1>6. PICK i : Taken(itable, T, i, x)
  BY <1>1, FromKeeps
<1>7. Keeps(p, {}, T, disk) /\ T \in Tables
  BY <1>1, FromKeeps
<1> HIDE DEF s, g, T, x
<1>8. x \in Slot /\ x \in 0 .. NINODE
  BY <1>6, FileSysAssumption DEF Taken, Slot
<1>9. /\ r \in Control /\ r.pc = "namex" /\ r.call = st[p].call /\ r.at = x /\ r.todo = <<>>
      /\ r.parent = TRUE /\ r.ip = st[p].ip
  BY <1>1, <1>2, <1>4, <1>8 DEF Control, Pcs
<1> HIDE DEF r
<1>10. /\ s \in Slot /\ itable[s].inum \in Inum /\ Inode(s) = disk.inode[itable[s].inum]
       /\ Inode(s) \in Dinodes /\ itable[s].ref > 0
  BY <1>1, <1>5, Reached
<1>11. d \in Dinodes /\ d.addrs = Inode(s).addrs /\ d.size = Inode(s).size /\ d.type = Inode(s).type
  BY <1>10, WithNlink DEF Dinodes
<1> HIDE DEF d
<1>12. /\ Sound(disk') /\ disk'.inode[itable[s].inum] = d
       /\ \A j \in Inum : j # itable[s].inum => disk'.inode[j] = disk.inode[j]
  BY <1>1, <1>2, <1>10, <1>11, NlinkSound
<1>13. Keeps(p, {} \cup {s}, Loaded(T, s, d, NoProc), disk')
  <2>1. /\ itable[s].lock \in {p, NoProc} /\ NoProc \in {p, NoProc} /\ d.type # "none"
        /\ disk.inode[itable[s].inum].type \in {"none", d.type}
    BY <1>1, <1>5, <1>10, <1>11
  <2>2. QED BY <1>2, <1>7, <1>10, <1>11, <1>12, <2>1, KeepsLoaded
<1>14. Keeps(p, {s}, itable', disk')
  BY <1>1, <1>13
<1>15. \A y \in Slot : itable'[y].ref = itable[y].ref + One(x = y) /\ itable[y].ref \in Nat
  <2>1. LoadedAs(T, itable', s, d, NoProc)
    BY <1>1, <1>7, <1>10, <1>11, LoadedFacts
  <2>2. \A y \in Slot : itable'[y].ref = T[y].ref
    BY <2>1 DEF LoadedAs
  <2>3. QED BY <1>6, <2>2 DEF Taken
<1>16. CallOK(r)
  BY <1>3, <1>9 DEF CallOK
<1>17. HoldsAt(r) /\ ~ HoldsDp(r) /\ HoldsIp(r) /\ PcLocks(r) = {} /\ Plain(r.todo, {})
  BY <1>3, <1>9, TodoNone DEF HoldsAt, HoldsDp, HoldsIp, PcLocks, Plain
<1>18. PlaceOK(r, itable', disk', p)
  BY <1>8, <1>9, <1>10, <1>16, <1>17 DEF PlaceOK, s
<1>19. ASSUME NEW y \in Slot
       PROVE  itable'[y].ref = itable[y].ref - HeldHere(st[p], cwd[p], y)
                               + (HeldHere(r, cwd[p], y) + Tokened(r.todo, y))
  <2>1. Tokened(r.todo, y) = 0
    BY <1>9, TodoNone
  <2>2. HeldHere(st[p], cwd[p], y) = One(s = y) + One(cwd[p] = y)
    BY <1>1 DEF HeldHere, HoldsAt, HoldsDp, HoldsIp, One, s
  <2>3. HeldHere(r, cwd[p], y) = One(x = y) + One(s = y) + One(cwd[p] = y)
    BY <1>9, <1>17 DEF HeldHere, One, s
  <2>4. QED BY <1>15, <2>1, <2>2, <2>3 DEF One
<1>20. Fills(p, {s}) /\ SameFiles /\ inop' \subseteq Proc
  <2>1. \A i2 \in Inum : disk.inode[i2].type = "none" => disk'.inode[i2].type = "none"
    BY <1>10, <1>11, <1>12
  <2>2. QED BY <1>1, <1>2, <2>1, FilesUnchanged DEF Fills, Types
<1>21. QED BY <1>1, <1>9, <1>12, <1>14, <1>18, <1>19, <1>20, GoStep

\* A process that holds a directory by dp.
LEMMA AtDp ==
  ASSUME IInv, NEW p \in Proc, st[p].todo = <<>>, HoldsDp(st[p])
  PROVE  /\ Reaches(p, st[p].dp) /\ st[p].dp \in Slot /\ TypeOf(st[p].dp) = "dir"
         /\ Elem(p) \in Names /\ st[p] \in Control /\ CallOK(st[p])
         /\ st[p].path # <<>> /\ st[p].path \in Seq(STRING)
         /\ \A x \in Slot : HeldHere(st[p], cwd[p], x) =
               One(st[p].dp = x) + One(HoldsIp(st[p]) /\ st[p].ip = x) + One(cwd[p] = x)
<1>1. Types /\ Local(p)
  BY DEF IInv
<1>2. st[p] \in Control /\ st[p].path \in Seq(STRING)
  BY <1>1 DEF Types, Control
<1>3. st[p].dp \in Slot /\ st[p].path # <<>> /\ TypeOf(st[p].dp) = "dir" /\ CallOK(st[p])
  BY <1>1 DEF Local, Holding
<1>4. Elem(p) \in Names
  BY <1>2, <1>3, PathTail DEF Elem
<1>5. ~ HoldsAt(st[p])
  BY DEF HoldsDp, HoldsAt
<1>6. \A x \in Slot : HeldHere(st[p], cwd[p], x) =
               One(st[p].dp = x) + One(HoldsIp(st[p]) /\ st[p].ip = x) + One(cwd[p] = x)
  BY <1>5 DEF HeldHere, One
<1>7. QED BY <1>2, <1>3, <1>4, <1>6 DEF Reaches

\* sys_link(): the new entry.
LEMMA LinkNewStep ==
  ASSUME IInv, NEW p \in Proc, LinkNew(p)
  PROVE  IInv'
<1> DEFINE s == st[p].dp
           i == st[p].ip
           l == Dirlink(disk, itable[s].inum, Inode(s), Elem(p), itable[i].inum)
<1>1. /\ st[p].todo = <<>> /\ st[p].pc = "link" /\ Unlocked(s) /\ Inode(s).type # "none"
      /\ disk' = l.disk /\ itable' = Loaded(itable, s, l.d, NoProc)
      /\ IF l.ok THEN Return(p, Do("iput", s) \o Do("iput", i) \o EndOp) ELSE Fail(p, Do("iput", s))
      /\ UNCHANGED <<durable, inop, ftable, ofile, cwd, lost>>
  BY DEF LinkNew, At, Free, Ilock
<1>2. HoldsDp(st[p]) /\ HoldsIp(st[p])
  BY <1>1 DEF HoldsDp, HoldsIp
<1>3. /\ Reaches(p, s) /\ TypeOf(s) = "dir" /\ Elem(p) \in Names /\ CallOK(st[p])
      /\ \A x \in Slot : HeldHere(st[p], cwd[p], x) =
               One(s = x) + One(HoldsIp(st[p]) /\ i = x) + One(cwd[p] = x)
  BY <1>1, <1>2, AtDp
<1>4. i \in Slot /\ Types /\ Sound(disk)
  BY <1>2 DEF IInv, Local, Holding
<1>5. itable[i].inum \in 0 .. NINODES
  BY <1>4 DEF Types, Slots
<1>6. itable[s].lock = NoProc
  BY <1>1 DEF Unlocked
<1>7. HoldsIp(st[p]) = Linking(p)
  BY <1>1, <1>2, <1>3 DEF CallOK, Linking
<1> HIDE DEF s, i
<1>8. /\ s \in Slot /\ itable[s].inum \in Inum /\ disk.inode[itable[s].inum] = Inode(s)
      /\ Inode(s) \in Dinodes /\ itable[s].ref > 0 /\ Inode(s).type = "dir"
  BY <1>1, <1>3, <1>6, Reached
<1>9. Wrote(disk, itable[s].inum, Inode(s), l)
  BY <1>1, <1>3, <1>4, <1>5, <1>8, DirlinkSound
<1> HIDE DEF l
<1>10. /\ Sound(disk') /\ l.d \in Dinodes /\ l.d.type = "dir" /\ disk'.inode[itable[s].inum] = l.d
       /\ \A j \in Inum : j # itable[s].inum => disk'.inode[j] = disk.inode[j]
  BY <1>1, <1>8, <1>9 DEF Wrote, SameKind
<1>11. Keeps(p, {s}, itable', disk')
  BY <1>1, <1>6, <1>8, <1>10, LoadKeeps
<1>12. \A x \in Slot : itable'[x].ref = itable[x].ref /\ itable[x].ref \in Nat
  BY <1>1, <1>8, <1>10, LoadCounts
<1>13. \A j \in Inum : disk.inode[j].type = "none" => disk'.inode[j].type = "none"
  BY <1>8, <1>10
<1>14. CASE l.ok
  <2> DEFINE t == Do("iput", s) \o Do("iput", i) \o EndOp
  <2>1. Ended(p, "user", t)
    BY <1>1, <1>14 DEF Return, Ended
  <2>2. Plain(t, {}) /\ \A x : Tokened(t, x) = One(s = x) + One(i = x)
    BY <1>4, <1>8, TodoPutPutEnd
  <2> HIDE DEF t
  <2>3. cwd' \in [Proc -> 0 .. NINODE] /\ cwd'[p] \in Slot /\ inop' \subseteq Proc /\ SameFiles
    BY <1>1, <1>4, CwdReached, FilesUnchanged DEF Types
  <2>4. ASSUME NEW x \in Slot
        PROVE  itable'[x].ref = itable[x].ref - Held(p, x) + (One(cwd'[p] = x) + Tokened(t, x))
    <3>1. Held(p, x) = HeldHere(st[p], cwd[p], x)
      BY <1>1, <1>4, HeldNow
    <3>2. HeldHere(st[p], cwd[p], x) = One(s = x) + One(i = x) + One(cwd[p] = x)
      BY <1>2, <1>3 DEF One
    <3>3. Tokened(t, x) = One(s = x) + One(i = x)
      BY <2>2
    <3>4. QED BY <1>1, <1>12, <3>1, <3>2, <3>3 DEF One
  <2>5. QED BY <1>1, <1>10, <1>11, <1>13, <2>1, <2>2, <2>3, <2>4, ReturnStep
<1>15. CASE ~ l.ok
  BY <1>1, <1>3, <1>7, <1>8, <1>10, <1>11, <1>12, <1>13, <1>15, FailStep DEF i
<1>16. QED BY <1>14, <1>15

\* sys_unlink(): the look-up in the locked directory.
LEMMA UnlinkDirStep ==
  ASSUME IInv, NEW p \in Proc, UnlinkDir(p)
  PROVE  IInv'
<1> DEFINE s == st[p].dp
           d == Inode(s)
           off == Dirlookup(disk, d, Elem(p))
           inum == Dirent(disk, d, off).inum
           g == Iget(Loaded(itable, s, d, p), inum)
           x == g.slot
           r == [st[p] EXCEPT !.pc = "unlinkip", !.ip = x, !.off = off]
<1>1. /\ st[p].todo = <<>> /\ st[p].pc = "unlink" /\ Unlocked(s) /\ d.type # "none"
      /\ \/ itable' = Loaded(itable, s, Inode(s), NoProc) /\ Return(p, Do("iput", s) \o EndOp)
         \/ off # -1 /\ itable' = g.tab /\ Go(p, r) /\ Room(itable, inum)
      /\ UNCHANGED <<disk, durable, inop, ftable, ofile, cwd, lost>>
  BY DEF UnlinkDir, UnlinkDirAs, At, Free, Ilock
<1>2. HoldsDp(st[p]) /\ ~ HoldsIp(st[p])
  BY <1>1 DEF HoldsDp, HoldsIp
<1>3. /\ Reaches(p, s) /\ TypeOf(s) = "dir" /\ st[p] \in Control /\ st[p].path # <<>>
      /\ \A y \in Slot : HeldHere(st[p], cwd[p], y) =
               One(s = y) + One(HoldsIp(st[p]) /\ st[p].ip = y) + One(cwd[p] = y)
  BY <1>1, <1>2, AtDp
<1>4. \A y \in Slot : HeldHere(st[p], cwd[p], y) = One(s = y) + One(cwd[p] = y)
  BY <1>2, <1>3 DEF One
<1>5. itable[s].lock = NoProc
  BY <1>1 DEF Unlocked
<1>6. CASE itable' = Loaded(itable, s, Inode(s), NoProc) /\ Return(p, Do("iput", s) \o EndOp)
  <2> HIDE DEF s
  <2>1. Inode(s).type # "none"
    BY <1>1
  <2>2. QED BY <1>1, <1>3, <1>4, <1>5, <1>6, <2>1, PutBackSame
<1>7. CASE off # -1 /\ itable' = g.tab /\ Go(p, r) /\ Room(itable, inum)
  <2>1. s \in Slot /\ itable[s].inum \in Inum /\ d = disk.inode[itable[s].inum] /\ d.type = "dir"
    BY <1>1, <1>3, <1>5, Reached
  <2>2. Sound(disk) /\ Types
    BY DEF IInv
  <2>3. inum \in Inum /\ off \in Nat
    BY <1>7, <2>1, <2>2, DirlookupFinds
  <2>4. Go(p, r) /\ itable' = g.tab
    BY <1>7
  <2>5. /\ Inode(s).type # "none" /\ Iget(Loaded(itable, s, Inode(s), p), inum) = g
        /\ Room(itable, inum)
    BY <1>1, <1>7
  <2>6. /\ st[p].todo = <<>> /\ itable[s].lock \in {p, NoProc} /\ p \in {p, NoProc} /\ Reaches(p, s)
    BY <1>1, <1>3, <1>5
  <2> HIDE DEF inum, g, d, off, r, x, s
  <2>17. /\ Keeps(p, {s}, g.tab, disk) /\ g.slot \in Slot /\ OneMore(g.tab, g.slot)
         /\ LockedBy(g.tab, s, p)
    BY <2>3, <2>5, <2>6, LoadGet
  <2>7. /\ Keeps(p, {s}, g.tab, disk) /\ x \in Slot /\ OneMore(g.tab, x)
        /\ g.tab[s].lock = p /\ g.tab[s].inum = itable[s].inum
    BY <2>17 DEF x, LockedBy
  <2>8. x \in 0 .. NINODE /\ off \in Int
    BY <2>3, <2>7, FileSysAssumption DEF Slot
  <2>9. /\ r \in Control /\ r.pc = "unlinkip" /\ r.ip = x /\ r.off = off /\ r.todo = <<>> /\ r.dp = s
        /\ r.path = st[p].path
    BY <1>1, <1>3, <2>8 DEF Control, Pcs, r, s
  <2>10. CallOK(r)
    BY <2>3, <2>9 DEF CallOK
  <2>11. ~ HoldsAt(r) /\ HoldsDp(r) /\ HoldsIp(r) /\ PcLocks(r) = {s} /\ Plain(r.todo, {})
    BY <2>9, TodoNone DEF HoldsAt, HoldsDp, HoldsIp, PcLocks, Plain
  <2>12. disk'.inode[itable'[s].inum].type = "dir" /\ itable'[s].lock = p
    BY <1>1, <2>1, <2>4, <2>7
  <2>13. PlaceOK(r, itable', disk', p)
    BY <1>3, <2>1, <2>7, <2>9, <2>10, <2>11, <2>12 DEF PlaceOK
  <2>14. ASSUME NEW y \in Slot
         PROVE  itable'[y].ref = itable[y].ref - HeldHere(st[p], cwd[p], y)
                                 + (HeldHere(r, cwd[p], y) + Tokened(r.todo, y))
    <3>1. Tokened(r.todo, y) = 0
      BY <2>9, TodoNone
    <3>2. HeldHere(r, cwd[p], y) = One(s = y) + One(x = y) + One(cwd[p] = y)
      BY <2>9, <2>11 DEF HeldHere, One
    <3>3. HeldHere(st[p], cwd[p], y) = One(s = y) + One(cwd[p] = y)
      BY <1>4
    <3>4. itable'[y].ref = itable[y].ref + One(x = y) /\ itable[y].ref \in Nat
      BY <2>4, <2>7 DEF OneMore
    <3>5. QED BY <3>1, <3>2, <3>3, <3>4 DEF One
  <2>15. /\ Fills(p, {s}) /\ SameFiles /\ inop' \subseteq Proc /\ Sound(disk')
         /\ Keeps(p, {s}, itable', disk')
    BY <1>1, <2>2, <2>4, <2>7, FilesUnchanged DEF Fills, Types
  <2>16. QED BY <1>1, <2>4, <2>9, <2>13, <2>14, <2>15, GoStep
<1>8. QED BY <1>1, <1>6, <1>7

\* create(): the look-up, and ialloc() if the name is new.
LEMMA CreateLookupStep ==
  ASSUME IInv, NEW p \in Proc, CreateLookup(p)
  PROVE  IInv'
<1> DEFINE s == st[p].dp
           d == Inode(s)
           off == Dirlookup(disk, d, Elem(p))
           inum == IF off # -1 THEN Dirent(disk, d, off).inum ELSE FreeInum(disk)
           new == off = -1
           who == IF new THEN p ELSE NoProc
           g == Iget(Loaded(itable, s, d, who), inum)
           x == g.slot
           t == IF new THEN <<>> ELSE Do("iput", s)
           r == [st[p] EXCEPT !.pc = IF new THEN "fill" ELSE "exists", !.ip = x, !.todo = t]
<1>1. /\ st[p].todo = <<>> /\ st[p].pc = "create" /\ Unlocked(s) /\ d.type # "none"
      /\ \/ itable' = Loaded(itable, s, Inode(s), NoProc) /\ Return(p, Do("iput", s) \o EndOp) /\ disk' = disk
         \/ /\ inum # 0 /\ itable' = g.tab /\ Go(p, r) /\ Room(itable, inum)
            /\ disk' = IF new THEN Ialloc(disk, inum, NewType(st[p].call)) ELSE disk
      /\ UNCHANGED <<durable, inop, ftable, ofile, cwd, lost>>
  BY DEF CreateLookup, At, Free, Ilock
<1>2. HoldsDp(st[p]) /\ ~ HoldsIp(st[p])
  BY <1>1 DEF HoldsDp, HoldsIp
<1>3. /\ Reaches(p, s) /\ TypeOf(s) = "dir" /\ st[p] \in Control /\ st[p].path # <<>> /\ CallOK(st[p])
      /\ \A y \in Slot : HeldHere(st[p], cwd[p], y) =
               One(s = y) + One(HoldsIp(st[p]) /\ st[p].ip = y) + One(cwd[p] = y)
  BY <1>1, <1>2, AtDp
<1>4. \A y \in Slot : HeldHere(st[p], cwd[p], y) = One(s = y) + One(cwd[p] = y)
  BY <1>2, <1>3 DEF One
<1>5. itable[s].lock = NoProc
  BY <1>1 DEF Unlocked
<1>6. CASE itable' = Loaded(itable, s, Inode(s), NoProc) /\ Return(p, Do("iput", s) \o EndOp) /\ disk' = disk
  <2> HIDE DEF s
  <2>1. Inode(s).type # "none"
    BY <1>1
  <2>2. QED BY <1>1, <1>3, <1>4, <1>5, <1>6, <2>1, PutBackSame
<1>7. CASE /\ inum # 0 /\ itable' = g.tab /\ Go(p, r) /\ Room(itable, inum)
           /\ disk' = IF new THEN Ialloc(disk, inum, NewType(st[p].call)) ELSE disk
  <2>1. s \in Slot /\ itable[s].inum \in Inum /\ d = disk.inode[itable[s].inum] /\ d.type = "dir"
    BY <1>1, <1>3, <1>5, Reached
  <2>2. Sound(disk) /\ Types /\ Named2
    BY DEF IInv
  <2>3. /\ inum \in Inum
        /\ new => disk.inode[inum].type = "none"
    <3>1. CASE new
      <4>1. inum = FreeInum(disk)
        BY <3>1
      <4>2. QED BY <1>7, <4>1, FreeInumIsFree
    <3>2. CASE ~ new
      BY <3>2, <2>1, <2>2, DirlookupFinds
    <3>3. QED BY <3>1, <3>2
  <2>4. /\ Go(p, r) /\ itable' = g.tab /\ new \in BOOLEAN
        /\ disk' = IF new THEN Ialloc(disk, inum, NewType(st[p].call)) ELSE disk
    BY <1>7
  <2>5. /\ Inode(s).type # "none" /\ Iget(Loaded(itable, s, Inode(s), who), inum) = g
        /\ Room(itable, inum)
    BY <1>1, <1>7
  <2>6. /\ st[p].todo = <<>> /\ itable[s].lock \in {p, NoProc} /\ Reaches(p, s)
        /\ who \in {p, NoProc} /\ (new => who = p)
    BY <1>1, <1>3, <1>5
  <2>7. t = (IF new THEN <<>> ELSE Do("iput", s))
    OBVIOUS
  <2>8. r = [st[p] EXCEPT !.pc = IF new THEN "fill" ELSE "exists", !.ip = x, !.todo = t]
    OBVIOUS
  <2> HIDE DEF r, t, inum, g, d, off, x, s, who, new
  <2>9. /\ Keeps(p, {s}, g.tab, disk) /\ g.slot \in Slot /\ OneMore(g.tab, g.slot)
        /\ LockedBy(g.tab, s, who) /\ UsedFor(g.tab, g.slot, inum)
    <3>1. inum \in Inum
      BY <2>3
    <3>2. st[p].todo = <<>> /\ itable[s].lock \in {p, NoProc} /\ Reaches(p, s) /\ who \in {p, NoProc}
      BY <2>6
    <3>3. QED BY <2>5, <3>1, <3>2, LoadGet
  <2>10. g.tab[g.slot].inum = inum /\ g.tab[g.slot].ref > 0
    BY <2>9 DEF UsedFor
  <2>11. /\ Keeps(p, {s}, g.tab, disk) /\ x \in Slot /\ OneMore(g.tab, x) /\ itable'[x].inum = inum
         /\ itable'[s].lock = who /\ itable'[s].inum = itable[s].inum /\ itable'[x].ref > 0
    BY <2>4, <2>9, <2>10 DEF x, LockedBy
  <2>12. Plain(t, {}) /\ t \in Seq(Items) /\ (new => t = <<>>) /\ (~ new => t = Do("iput", s))
    BY <2>1, <2>7, TodoPut, TodoNone DEF Plain
  <2>13. x \in 0 .. NINODE
    BY <2>11, FileSysAssumption DEF Slot
  <2>14. /\ r \in Control /\ r.ip = x /\ r.todo = t /\ r.dp = s /\ r.call = st[p].call /\ r.path = st[p].path
         /\ r.pc = IF new THEN "fill" ELSE "exists"
    <3>1. t \in Seq(Items) /\ st[p] \in Control
      BY <1>3, <2>12
    <3>2. QED BY <2>8, <2>13, <3>1 DEF Control, Pcs, s
  <2>15. st[p].call.op \in Creates
    BY <1>1, <1>3 DEF CallOK
  <2>16. NewType(st[p].call) \in Kinds /\ NewType(st[p].call) # "none"
    BY DEF NewType, Kinds
  <2>17. SameFiles /\ inop' \subseteq Proc
    BY <1>1, <2>2, FilesUnchanged DEF Types
  <2>18. CallOK(r)
    BY <2>14, <2>15 DEF CallOK
  <2>19. CASE new
    <3>1. /\ r.pc = "fill" /\ r.todo = <<>> /\ who = p
          /\ disk' = Ialloc(disk, inum, NewType(st[p].call)) /\ disk.inode[inum].type = "none"
      BY <2>3, <2>4, <2>6, <2>12, <2>14, <2>19
    <3>2. /\ Sound(disk') /\ disk'.inode[inum].type = NewType(st[p].call)
          /\ \A j \in Inum : j # inum => disk'.inode[j] = disk.inode[j]
      BY <2>2, <2>3, <2>16, <3>1, IallocSound
    <3>3. inum # itable[s].inum
      BY <2>1, <3>1
    <3>4. Keeps(p, {s}, itable', disk')
      <4>1. \A y \in {s} : itable[y].inum # inum
        BY <3>3
      <4>2. Keeps(p, {s}, itable', disk)
        BY <2>4, <2>11
      <4>3. QED BY <2>2, <2>3, <3>1, <3>2, <4>1, <4>2, KeepsAlloc
    <3>5. Fills(p, {s})
      <4>1. st'[p].pc = "fill" /\ st'[p].ip = x
        BY <2>2, <2>4, <2>14, <3>1 DEF Types, Go
      <4>2. \A i \in Inum : disk.inode[i].type = "none" /\ disk'.inode[i].type # "none" => i = inum
        BY <3>2
      <4>3. QED BY <1>1, <2>11, <4>1, <4>2 DEF Fills
    <3>6. ~ HoldsAt(r) /\ HoldsDp(r) /\ HoldsIp(r) /\ PcLocks(r) = {s}
      BY <2>14, <3>1 DEF HoldsAt, HoldsDp, HoldsIp, PcLocks
    <3>7. disk'.inode[itable'[s].inum].type = "dir" /\ disk'.inode[itable'[x].inum].type = NewType(r.call)
      BY <2>1, <2>11, <2>14, <3>2, <3>3
    <3>8. PlaceOK(r, itable', disk', p)
      BY <1>3, <2>1, <2>11, <2>12, <2>14, <2>18, <3>1, <3>6, <3>7 DEF PlaceOK
    <3>9. ASSUME NEW y \in Slot
          PROVE  itable'[y].ref = itable[y].ref - HeldHere(st[p], cwd[p], y)
                                  + (HeldHere(r, cwd[p], y) + Tokened(r.todo, y))
      <4>1. Tokened(r.todo, y) = 0
        BY <3>1, TodoNone
      <4>2. HeldHere(r, cwd[p], y) = One(s = y) + One(x = y) + One(cwd[p] = y)
        BY <2>14, <3>6 DEF HeldHere, One
      <4>3. HeldHere(st[p], cwd[p], y) = One(s = y) + One(cwd[p] = y)
        BY <1>4 DEF s
      <4>4. itable'[y].ref = itable[y].ref + One(x = y) /\ itable[y].ref \in Nat
        BY <2>4, <2>11 DEF OneMore
      <4>5. QED BY <4>1, <4>2, <4>3, <4>4 DEF One
    <3>10. QED BY <1>1, <2>4, <2>17, <3>1, <3>2, <3>4, <3>5, <3>8, <3>9, GoStep
  <2>20. CASE ~ new
    <3>1. /\ r.pc = "exists" /\ r.todo = Do("iput", s) /\ disk' = disk
      BY <2>4, <2>12, <2>14, <2>20
    <3>2. Keeps(p, {s}, itable', disk') /\ Fills(p, {s}) /\ Sound(disk')
      BY <1>1, <2>2, <2>4, <2>11, <3>1 DEF Fills
    <3>3. ~ HoldsAt(r) /\ ~ HoldsDp(r) /\ HoldsIp(r) /\ PcLocks(r) = {}
      BY <3>1 DEF HoldsAt, HoldsDp, HoldsIp, PcLocks
    <3>4. PlaceOK(r, itable', disk', p)
      BY <2>11, <2>12, <2>14, <2>18, <3>1, <3>3 DEF PlaceOK
    <3>5. ASSUME NEW y \in Slot
          PROVE  itable'[y].ref = itable[y].ref - HeldHere(st[p], cwd[p], y)
                                  + (HeldHere(r, cwd[p], y) + Tokened(r.todo, y))
      <4>1. Tokened(r.todo, y) = One(s = y)
        BY <2>1, <3>1, TodoPut
      <4>2. HeldHere(r, cwd[p], y) = One(x = y) + One(cwd[p] = y)
        BY <2>14, <3>3 DEF HeldHere, One
      <4>3. HeldHere(st[p], cwd[p], y) = One(s = y) + One(cwd[p] = y)
        BY <1>4 DEF s
      <4>4. itable'[y].ref = itable[y].ref + One(x = y) /\ itable[y].ref \in Nat
        BY <2>4, <2>11 DEF OneMore
      <4>5. QED BY <4>1, <4>2, <4>3, <4>4 DEF One
    <3>6. QED BY <1>1, <2>4, <2>17, <3>1, <3>2, <3>4, <3>5, GoStep
  <2>21. QED BY <2>19, <2>20
<1>8. QED BY <1>1, <1>6, <1>7

\* The inode and the directory of a process that has locked the directory.
LEMMA TwoLocks ==
  ASSUME IInv, NEW p \in Proc, st[p].todo = <<>>, st[p].pc \in {"fill", "unlinkip"},
         NEW s, st[p].ip = s, NEW dp, st[p].dp = dp, Unlocked(s), Inode(s).type # "none"
  PROVE  /\ s \in Slot /\ dp \in Slot /\ s # dp
         /\ itable[s].ref > 0 /\ itable[dp].ref > 0
         /\ itable[s].inum \in Inum /\ itable[dp].inum \in Inum /\ itable[s].inum # itable[dp].inum
         /\ itable[s].lock = NoProc /\ itable[dp].lock = p
         /\ disk.inode[itable[s].inum] = Inode(s) /\ Inode(s) \in Dinodes
         /\ disk.inode[itable[dp].inum] = Inode(dp) /\ Inode(dp) \in Dinodes /\ Inode(dp).type = "dir"
         /\ Elem(p) \in Names /\ st[p] \in Control
         /\ \A x \in Slot : HeldHere(st[p], cwd[p], x) = One(s = x) + One(dp = x) + One(cwd[p] = x)
<1>1. HoldsDp(st[p]) /\ HoldsIp(st[p]) /\ Reaches(p, s)
  BY DEF HoldsDp, HoldsIp, Reaches
<1>2. /\ Reaches(p, dp) /\ TypeOf(dp) = "dir" /\ Elem(p) \in Names /\ st[p] \in Control
      /\ \A x \in Slot : HeldHere(st[p], cwd[p], x) =
               One(dp = x) + One(HoldsIp(st[p]) /\ s = x) + One(cwd[p] = x)
  BY <1>1, AtDp
<1>3. itable[s].lock = NoProc
  BY DEF Unlocked
<1>4. itable[dp].lock = p
  <2>1. dp \in PcLocks(st[p])
    BY DEF PcLocks
  <2>2. QED BY <2>1 DEF IInv, Local, Locked
<1>5. s # dp
  BY <1>3, <1>4, FileSysAssumption
<1>6. /\ s \in Slot /\ itable[s].inum \in Inum /\ disk.inode[itable[s].inum] = Inode(s)
      /\ Inode(s) \in Dinodes /\ itable[s].ref > 0
  BY <1>1, <1>3, Reached
<1>7. /\ dp \in Slot /\ itable[dp].inum \in Inum /\ disk.inode[itable[dp].inum] = Inode(dp)
      /\ Inode(dp) \in Dinodes /\ itable[dp].ref > 0 /\ Inode(dp).type = "dir"
  BY <1>2, <1>4, Reached
<1>8. itable[s].inum # itable[dp].inum
  BY <1>5, <1>6, <1>7 DEF IInv, Named2
<1>9. \A x \in Slot : HeldHere(st[p], cwd[p], x) = One(s = x) + One(dp = x) + One(cwd[p] = x)
  BY <1>1, <1>2 DEF One
<1>10. QED BY <1>2, <1>3, <1>4, <1>5, <1>6, <1>7, <1>8, <1>9

SameRefs(T) == \A x \in Slot : T[x].ref = itable[x].ref /\ itable[x].ref \in Nat

BothLoaded(p, T, E, s, d, w1, dp, dd, w2) ==
    /\ Keeps(p, {s, dp}, T, E)
    /\ LockedBy(T, s, w1) /\ LockedBy(T, dp, w2) /\ SameRefs(T)
    /\ \A j \in Inum : disk.inode[j].type = "none" => E.inode[j].type = "none"

\* Both of them loaded, with what the step makes of them.
LEMMA LoadTwo ==
  ASSUME IInv, NEW p \in Proc, NEW s \in Slot, NEW dp \in Slot, s # dp,
         itable[s].ref > 0, itable[dp].ref > 0, itable[s].inum # itable[dp].inum,
         itable[s].lock \in {p, NoProc}, itable[dp].lock \in {p, NoProc},
         NEW w1 \in {p, NoProc}, NEW w2 \in {p, NoProc},
         NEW d \in Dinodes, NEW dd \in Dinodes, d.type # "none", dd.type # "none",
         disk.inode[itable[s].inum].type = d.type, disk.inode[itable[dp].inum].type = dd.type,
         NEW E, E.inode[itable[s].inum] = d, E.inode[itable[dp].inum] = dd,
         \A j \in Inum : j # itable[s].inum /\ j # itable[dp].inum => E.inode[j] = disk.inode[j],
         NEW T, Loaded(Loaded(itable, s, d, w1), dp, dd, w2) = T
  PROVE  BothLoaded(p, T, E, s, d, w1, dp, dd, w2)
<1>1. Types /\ Named2 /\ itable \in Tables /\ Sound(disk) /\ itable[s].inum \in Inum /\ itable[dp].inum \in Inum
  BY DEF IInv, Types, Tables, Named2
<1>2. disk \in Images
  BY <1>1 DEF Sound
<1> DEFINE D1 == Iupdate(disk, itable[s].inum, d)
           L == Loaded(itable, s, d, w1)
<1>3. /\ D1.inode[itable[s].inum] = d /\ \A j \in Inum : j # itable[s].inum => D1.inode[j] = disk.inode[j]
  BY <1>1, <1>2, Updated
<1>4. LoadedAs(itable, L, s, d, w1)
  BY <1>1, LoadedFacts
<1>5. T = Loaded(L, dp, dd, w2)
  OBVIOUS
<1> HIDE DEF D1
<1>6. Keeps(p, {s}, L, D1)
  BY <1>3, LoadKeeps
<1> HIDE DEF L
<1>7. LoadedAs(L, T, dp, dd, w2)
  <2>1. L \in Tables
    BY <1>4 DEF LoadedAs
  <2>2. QED BY <1>5, <2>1, LoadedFacts
<1>8. Keeps(p, {s} \cup {dp}, T, E)
  <2>1. \A j \in Inum : j # itable[dp].inum => E.inode[j] = D1.inode[j]
    BY <1>1, <1>3
  <2>2. disk.inode[itable[dp].inum].type \in {"none", dd.type}
    OBVIOUS
  <2>3. Keeps(p, {s} \cup {dp}, Loaded(L, dp, dd, w2), E)
    <3>1. Types /\ Named2
      BY <1>1
    <3>2. itable[dp].ref > 0 /\ itable[dp].lock \in {p, NoProc} /\ E.inode[itable[dp].inum] = dd
      OBVIOUS
    <3> HIDE DEF L, D1
    <3>3. PICK V : V = {s}
      OBVIOUS
    <3>4. PICK D : D = D1
      OBVIOUS
    <3>5. PICK M : M = L
      OBVIOUS
    <3>6. Keeps(p, V, M, D) /\ \A j \in Inum : j # itable[dp].inum => E.inode[j] = D.inode[j]
      BY <1>6, <2>1, <3>3, <3>4, <3>5
    <3>7. Keeps(p, V \cup {dp}, Loaded(M, dp, dd, w2), E)
      BY <3>1, <3>2, <3>6, <2>2, KeepsLoaded, ZenonT(30)
    <3>8. QED BY <3>3, <3>5, <3>7
  <2>4. QED BY <1>5, <2>3
<1>9. {s} \cup {dp} = {s, dp}
  OBVIOUS
<1>10. /\ T[s].lock = w1 /\ T[dp].lock = w2 /\ T[s].inum = itable[s].inum /\ T[dp].inum = itable[dp].inum
       /\ \A x \in Slot : T[x].ref = itable[x].ref
  BY <1>4, <1>7 DEF LoadedAs
<1>11. \A x \in Slot : itable[x].ref \in Nat
  BY <1>1 DEF Tables, Slots
<1>12. \A j \in Inum : disk.inode[j].type = "none" => E.inode[j].type = "none"
  OBVIOUS
<1>13. Keeps(p, {s, dp}, T, E)
  BY <1>8, <1>9
<1>14. LockedBy(T, s, w1) /\ LockedBy(T, dp, w2) /\ SameRefs(T)
  BY <1>10, <1>11 DEF LockedBy, SameRefs
<1>15. QED BY <1>12, <1>13, <1>14 DEF BothLoaded

\* sys_mkdir() and sys_mknod() after create().
LEMMA MadeStep ==
  ASSUME IInv, NEW p \in Proc, Made(p)
  PROVE  IInv'
<1> DEFINE s == st[p].ip
           t == Do("iput", s) \o EndOp
<1>1. /\ st[p].todo = <<>> /\ st[p].pc = "made" /\ itable' = [itable EXCEPT ![s].lock = NoProc]
      /\ Ended(p, "user", t)
      /\ UNCHANGED <<disk, durable, inop, ftable, ofile, cwd, lost>>
  BY DEF Made, At, Free, Return, Ended
<1>2. Types /\ Named2 /\ Sound(disk) /\ Local(p)
  BY DEF IInv
<1>3. s \in Slot /\ itable[s].lock = p
  <2>1. s \in PcLocks(st[p]) /\ HoldsIp(st[p])
    BY <1>1 DEF PcLocks, HoldsIp
  <2>2. QED BY <1>2, <2>1 DEF Local, Locked, Holding
<1>4. \A x \in Slot : HeldHere(st[p], cwd[p], x) = One(s = x) + One(cwd[p] = x)
  BY <1>1 DEF HeldHere, HoldsAt, HoldsDp, HoldsIp, One
<1> HIDE DEF s
<1>5. Plain(t, {}) /\ \A x : Tokened(t, x) = One(s = x)
  BY <1>3, TodoPutEnd
<1> HIDE DEF t
<1>6. Keeps(p, {}, itable', disk')
  BY <1>1, <1>2, <1>3, KeepsUnlock
<1>7. \A x \in Slot : itable'[x].ref = itable[x].ref /\ itable[x].ref \in Nat
  BY <1>1, <1>2, <1>3 DEF Types, Slots
<1>8. cwd' \in [Proc -> 0 .. NINODE] /\ cwd'[p] \in Slot /\ inop' \subseteq Proc /\ SameFiles /\ Sound(disk')
  BY <1>1, <1>2, CwdReached, FilesUnchanged DEF Types
<1>9. ASSUME NEW x \in Slot
      PROVE  itable'[x].ref = itable[x].ref - Held(p, x) + (One(cwd'[p] = x) + Tokened(t, x))
  <2>1. Held(p, x) = HeldHere(st[p], cwd[p], x)
    BY <1>1, <1>2, HeldNow
  <2>2. HeldHere(st[p], cwd[p], x) = One(s = x) + One(cwd[p] = x)
    BY <1>4
  <2>3. Tokened(t, x) = One(s = x)
    BY <1>5
  <2>4. QED BY <1>1, <1>7, <2>1, <2>2, <2>3 DEF One
<1>10. \E W : W = {}
  OBVIOUS
<1>11. PICK none : none = {}
  BY <1>10
<1>12. /\ Ended(p, "user", t) /\ durable' = durable /\ lost' = lost /\ st[p].todo = <<>>
       /\ \A i \in Inum : disk.inode[i].type = "none" => disk'.inode[i].type = "none"
       /\ \A q \in Proc : q # p => cwd'[q] = cwd[q]
       /\ st[p].pc = "fill" => st[p].ip \in none
  BY <1>1
<1>13. Keeps(p, none, itable', disk') /\ Plain(t, none) /\ \A x \in none : itable'[x].lock = p
  BY <1>5, <1>6, <1>11
<1>14. QED BY <1>8, <1>9, <1>12, <1>13, ReturnStep

\* sys_unlink() of a directory that is not empty.
LEMMA UnlinkFullStep ==
  ASSUME IInv, NEW p \in Proc, UnlinkFull(p)
  PROVE  IInv'
<1> DEFINE s == st[p].ip
           dp == st[p].dp
           t == Do("iput", s) \o Do("iunlock", dp) \o Do("iput", dp) \o EndOp
<1>1. /\ st[p].todo = <<>> /\ st[p].pc = "unlinkip" /\ Unlocked(s) /\ Inode(s).type # "none"
      /\ itable' = Loaded(itable, s, Inode(s), NoProc) /\ Ended(p, "user", t)
      /\ UNCHANGED <<disk, durable, inop, ftable, ofile, cwd, lost>>
  BY DEF UnlinkFull, UnlinkRefused, At, Free, Ilock, Return, Ended
<1>2. Types /\ Sound(disk) /\ itable \in Tables
  BY DEF IInv, Types, Tables
<1>3. /\ s \in Slot /\ dp \in Slot /\ s # dp /\ itable[s].ref > 0
      /\ itable[s].lock = NoProc /\ itable[dp].lock = p
      /\ disk.inode[itable[s].inum] = Inode(s) /\ Inode(s) \in Dinodes
      /\ \A x \in Slot : HeldHere(st[p], cwd[p], x) = One(s = x) + One(dp = x) + One(cwd[p] = x)
  BY <1>1, TwoLocks
<1> HIDE DEF s, dp
<1>4. Plain(t, {dp}) /\ \A x : Tokened(t, x) = One(s = x) + One(dp = x)
  BY <1>3, TodoPutUnlock
<1> HIDE DEF t
<1>5. Keeps(p, {s}, itable', disk')
  BY <1>1, <1>3, LoadKeeps
<1>6. itable'[dp].lock = p
  <2>1. LoadedAs(itable, itable', s, Inode(s), NoProc)
    BY <1>1, <1>2, <1>3, LoadedFacts
  <2>2. QED BY <1>3, <2>1 DEF LoadedAs
<1>7. \A x \in Slot : itable'[x].ref = itable[x].ref /\ itable[x].ref \in Nat
  BY <1>1, <1>3, LoadCounts
<1>8. cwd' \in [Proc -> 0 .. NINODE] /\ cwd'[p] \in Slot /\ inop' \subseteq Proc /\ SameFiles /\ Sound(disk')
  BY <1>1, <1>2, CwdReached, FilesUnchanged DEF Types
<1>9. ASSUME NEW x \in Slot
      PROVE  itable'[x].ref = itable[x].ref - Held(p, x) + (One(cwd'[p] = x) + Tokened(t, x))
  <2>1. Held(p, x) = HeldHere(st[p], cwd[p], x)
    BY <1>1, <1>2, HeldNow
  <2>2. HeldHere(st[p], cwd[p], x) = One(s = x) + One(dp = x) + One(cwd[p] = x)
    BY <1>3
  <2>3. Tokened(t, x) = One(s = x) + One(dp = x)
    BY <1>4
  <2>4. QED BY <1>1, <1>7, <2>1, <2>2, <2>3 DEF One
<1>10. QED BY <1>1, <1>4, <1>5, <1>6, <1>8, <1>9, ReturnStep

\* sys_chdir().
LEMMA ChdirStep ==
  ASSUME IInv, NEW p \in Proc, Chdir(p)
  PROVE  IInv'
<1> DEFINE s == st[p].ip
           isdir == Inode(s).type = "dir"
           y == IF isdir THEN cwd[p] ELSE s
           z == IF isdir THEN s ELSE cwd[p]
           t == Do("iput", y) \o EndOp
<1>1. Types /\ Sound(disk)
  BY DEF IInv
<1>2. /\ st[p].todo = <<>> /\ st[p].pc = "chdir" /\ Unlocked(s) /\ Inode(s).type # "none"
      /\ itable' = Loaded(itable, s, Inode(s), NoProc) /\ Ended(p, "user", t)
      /\ UNCHANGED <<disk, durable, inop, ftable, ofile, lost>>
      /\ cwd' = IF isdir THEN [cwd EXCEPT ![p] = s] ELSE cwd
  BY DEF Chdir, At, Free, Ilock, Return, Ended
<1>3. Reaches(p, s) /\ itable[s].lock = NoProc
  BY <1>2 DEF Reaches, HoldsIp, Unlocked
<1>4. \A x \in Slot : HeldHere(st[p], cwd[p], x) = One(s = x) + One(cwd[p] = x)
  BY <1>2 DEF HeldHere, HoldsAt, HoldsDp, HoldsIp, One
<1>5. cwd[p] \in Slot
  BY <1>2, CwdReached
<1> HIDE DEF s
<1>6. /\ s \in Slot /\ itable[s].inum \in Inum /\ disk.inode[itable[s].inum] = Inode(s)
      /\ Inode(s) \in Dinodes /\ itable[s].ref > 0
  BY <1>2, <1>3, Reached
<1>7. /\ cwd' \in [Proc -> 0 .. NINODE] /\ cwd'[p] = z /\ z \in Slot /\ y \in Slot
      /\ \A q \in Proc : q # p => cwd'[q] = cwd[q]
  <2>1. s \in 0 .. NINODE
    BY <1>6, FileSysAssumption DEF Slot
  <2>2. QED BY <1>1, <1>2, <1>5, <1>6, <2>1 DEF Types
<1>8. \A x : One(y = x) + One(z = x) = One(s = x) + One(cwd[p] = x)
  BY DEF One
<1> HIDE DEF y, z, isdir
<1>9. Plain(t, {}) /\ \A x : Tokened(t, x) = One(y = x)
  BY <1>7, TodoPutEnd
<1> HIDE DEF t
<1>10. Keeps(p, {s}, itable', disk')
  BY <1>2, <1>3, <1>6, LoadKeeps
<1>11. \A x \in Slot : itable'[x].ref = itable[x].ref /\ itable[x].ref \in Nat
  BY <1>2, <1>6, LoadCounts
<1>12. inop' \subseteq Proc /\ SameFiles /\ Sound(disk')
  BY <1>1, <1>2, FilesUnchanged DEF Types
<1>13. ASSUME NEW x \in Slot
       PROVE  itable'[x].ref = itable[x].ref - Held(p, x) + (One(cwd'[p] = x) + Tokened(t, x))
  <2>1. Held(p, x) = HeldHere(st[p], cwd[p], x)
    BY <1>1, <1>2, HeldNow
  <2>2. HeldHere(st[p], cwd[p], x) = One(s = x) + One(cwd[p] = x)
    BY <1>4
  <2>3. Tokened(t, x) = One(y = x)
    BY <1>9
  <2>4. One(y = x) + One(z = x) = One(s = x) + One(cwd[p] = x)
    BY <1>8
  <2>5. cwd'[p] = z
    BY <1>7
  <2>6. QED BY <1>11, <2>1, <2>2, <2>3, <2>4, <2>5 DEF One
<1>14. QED BY <1>2, <1>7, <1>9, <1>10, <1>12, <1>13, ReturnStep

\* A step after which the inode is locked and the directory is put back.
After(D, x) == D.inode[itable[x].inum]

\* A step with two inodes locked, one of which stays so.
LEMMA GoTwo ==
  ASSUME IInv, NEW p \in Proc, st[p].todo = <<>>, st[p].pc \in {"fill", "unlinkip"},
         Unlocked(st[p].ip), Inode(st[p].ip).type # "none", Sound(disk'),
         After(disk', st[p].ip) \in Dinodes, After(disk', st[p].dp) \in Dinodes,
         After(disk', st[p].ip).type = Inode(st[p].ip).type, After(disk', st[p].dp).type = "dir",
         \A j \in Inum : j # itable[st[p].ip].inum /\ j # itable[st[p].dp].inum => disk'.inode[j] = disk.inode[j],
         Loaded(Loaded(itable, st[p].ip, After(disk', st[p].ip), p), st[p].dp, After(disk', st[p].dp), NoProc) = itable',
         Go(p, [st[p] EXCEPT !.pc = IF st[p].pc = "fill" THEN "made" ELSE "unlinked",
                             !.todo = Do("iput", st[p].dp)]),
         UNCHANGED <<durable, inop, ftable, ofile, cwd, lost>>
  PROVE  IInv'
<1> DEFINE s == st[p].ip
           dp == st[p].dp
           d == After(disk', s)
           dd == After(disk', dp)
           pc == IF st[p].pc = "fill" THEN "made" ELSE "unlinked"
           t == Do("iput", dp)
           r == [st[p] EXCEPT !.pc = pc, !.todo = t]
<1>0. /\ st[p].ip = s /\ st[p].dp = dp /\ Unlocked(s) /\ Inode(s).type # "none"
      /\ d \in Dinodes /\ dd \in Dinodes /\ d.type = Inode(s).type /\ dd.type = "dir"
      /\ disk'.inode[itable[s].inum] = d /\ disk'.inode[itable[dp].inum] = dd
      /\ \A j \in Inum : j # itable[s].inum /\ j # itable[dp].inum => disk'.inode[j] = disk.inode[j]
      /\ Loaded(Loaded(itable, s, d, p), dp, dd, NoProc) = itable'
  BY DEF After
<1>4. Go(p, r) /\ r = [st[p] EXCEPT !.pc = pc, !.todo = t]
  OBVIOUS
<1>5. pc \in {"made", "unlinked"} /\ (pc = "made" => st[p].pc = "fill")
  OBVIOUS
<1> HIDE DEF d, dd, pc, r, s, dp
<1>1. /\ s \in Slot /\ dp \in Slot /\ s # dp
      /\ itable[s].ref > 0 /\ itable[dp].ref > 0
      /\ itable[s].inum \in Inum /\ itable[dp].inum \in Inum /\ itable[s].inum # itable[dp].inum
      /\ itable[s].lock = NoProc /\ itable[dp].lock = p
      /\ disk.inode[itable[s].inum] = Inode(s) /\ disk.inode[itable[dp].inum] = Inode(dp) /\ Inode(dp).type = "dir"
      /\ st[p] \in Control
      /\ \A x \in Slot : HeldHere(st[p], cwd[p], x) = One(s = x) + One(dp = x) + One(cwd[p] = x)
  BY <1>0, TwoLocks
<1>2. /\ Keeps(p, {s, dp}, itable', disk')
      /\ itable'[s].lock = p /\ itable'[s].inum = itable[s].inum
      /\ \A x \in Slot : itable'[x].ref = itable[x].ref /\ itable[x].ref \in Nat
      /\ \A j \in Inum : disk.inode[j].type = "none" => disk'.inode[j].type = "none"
  <2>1. /\ itable[s].lock \in {p, NoProc} /\ itable[dp].lock \in {p, NoProc} /\ p \in {p, NoProc}
        /\ NoProc \in {p, NoProc} /\ d.type # "none" /\ dd.type # "none"
        /\ disk.inode[itable[s].inum].type = d.type /\ disk.inode[itable[dp].inum].type = dd.type
    BY <1>0, <1>1
  <2>5. BothLoaded(p, itable', disk', s, d, p, dp, dd, NoProc)
    BY <1>0, <1>1, <2>1, LoadTwo
  <2>6. QED BY <2>5 DEF BothLoaded, LockedBy, SameRefs
<1>3. Plain(t, {}) /\ t \in Seq(Items) /\ \A x : Tokened(t, x) = One(dp = x)
  BY <1>1, TodoPut DEF Plain
<1> HIDE DEF t
<1>6. /\ r \in Control /\ r.pc = pc /\ r.todo = t /\ r.ip = s /\ r.call = st[p].call
  BY <1>0, <1>1, <1>3, <1>4, <1>5 DEF Control, Pcs
<1>7. ~ HoldsAt(r) /\ ~ HoldsDp(r) /\ HoldsIp(r) /\ PcLocks(r) = {s}
  BY <1>5, <1>6 DEF HoldsAt, HoldsDp, HoldsIp, PcLocks
<1>8. Types /\ Local(p)
  BY DEF IInv
<1>9. /\ CallOK(r)
      /\ r.pc = "made" => d.type = NewType(r.call)
  <2>1. CASE st[p].pc = "fill"
    <3>1. TypeOf(s) = NewType(st[p].call) /\ st[p].call.op \in Creates
      BY <1>0, <1>8, <2>1 DEF Local, Holding, CallOK
    <3>2. TypeOf(s) = d.type
      BY <1>0, <1>1 DEF TypeOf
    <3>3. QED BY <1>5, <1>6, <2>1, <3>1, <3>2 DEF CallOK
  <2>2. CASE st[p].pc = "unlinkip"
    BY <1>5, <1>6, <2>2 DEF CallOK
  <2>3. QED BY <2>1, <2>2
<1>10. PlaceOK(r, itable', disk', p)
  <2>1. disk'.inode[itable'[r.ip].inum] = d
    BY <1>0, <1>2, <1>6
  <2>2. d.type # "none"
    BY <1>0
  <2>3. QED BY <1>1, <1>2, <1>3, <1>5, <1>6, <1>7, <1>9, <2>1, <2>2 DEF PlaceOK
<1>11. ASSUME NEW x \in Slot
       PROVE  itable'[x].ref = itable[x].ref - HeldHere(st[p], cwd[p], x)
                               + (HeldHere(r, cwd[p], x) + Tokened(r.todo, x))
  <2>1. Tokened(r.todo, x) = One(dp = x)
    BY <1>3, <1>6
  <2>2. HeldHere(r, cwd[p], x) = One(s = x) + One(cwd[p] = x)
    BY <1>6, <1>7 DEF HeldHere, One
  <2>3. HeldHere(st[p], cwd[p], x) = One(s = x) + One(dp = x) + One(cwd[p] = x)
    BY <1>1
  <2>4. itable'[x].ref = itable[x].ref /\ itable[x].ref \in Nat
    BY <1>2
  <2>5. QED BY <2>1, <2>2, <2>3, <2>4 DEF One
<1>12. Fills(p, {s, dp}) /\ SameFiles /\ inop' \subseteq Proc
  BY <1>0, <1>2, <1>8, FilesUnchanged DEF Fills, Types
<1>13. st[p].pc # "none" /\ r.pc # "none" /\ cwd' = cwd /\ durable' = durable /\ lost' = lost
  BY <1>5, <1>6
<1>14. PICK W : W = {s, dp}
  OBVIOUS
<1>15. Keeps(p, W, itable', disk') /\ Fills(p, W)
  BY <1>2, <1>12, <1>14
<1>16. QED BY <1>4, <1>10, <1>11, <1>12, <1>13, <1>15, GoStep

\* sys_unlink(): the entry is cleared.
LEMMA UnlinkEntryStep ==
  ASSUME IInv, NEW p \in Proc, UnlinkEntry(p)
  PROVE  IInv'
<1> DEFINE s == st[p].ip
           dp == st[p].dp
           i == itable[dp].inum
           isdir == Inode(s).type = "dir"
           n == IF isdir THEN Inode(dp).nlink - 1 ELSE Inode(dp).nlink
           d == [Inode(dp) EXCEPT !.nlink = n]
           w == ClearDirent(disk, i, d, st[p].off)
<1>1. /\ st[p].todo = <<>> /\ st[p].pc = "unlinkip" /\ Unlocked(s) /\ Inode(s).type # "none"
      /\ w.ok /\ disk' = w.disk
      /\ Loaded(Loaded(itable, s, Inode(s), p), dp, w.d, NoProc) = itable'
      /\ Go(p, [st[p] EXCEPT !.pc = IF st[p].pc = "fill" THEN "made" ELSE "unlinked",
                              !.todo = Do("iput", st[p].dp)])
      /\ UNCHANGED <<durable, inop, ftable, ofile, cwd, lost>>
  BY DEF UnlinkEntry, At, Free, Ilock
<1>2. /\ s \in Slot /\ itable[s].inum \in Inum /\ i \in Inum /\ itable[s].inum # i
      /\ disk.inode[itable[s].inum] = Inode(s) /\ Inode(s) \in Dinodes
      /\ disk.inode[i] = Inode(dp) /\ Inode(dp) \in Dinodes /\ Inode(dp).type = "dir"
  BY <1>1, TwoLocks
<1>3. Sound(disk) /\ disk \in Images /\ Local(p)
  BY DEF IInv, Sound
<1>4. st[p].off \in Nat
  BY <1>1, <1>3 DEF Local, CallOK
<1> HIDE DEF isdir
<1>5. n \in Int
  BY <1>2 DEF Dinodes
<1> HIDE DEF n
<1>6. /\ d \in Dinodes /\ d.addrs = Inode(dp).addrs /\ d.size = Inode(dp).size /\ d.type = "dir"
  BY <1>2, <1>5, WithNlink
<1>7. st[p].ip = s /\ st[p].dp = dp
  OBVIOUS
<1>8. w = Writei(disk, i, d, st[p].off, [k \in {0} |-> Word(0, "")])
  BY DEF ClearDirent, ZeroWord
<1> HIDE DEF d, s, dp, w
<1>9. Sound(Iupdate(disk, i, d))
  BY <1>2, <1>3, <1>6, NlinkSound
<1>10. Wrote(disk, i, d, w)
  <2>1. 0 \in 0 .. NINODES /\ "" \in Names
    BY Sizes DEF Names
  <2>2. Writei(disk, i, d, st[p].off, [k \in {0} |-> Word(0, "")]).ok
    BY <1>1, <1>8
  <2>3. d.type # "none"
    BY <1>6
  <2> HIDE DEF i
  <2>4. Wrote(disk, i, d, Writei(disk, i, d, st[p].off, [k \in {0} |-> Word(0, "")]))
    BY <1>2, <1>3, <1>4, <1>6, <1>9, <2>1, <2>2, <2>3, EntrySound
  <2>5. QED BY <1>8, <2>4
<1>11. /\ Sound(disk') /\ w.d \in Dinodes /\ w.d.type = "dir" /\ disk'.inode[i] = w.d
       /\ \A j \in Inum : j # i => disk'.inode[j] = disk.inode[j]
  BY <1>1, <1>6, <1>10 DEF Wrote, SameKind
<1>12. After(disk', s) = Inode(s) /\ After(disk', dp) = w.d
  BY <1>2, <1>11 DEF After
<1>13. /\ Loaded(Loaded(itable, st[p].ip, After(disk', st[p].ip), p), st[p].dp, After(disk', st[p].dp), NoProc) = itable'
       /\ After(disk', st[p].ip) \in Dinodes /\ After(disk', st[p].dp) \in Dinodes
       /\ After(disk', st[p].ip).type = Inode(st[p].ip).type /\ After(disk', st[p].dp).type = "dir"
       /\ Unlocked(st[p].ip) /\ Inode(st[p].ip).type # "none" /\ st[p].pc \in {"fill", "unlinkip"}
       /\ \A j \in Inum : j # itable[st[p].ip].inum /\ j # itable[st[p].dp].inum => disk'.inode[j] = disk.inode[j]
  BY <1>1, <1>2, <1>7, <1>11, <1>12
<1>14. QED BY <1>1, <1>11, <1>13, GoTwo

PutsBoth(t, x, y) == \A s : Tokened(t, s) = One(x = s) + One(y = s)

\* What create() leaves to do when it fails.
LEMMA PutBoth ==
  ASSUME NEW x \in Slot, NEW y \in Slot
  PROVE  /\ Plain(Do("iput", x) \o Do("iunlock", y) \o Do("iput", y) \o EndOp, {y})
         /\ PutsBoth(Do("iput", x) \o Do("iunlock", y) \o Do("iput", y) \o EndOp, x, y)
  BY TodoPutUnlock DEF PutsBoth

\* The end of create(), of what it has written.
LEMMA FilledStep ==
  ASSUME IInv, NEW p \in Proc, st[p].todo = <<>>, st[p].pc = "fill",
         Unlocked(st[p].ip), Inode(st[p].ip).type # "none",
         NEW made, NEW named, Sound(named.disk), made.d \in Dinodes, named.d \in Dinodes,
         made.d.type = Inode(st[p].ip).type, named.d.type = "dir",
         After(named.disk, st[p].ip) = made.d, After(named.disk, st[p].dp) = named.d,
         \A j \in Inum : j # itable[st[p].ip].inum /\ j # itable[st[p].dp].inum => named.disk.inode[j] = disk.inode[j],
         Filled(p, made, named),
         UNCHANGED <<durable, inop, ftable, ofile, cwd, lost>>
  PROVE  IInv'
<1> DEFINE s == st[p].ip
           dp == st[p].dp
           isdir == NewType(st[p].call) = "dir"
           n == IF isdir THEN named.d.nlink + 1 ELSE named.d.nlink
           dd == [named.d EXCEPT !.nlink = n]
           undone == [made.d EXCEPT !.nlink = 0]
           i == itable[dp].inum
           inum == itable[s].inum
           t == Do("iput", s) \o Do("iunlock", dp) \o Do("iput", dp) \o EndOp
<1>1. /\ st[p].ip = s /\ st[p].dp = dp /\ Unlocked(s) /\ Inode(s).type # "none"
      /\ named.disk.inode[inum] = made.d /\ named.disk.inode[i] = named.d
      /\ made.d.type = Inode(s).type
      /\ \A j \in Inum : j # inum /\ j # i => named.disk.inode[j] = disk.inode[j]
  BY DEF After
<1>2. \/ /\ named.ok /\ disk' = Iupdate(named.disk, i, dd)
         /\ itable' = Loaded(Loaded(itable, s, made.d, p), dp, dd, NoProc)
         /\ Go(p, [st[p] EXCEPT !.pc = "made", !.todo = Do("iput", dp)])
      \/ /\ disk' = Iupdate(named.disk, inum, undone)
         /\ itable' = Loaded(Loaded(itable, s, undone, NoProc), dp, named.d, p)
         /\ Ended(p, "user", t)
  BY DEF Filled, Return, Ended
<1>3. /\ dp = st[p].dp /\ s = st[p].ip
  OBVIOUS
<1> HIDE DEF s, dp
<1>4. /\ s \in Slot /\ dp \in Slot /\ s # dp
      /\ itable[s].ref > 0 /\ itable[dp].ref > 0
      /\ inum \in Inum /\ i \in Inum /\ inum # i
      /\ itable[s].lock = NoProc /\ itable[dp].lock = p
      /\ disk.inode[inum] = Inode(s) /\ disk.inode[i] = Inode(dp) /\ Inode(dp).type = "dir"
      /\ \A x \in Slot : HeldHere(st[p], cwd[p], x) = One(s = x) + One(dp = x) + One(cwd[p] = x)
  BY <1>1, TwoLocks
<1>5. named.disk \in Images /\ Types
  BY DEF Sound, IInv
<1>6. CASE /\ named.ok /\ disk' = Iupdate(named.disk, i, dd)
           /\ itable' = Loaded(Loaded(itable, s, made.d, p), dp, dd, NoProc)
           /\ Go(p, [st[p] EXCEPT !.pc = "made", !.todo = Do("iput", dp)])
  <2> HIDE DEF isdir
  <2>1. n \in Int
    BY DEF Dinodes
  <2> HIDE DEF n
  <2>2. dd \in Dinodes /\ dd.addrs = named.d.addrs /\ dd.size = named.d.size /\ dd.type = "dir"
    BY <2>1, WithNlink
  <2>3. dd.type = named.disk.inode[i].type /\ dd.addrs = named.disk.inode[i].addrs
        /\ dd.size = named.disk.inode[i].size
    BY <1>1, <2>2
  <2> HIDE DEF dd
  <2>4. /\ Sound(disk') /\ disk'.inode[i] = dd
        /\ \A j \in Inum : j # i => disk'.inode[j] = named.disk.inode[j]
    <3>1. disk' = Iupdate(named.disk, i, dd) /\ i \in Inum
      BY <1>4, <1>6
    <3> HIDE DEF i
    <3>2. QED BY <2>2, <2>3, <3>1, NlinkSound
  <2>5. After(disk', s) = made.d /\ After(disk', dp) = dd
    BY <1>1, <1>4, <2>4 DEF After
  <2>6. /\ Loaded(Loaded(itable, st[p].ip, After(disk', st[p].ip), p), st[p].dp, After(disk', st[p].dp), NoProc) = itable'
        /\ After(disk', st[p].ip) \in Dinodes /\ After(disk', st[p].dp) \in Dinodes
        /\ After(disk', st[p].ip).type = Inode(st[p].ip).type /\ After(disk', st[p].dp).type = "dir"
        /\ st[p].pc \in {"fill", "unlinkip"}
        /\ \A j \in Inum : j # itable[st[p].ip].inum /\ j # itable[st[p].dp].inum => disk'.inode[j] = disk.inode[j]
    BY <1>1, <1>3, <1>4, <1>6, <2>2, <2>4, <2>5
  <2>7. Go(p, [st[p] EXCEPT !.pc = IF st[p].pc = "fill" THEN "made" ELSE "unlinked",
                            !.todo = Do("iput", st[p].dp)])
    BY <1>3, <1>6
  <2>8. QED BY <2>4, <2>6, <2>7, GoTwo
<1>7. CASE /\ disk' = Iupdate(named.disk, inum, undone)
           /\ itable' = Loaded(Loaded(itable, s, undone, NoProc), dp, named.d, p)
           /\ Ended(p, "user", t)
  <2>1. undone \in Dinodes /\ undone.addrs = made.d.addrs /\ undone.size = made.d.size
        /\ undone.type = made.d.type
    <3>1. 0 \in Int
      OBVIOUS
    <3>2. QED BY <3>1, WithNlink
  <2>2. undone.type = named.disk.inode[inum].type /\ undone.addrs = named.disk.inode[inum].addrs
        /\ undone.size = named.disk.inode[inum].size
    BY <1>1, <2>1
  <2> HIDE DEF undone
  <2>3. /\ Sound(disk') /\ disk'.inode[inum] = undone
        /\ \A j \in Inum : j # inum => disk'.inode[j] = named.disk.inode[j]
    <3>1. disk' = Iupdate(named.disk, inum, undone) /\ inum \in Inum
      BY <1>4, <1>7
    <3> HIDE DEF inum
    <3>2. QED BY <2>1, <2>2, <3>1, NlinkSound
  <2>4. BothLoaded(p, itable', disk', s, undone, NoProc, dp, named.d, p)
    <3>1. /\ disk'.inode[itable[s].inum] = undone /\ disk'.inode[itable[dp].inum] = named.d
          /\ \A j \in Inum : j # itable[s].inum /\ j # itable[dp].inum => disk'.inode[j] = disk.inode[j]
      BY <1>1, <1>4, <2>3
    <3>2. /\ itable[s].lock \in {p, NoProc} /\ itable[dp].lock \in {p, NoProc} /\ p \in {p, NoProc}
          /\ NoProc \in {p, NoProc} /\ undone.type # "none" /\ named.d.type # "none"
          /\ disk.inode[itable[s].inum].type = undone.type /\ disk.inode[itable[dp].inum].type = named.d.type
      BY <1>1, <1>4, <2>1
    <3>3. /\ s \in Slot /\ dp \in Slot /\ s # dp /\ itable[s].ref > 0 /\ itable[dp].ref > 0
          /\ itable[s].inum # itable[dp].inum
      BY <1>4
    <3>4. Loaded(Loaded(itable, s, undone, NoProc), dp, named.d, p) = itable'
      BY <1>7
    <3>5. QED BY <2>1, <3>1, <3>2, <3>3, <3>4, LoadTwo
  <2>5. /\ Keeps(p, {s, dp}, itable', disk') /\ itable'[dp].lock = p
        /\ \A x \in Slot : itable'[x].ref = itable[x].ref /\ itable[x].ref \in Nat
        /\ \A j \in Inum : disk.inode[j].type = "none" => disk'.inode[j].type = "none"
    BY <2>4 DEF BothLoaded, LockedBy, SameRefs
  <2>6. Plain(t, {dp}) /\ \A x : Tokened(t, x) = One(s = x) + One(dp = x)
    <3>1. s \in Slot /\ dp \in Slot
      BY <1>4
    <3>2. Plain(t, {dp}) /\ PutsBoth(t, s, dp)
      BY <3>1, PutBoth
    <3>3. QED BY <3>2 DEF PutsBoth
  <2>7. cwd' \in [Proc -> 0 .. NINODE] /\ cwd'[p] \in Slot /\ inop' \subseteq Proc /\ SameFiles
    BY <1>5, CwdReached, FilesUnchanged DEF Types
  <2> HIDE DEF t
  <2>8. ASSUME NEW x \in Slot
        PROVE  itable'[x].ref = itable[x].ref - Held(p, x) + (One(cwd'[p] = x) + Tokened(t, x))
    <3>1. Held(p, x) = HeldHere(st[p], cwd[p], x)
      BY <1>5, HeldNow
    <3>2. HeldHere(st[p], cwd[p], x) = One(s = x) + One(dp = x) + One(cwd[p] = x)
      BY <1>4
    <3>3. Tokened(t, x) = One(s = x) + One(dp = x)
      BY <2>6
    <3>4. QED BY <2>5, <3>1, <3>2, <3>3 DEF One
  <2>9. PICK W : W = {s, dp}
    OBVIOUS
  <2>10. PICK U : U = {dp}
    OBVIOUS
  <2>11. /\ Keeps(p, W, itable', disk') /\ (st[p].pc = "fill" => st[p].ip \in W)
         /\ Plain(t, U) /\ (\A x \in U : itable'[x].lock = p) /\ Ended(p, "user", t)
         /\ \A q \in Proc : q # p => cwd'[q] = cwd[q]
    BY <1>3, <1>7, <2>5, <2>6, <2>9, <2>10
  <2>12. QED BY <2>3, <2>5, <2>7, <2>8, <2>11, ReturnStep
<1>8. QED BY <1>2, <1>6, <1>7

\* The fields that create() sets.
LEMMA WithMajor ==
  ASSUME NEW d \in Dinodes, NEW m \in Int
  PROVE  /\ [d EXCEPT !.major = m, !.nlink = 1] \in Dinodes
         /\ [d EXCEPT !.major = m, !.nlink = 1].addrs = d.addrs
         /\ [d EXCEPT !.major = m, !.nlink = 1].size = d.size
         /\ [d EXCEPT !.major = m, !.nlink = 1].type = d.type
<1> DEFINE e == [d EXCEPT !.major = m]
<1>1. e \in Dinodes /\ e.addrs = d.addrs /\ e.size = d.size /\ e.type = d.type
  BY DEF Dinodes
<1>2. [d EXCEPT !.major = m, !.nlink = 1] = [e EXCEPT !.nlink = 1]
  OBVIOUS
<1> HIDE DEF e
<1>3. 1 \in Int
  OBVIOUS
<1>4. /\ [e EXCEPT !.nlink = 1] \in Dinodes /\ [e EXCEPT !.nlink = 1].addrs = e.addrs
      /\ [e EXCEPT !.nlink = 1].size = e.size /\ [e EXCEPT !.nlink = 1].type = e.type
  BY <1>1, <1>3, WithNlink
<1>5. QED BY <1>1, <1>2, <1>4

\* create(): the new inode and its entry.
LEMMA CreateFillStep ==
  ASSUME IInv, NEW p \in Proc, CreateFill(p)
  PROVE  IInv'
<1> DEFINE s == st[p].ip
           dp == st[p].dp
           i == itable[dp].inum
           inum == itable[s].inum
           c == st[p].call
           m == Major(c)
           d == [Inode(s) EXCEPT !.major = m, !.nlink = 1]
           D1 == Iupdate(disk, inum, d)
<1>1. /\ st[p].todo = <<>> /\ st[p].pc = "fill" /\ Unlocked(s) /\ Inode(s).type # "none"
      /\ UNCHANGED <<durable, inop, ftable, ofile, cwd, lost>>
  BY DEF CreateFill, At, Free, Ilock
<1>2. PICK made : /\ made = IF NewType(c) = "dir" THEN MakeDots(D1, inum, d, i) ELSE Result(disk, inum, d, TRUE)
                  /\ Fill(p, made)
  BY DEF CreateFill
<1>3. PICK named : /\ named = IF made.ok THEN Dirlink(made.disk, i, Inode(dp), Elem(p), inum)
                              ELSE [disk |-> made.disk, d |-> Inode(dp), ok |-> FALSE]
                   /\ Filled(p, made, named)
  BY <1>2 DEF Fill
<1>4. /\ s \in Slot /\ dp \in Slot /\ inum \in Inum /\ i \in Inum /\ inum # i
      /\ disk.inode[inum] = Inode(s) /\ Inode(s) \in Dinodes
      /\ disk.inode[i] = Inode(dp) /\ Inode(dp) \in Dinodes /\ Inode(dp).type = "dir"
      /\ Elem(p) \in Names /\ st[p] \in Control
  BY <1>1, TwoLocks
<1>5. Sound(disk) /\ disk \in Images
  BY DEF IInv, Sound
<1>6. m \in Int
  <2>1. c \in Calls \/ c = NoCall
    BY <1>4 DEF Control
  <2>2. CASE c.op = "mknod"
    BY <2>1, <2>2, CallsAssumption DEF Major, NoCall
  <2>3. CASE c.op # "mknod"
    BY <2>3 DEF Major
  <2>4. QED BY <2>2, <2>3
<1>7. st[p].ip = s /\ st[p].dp = dp
  OBVIOUS
<1> HIDE DEF m, s, dp, c
<1>8. /\ d \in Dinodes /\ d.addrs = Inode(s).addrs /\ d.size = Inode(s).size /\ d.type = Inode(s).type
  BY <1>4, <1>6, WithMajor
<1>9. /\ d \in Dinodes /\ d.addrs = disk.inode[inum].addrs /\ d.size = disk.inode[inum].size
      /\ d.type = disk.inode[inum].type /\ d.type # "none"
  BY <1>1, <1>4, <1>8
<1> HIDE DEF d
<1>10. /\ Sound(D1) /\ D1.inode[inum] = d /\ \A j \in Inum : j # inum => D1.inode[j] = disk.inode[j]
  BY <1>4, <1>5, <1>9, NlinkSound
<1>11. Result(disk, inum, d, TRUE).disk = D1 /\ Result(disk, inum, d, TRUE).d = d
  BY DEF Result
<1> HIDE DEF D1
<1>12. inum \in 0 .. NINODES /\ i \in 0 .. NINODES
  BY <1>4, Sizes DEF Inum
<1> HIDE DEF i, inum
<1>13. Wrote(D1, inum, d, made)
  <2>1. CASE NewType(c) = "dir"
    <3>1. Wrote(D1, inum, d, MakeDots(D1, inum, d, i))
      BY <1>4, <1>9, <1>10, <1>12, MakeDotsSound
    <3>2. QED BY <1>2, <2>1, <3>1
  <2>2. CASE NewType(c) # "dir"
    <3>1. made = Result(disk, inum, d, TRUE)
      BY <1>2, <2>2
    <3>2. made.disk = D1 /\ made.d = d
      BY <1>11, <3>1
    <3>3. QED BY <1>9, <1>10, <3>2 DEF Wrote, SameKind
  <2>3. QED BY <2>1, <2>2
<1>14. /\ Sound(made.disk) /\ made.d \in Dinodes /\ made.d.type = d.type /\ made.disk.inode[inum] = made.d
       /\ \A j \in Inum : j # inum => made.disk.inode[j] = disk.inode[j]
  BY <1>10, <1>13 DEF Wrote, SameKind
<1>15. Wrote(made.disk, i, Inode(dp), named)
  <2>1. CASE made.ok
    <3>1. made.disk.inode[i] = Inode(dp) /\ Inode(dp).type # "none"
      BY <1>4, <1>14
    <3>2. Wrote(made.disk, i, Inode(dp), Dirlink(made.disk, i, Inode(dp), Elem(p), inum))
      BY <1>4, <1>12, <1>14, <3>1, DirlinkSound
    <3>3. QED BY <1>3, <2>1, <3>2
  <2>2. CASE ~ made.ok
    <3>1. named = [disk |-> made.disk, d |-> Inode(dp), ok |-> FALSE]
      BY <1>3, <2>2
    <3>2. named.disk = made.disk /\ named.d = Inode(dp)
      BY <3>1
    <3>3. QED BY <1>4, <1>14, <3>2 DEF Wrote, SameKind
  <2>3. QED BY <2>1, <2>2
<1>16. /\ Sound(named.disk) /\ named.d \in Dinodes /\ named.d.type = "dir" /\ named.disk.inode[i] = named.d
       /\ \A j \in Inum : j # i => named.disk.inode[j] = made.disk.inode[j]
  BY <1>4, <1>15 DEF Wrote, SameKind
<1>17. /\ After(named.disk, st[p].ip) = made.d /\ After(named.disk, st[p].dp) = named.d
       /\ made.d.type = Inode(st[p].ip).type
       /\ \A j \in Inum : j # itable[st[p].ip].inum /\ j # itable[st[p].dp].inum => named.disk.inode[j] = disk.inode[j]
       /\ Unlocked(st[p].ip) /\ Inode(st[p].ip).type # "none"
  BY <1>1, <1>4, <1>7, <1>8, <1>14, <1>16 DEF After, i, inum
<1>18. QED BY <1>1, <1>3, <1>14, <1>16, <1>17, FilledStep

Outside == {"user", "exit", "write", "writemore"}

-----------------------------------------------------------------------------
(* Descriptors and files.                                                  *)
\* A step of a process that refers to nothing but its directory and its files.
LEMMA OutsideStep ==
  ASSUME IInv, NEW p \in Proc, st[p].todo = <<>>, st[p].pc \in Outside,
         NEW W, Keeps(p, W, itable', disk'), Sound(disk'), SameRefs(itable'),
         \A i \in Inum : disk.inode[i].type = "none" => disk'.inode[i].type = "none",
         NEW r \in Control, Go(p, r), r.pc \in Outside, Plain(r.todo, {}), \A s : Tokened(r.todo, s) = 0,
         r.pc \in {"write", "writemore"} =>
           r.fd \in Fd /\ ofile[p][r.fd] # 0 /\ ftable[ofile[p][r.fd]].writable,
         cwd' = cwd, inop' \subseteq Proc, SameFiles, durable' = durable, lost' = lost
  PROVE  IInv'
<1>1. st[p].pc # "none" /\ r.pc # "none" /\ st[p].pc # "fill"
  BY DEF Outside
<1>2. CallOK(r) /\ ~ HoldsAt(r) /\ ~ HoldsDp(r) /\ ~ HoldsIp(r) /\ PcLocks(r) = {}
  BY DEF CallOK, HoldsAt, HoldsDp, HoldsIp, PcLocks, Outside
<1>3. ~ HoldsAt(st[p]) /\ ~ HoldsDp(st[p]) /\ ~ HoldsIp(st[p])
  BY DEF HoldsAt, HoldsDp, HoldsIp, Outside
<1>4. PlaceOK(r, itable', disk', p)
  BY <1>2 DEF PlaceOK, Outside
<1>5. ASSUME NEW s \in Slot
      PROVE  itable'[s].ref = itable[s].ref - HeldHere(st[p], cwd[p], s)
                              + (HeldHere(r, cwd[p], s) + Tokened(r.todo, s))
  <2>1. HeldHere(r, cwd[p], s) = One(cwd[p] = s) /\ HeldHere(st[p], cwd[p], s) = One(cwd[p] = s)
    BY <1>2, <1>3 DEF HeldHere, One
  <2>2. Tokened(r.todo, s) = 0 /\ itable'[s].ref = itable[s].ref /\ itable[s].ref \in Nat
    BY DEF SameRefs
  <2>3. QED BY <2>1, <2>2 DEF One
<1>6. Fills(p, W)
  BY <1>1 DEF Fills
<1>7. QED BY <1>1, <1>4, <1>5, <1>6, GoStep

\* The same, of a step that leaves the inodes and the image alone.
LEMMA OutsideSame ==
  ASSUME IInv, NEW p \in Proc, st[p].todo = <<>>, st[p].pc \in Outside,
         NEW r \in Control, Go(p, r), r.pc \in Outside, r.todo = <<>>,
         r.pc \in {"write", "writemore"} =>
           r.fd \in Fd /\ ofile[p][r.fd] # 0 /\ ftable[ofile[p][r.fd]].writable,
         inop' \subseteq Proc, UNCHANGED <<disk, durable, itable, ftable, ofile, cwd, lost>>
  PROVE  IInv'
<1>1. Types /\ Named2 /\ Sound(disk)
  BY DEF IInv
<1>2. Keeps(p, {}, itable', disk') /\ Sound(disk')
  BY <1>1, KeepsNothing
<1>3. SameRefs(itable') /\ SameFiles
  BY <1>1, FilesUnchanged DEF SameRefs, Types, Slots
<1>4. Plain(r.todo, {}) /\ \A s : Tokened(r.todo, s) = 0
  BY TodoNone DEF Plain
<1>5. PICK W : W = {}
  OBVIOUS
<1>6. Keeps(p, W, itable', disk') /\ cwd' = cwd /\ durable' = durable /\ lost' = lost
      /\ \A i \in Inum : disk.inode[i].type = "none" => disk'.inode[i].type = "none"
  BY <1>2, <1>5
<1>7. QED BY <1>2, <1>3, <1>4, <1>6, OutsideStep

\* exit() begins.
LEMMA ExitStep ==
  ASSUME IInv, NEW p \in Proc, Exit(p)
  PROVE  IInv'
<1> DEFINE r == [st[p] EXCEPT !.pc = "exit"]
<1>1. /\ st[p].todo = <<>> /\ st[p].pc = "user" /\ Go(p, r)
      /\ UNCHANGED <<disk, durable, inop, itable, ftable, ofile, cwd, lost>>
  BY DEF Exit, Makes, At, Free
<1>2. Types /\ st[p] \in Control
  BY DEF IInv, Types
<1>3. r \in Control /\ r.pc = "exit" /\ r.todo = <<>>
  BY <1>1, <1>2 DEF Control, Pcs
<1> HIDE DEF r
<1>4. inop' \subseteq Proc /\ st[p].pc \in Outside /\ r.pc \in Outside /\ r.pc \notin {"write", "writemore"}
  BY <1>1, <1>2, <1>3 DEF Types, Outside
<1>5. QED BY <1>1, <1>3, <1>4, OutsideSame

\* write() begins.
LEMMA WriteStep ==
  ASSUME IInv, NEW p \in Proc, Write(p)
  PROVE  IInv'
<1>1. PICK fd \in OpenFds(p) :
         /\ st[p].todo = <<>> /\ st[p].pc = "user" /\ inop' = inop \cup {p}
         /\ OfFd(p, fd).writable
         /\ Go(p, [st[p] EXCEPT !.pc = "write", !.fd = fd, !.n = WriteBlocks])
         /\ UNCHANGED <<disk, durable, itable, ftable, ofile, cwd, lost>>
  BY DEF Write, Makes, At, Free, BeginOp
<1> DEFINE r == [st[p] EXCEPT !.pc = "write", !.fd = fd, !.n = WriteBlocks]
<1>2. Types /\ st[p] \in Control
  BY DEF IInv, Types
<1>3. fd \in Fd /\ fd \in Int /\ ofile[p][fd] # 0 /\ ftable[ofile[p][fd]].writable
  BY <1>1, FileSysAssumption DEF OpenFds, OfFd, Fd
<1>4. r \in Control /\ r.pc = "write" /\ r.todo = <<>> /\ r.fd = fd /\ Go(p, r)
  <2>1. WriteBlocks \in Int
    BY FileSysAssumption
  <2>2. r \in Control
    BY <1>2, <1>3, <2>1 DEF Control, Pcs
  <2>3. Go(p, r) /\ st[p].todo = <<>>
    BY <1>1
  <2>4. r.pc = "write" /\ r.todo = <<>> /\ r.fd = fd
    BY <1>2, <2>3 DEF Control
  <2>5. QED BY <2>2, <2>3, <2>4
<1> HIDE DEF r
<1>5. inop' \subseteq Proc /\ st[p].pc \in Outside /\ r.pc \in Outside
  BY <1>1, <1>2, <1>4 DEF Types, Outside
<1>6. QED BY <1>1, <1>3, <1>4, <1>5, OutsideSame

\* filewrite(): the next block.
LEMMA WriteMoreStep ==
  ASSUME IInv, NEW p \in Proc, WriteMore(p)
  PROVE  IInv'
<1> DEFINE r == [st[p] EXCEPT !.pc = "write"]
<1>1. /\ st[p].todo = <<>> /\ st[p].pc = "writemore" /\ Go(p, r) /\ inop' = inop \cup {p}
      /\ UNCHANGED <<disk, durable, itable, ftable, ofile, cwd, lost>>
  BY DEF WriteMore, At, Free, BeginOp
<1>2. Types /\ st[p] \in Control /\ Local(p)
  BY DEF IInv, Types
<1>3. r \in Control /\ r.pc = "write" /\ r.todo = <<>> /\ r.fd = st[p].fd
  BY <1>1, <1>2 DEF Control, Pcs
<1> HIDE DEF r
<1>4. inop' \subseteq Proc /\ st[p].pc \in Outside /\ r.pc \in Outside
  BY <1>1, <1>2, <1>3 DEF Types, Outside
<1>5. st[p].fd \in Fd /\ ofile[p][st[p].fd] # 0 /\ ftable[ofile[p][st[p].fd]].writable
  BY <1>1, <1>2 DEF Local, Using
<1>6. QED BY <1>1, <1>3, <1>4, <1>5, OutsideSame

\* Finite sets of descriptors and of files.
LEMMA FewFds ==
  ASSUME NEW S, S \subseteq Fd
  PROVE  IsFiniteSet(S) /\ Cardinality(S) \in Nat
<1>1. IsFiniteSet(Fd)
  <2>1. 0 \in Int /\ NOFILE - 1 \in Int
    BY FileSysAssumption
  <2>2. QED BY <2>1, FS_Interval DEF Fd
<1>2. QED BY <1>1, FS_Subset, FS_CardinalityType

\* The same of files.
LEMMA FewFiles ==
  ASSUME NEW S, S \subseteq File
  PROVE  IsFiniteSet(S) /\ Cardinality(S) \in Nat
<1>1. IsFiniteSet(File)
  <2>1. 1 \in Int /\ NFILE \in Int
    BY FileSysAssumption
  <2>2. QED BY <2>1, FS_Interval DEF File
<1>2. QED BY <1>1, FS_Subset, FS_CardinalityType

\* The descriptors that processes have on a file.
LEMMA FdsFun ==
  ASSUME NEW f
  PROVE  /\ [p \in Proc |-> Cardinality(FdsOf(p, f))] \in [Proc -> Nat]
         /\ \A p \in Proc : IsFiniteSet(FdsOf(p, f)) /\ Cardinality(FdsOf(p, f)) \in Nat
<1>1. \A p \in Proc : FdsOf(p, f) \in SUBSET Fd
  BY DEF FdsOf
<1>2. QED BY <1>1, FewFds

\* Who has a descriptor on a file has a part in its count.
LEMMA FileHeld ==
  ASSUME Types, FilesOK, NEW f \in File
  PROVE  /\ \A p \in Proc : ftable[f].ref >= Cardinality(FdsOf(p, f)) /\ Cardinality(FdsOf(p, f)) \in Nat
         /\ \A p, q \in Proc : p # q => ftable[f].ref >= Cardinality(FdsOf(p, f)) + Cardinality(FdsOf(q, f))
         /\ ftable[f].ref \in Nat
<1> DEFINE h == [p \in Proc |-> Cardinality(FdsOf(p, f))]
<1>1. h \in [Proc -> Nat] /\ \A p \in Proc : h[p] = Cardinality(FdsOf(p, f)) /\ Cardinality(FdsOf(p, f)) \in Nat
  BY FdsFun
<1>2. ftable[f].ref = Total(h) /\ ftable[f].ref \in Nat
  BY DEF FilesOK, Types, Files
<1> HIDE DEF h
<1>3. \A p \in Proc : Total(h) >= h[p]
  BY <1>1, TotalChange
<1>4. \A p, q \in Proc : p # q => Total(h) >= h[p] + h[q]
  BY <1>1, TotalTwo
<1>5. QED BY <1>1, <1>2, <1>3, <1>4

\* A descriptor in use names an open file.
LEMMA FdOpen ==
  ASSUME Types, FilesOK, NEW p \in Proc, NEW fd \in Fd, ofile[p][fd] # 0
  PROVE  /\ ofile[p][fd] \in File /\ ftable[ofile[p][fd]].ref > 0 /\ ftable[ofile[p][fd]] \in Files
         /\ Cardinality(FdsOf(p, ofile[p][fd])) >= 1
<1>1. ofile[p][fd] \in File
  BY DEF Types, File
<1> DEFINE f == ofile[p][fd]
<1>2. fd \in FdsOf(p, f)
  BY DEF FdsOf
<1> HIDE DEF f
<1>3. Cardinality(FdsOf(p, f)) # 0 /\ Cardinality(FdsOf(p, f)) \in Nat
  BY <1>2, FdsFun, FS_EmptySet
<1>4. ftable[f].ref >= Cardinality(FdsOf(p, f)) /\ ftable[f].ref \in Nat /\ ftable[f] \in Files
  BY <1>1, FileHeld DEF f, Types
<1>5. QED BY <1>1, <1>3, <1>4 DEF f

\* The inode of an open file that ilock() has got.
LEMMA FileSlot ==
  ASSUME IInv, NEW p \in Proc, st[p].todo = <<>>, NEW fd \in Fd, ofile[p][fd] # 0,
         NEW s, OfFd(p, fd).ip = s, Ilock(s)
  PROVE  /\ s \in Slot /\ itable[s].ref > 0 /\ itable[s].inum \in Inum /\ itable[s].lock = NoProc
         /\ Inode(s) = disk.inode[itable[s].inum] /\ Inode(s) \in Dinodes /\ Inode(s).type # "none"
         /\ OfFd(p, fd) \in Files
         /\ OfFd(p, fd).writable => Inode(s).type \in {"file", "dev"}
<1>1. Types /\ FilesOK /\ FilesTyped /\ Counted
  BY DEF IInv
<1> DEFINE f == ofile[p][fd]
<1>2. f \in File /\ ftable[f].ref > 0 /\ OfFd(p, fd) \in Files /\ OfFd(p, fd) = ftable[f]
  BY <1>1, FdOpen DEF OfFd
<1> HIDE DEF f
<1>3. s \in Slot /\ (OfFd(p, fd).writable => TypeOf(s) \in {"file", "dev"}) /\ ftable[f].ip = s
  BY <1>1, <1>2 DEF FilesTyped
<1>4. Cardinality(FilesOf(s)) >= 1
  BY <1>1, <1>2, <1>3, FileRefs
<1>5. itable[s].ref > 0
  BY <1>1, <1>3, <1>4, RefsAtLeast
<1>6. itable[s].lock = NoProc /\ Inode(s).type # "none"
  BY DEF Ilock, Unlocked
<1>7. /\ Inode(s) = disk.inode[itable[s].inum] /\ itable[s].inum \in Inum /\ Inode(s) \in Dinodes
  BY <1>3, <1>5, <1>6, InodeIsDisk
<1>8. QED BY <1>2, <1>3, <1>5, <1>6, <1>7 DEF TypeOf

\* The table of files with another offset in file f.
LEMMA NewOffset ==
  ASSUME Types, ofile' = ofile, NEW f \in File, NEW off \in Nat, ftable' = [ftable EXCEPT ![f].off = off]
  PROVE  SameFiles
<1>1. ftable \in [File -> Files]
  BY DEF Types
<1>2. [ftable[f] EXCEPT !.off = off] \in Files
  BY <1>1 DEF Files
<1>3. ftable' \in [File -> Files]
  BY <1>1, <1>2
<1>4. \A g \in File : /\ ftable'[g].ref = ftable[g].ref /\ ftable'[g].ip = ftable[g].ip
                      /\ ftable'[g].writable = ftable[g].writable
  BY <1>1 DEF Files
<1>5. QED BY <1>3, <1>4 DEF SameFiles

\* fileread().
LEMMA ReadStep ==
  ASSUME IInv, NEW p \in Proc, Read(p)
  PROVE  IInv'
<1>1. PICK fd \in OpenFds(p) :
         /\ st[p].todo = <<>> /\ st[p].pc = "user" /\ Ilock(OfFd(p, fd).ip)
         /\ ftable' = [ftable EXCEPT ![ofile[p][fd]].off =
                         IF @ > Inode(OfFd(p, fd).ip).size THEN @
                         ELSE Min({@ + EPB, Inode(OfFd(p, fd).ip).size})]
         /\ itable' = Loaded(itable, OfFd(p, fd).ip, Inode(OfFd(p, fd).ip), NoProc)
         /\ UNCHANGED <<disk, durable, inop, ofile, cwd, st, lost>>
  BY DEF Read, Makes, At, Free
<1> DEFINE s == OfFd(p, fd).ip
           f == ofile[p][fd]
           was == ftable[f].off
           off == IF was > Inode(s).size THEN was ELSE Min({was + EPB, Inode(s).size})
<1>2. Types /\ FilesOK /\ Sound(disk)
  BY DEF IInv
<1>3. fd \in Fd /\ ofile[p][fd] # 0
  BY DEF OpenFds
<1>4. /\ s \in Slot /\ itable[s].ref > 0 /\ itable[s].inum \in Inum /\ itable[s].lock = NoProc
      /\ Inode(s) = disk.inode[itable[s].inum] /\ Inode(s) \in Dinodes /\ Inode(s).type # "none"
  BY <1>1, <1>3, FileSlot
<1>5. f \in File /\ ftable[f] \in Files
  BY <1>2, <1>3, FdOpen
<1>6. ftable' = [ftable EXCEPT ![f].off = off]
  BY <1>1 DEF OfFd
<1>7. itable' = Loaded(itable, s, Inode(s), NoProc)
  BY <1>1
<1> HIDE DEF f, s
<1>8. off \in Nat
  <2>1. was \in Nat /\ Inode(s).size \in Nat /\ EPB \in Nat
    BY <1>4, <1>5, Sizes DEF Files, Dinodes
  <2> HIDE DEF was
  <2>2. {was + EPB, Inode(s).size} \subseteq Nat /\ {was + EPB, Inode(s).size} # {}
    BY <2>1
  <2>3. Min({was + EPB, Inode(s).size}) \in Nat
    BY <2>2, Smallest
  <2>4. QED BY <2>1, <2>3
<1> HIDE DEF off
<1>9. SameFiles
  <2>1. ofile' = ofile
    BY <1>1
  <2>2. QED BY <1>2, <1>5, <1>6, <1>8, <2>1, NewOffset
<1>10. Keeps(p, {s}, itable', disk')
  BY <1>1, <1>4, <1>7, LoadKeeps
<1>11. SameRefs(itable')
  BY <1>4, <1>7, LoadCounts DEF SameRefs
<1>12. Go(p, st[p]) /\ st[p] \in Control
  <2>1. st \in [Proc -> Control] /\ st' = st
    BY <1>1, <1>2 DEF Types
  <2>2. QED BY <2>1 DEF Go
<1>13. Plain(st[p].todo, {}) /\ \A x : Tokened(st[p].todo, x) = 0
  BY <1>1, TodoNone DEF Plain
<1>14. /\ st[p].pc \in Outside /\ inop' \subseteq Proc /\ Sound(disk') /\ cwd' = cwd
       /\ durable' = durable /\ lost' = lost
       /\ \A i \in Inum : disk.inode[i].type = "none" => disk'.inode[i].type = "none"
  BY <1>1, <1>2 DEF Types, Outside
<1>15. st[p].pc \notin {"write", "writemore"} /\ st[p].todo = <<>>
  BY <1>1
<1>16. QED BY <1>9, <1>10, <1>11, <1>12, <1>13, <1>14, <1>15, OutsideStep

\* filewrite(): one block under the lock.
LEMMA WriteBlockStep ==
  ASSUME IInv, NEW p \in Proc, WriteBlock(p)
  PROVE  IInv'
<1> DEFINE fd == st[p].fd
           f == ofile[p][fd]
           s == OfFd(p, fd).ip
           w == Writei(disk, itable[s].inum, Inode(s), OfFd(p, fd).off, Data)
           off == IF w.ok THEN OfFd(p, fd).off + EPB ELSE OfFd(p, fd).off
           n == st[p].n
           r == IF w.ok /\ n > 1 THEN [st[p] EXCEPT !.pc = "writemore", !.n = n - 1, !.todo = EndOp]
                ELSE [Idle("user", st[p].calls) EXCEPT !.todo = EndOp]
<1>1. /\ st[p].todo = <<>> /\ st[p].pc = "write" /\ Ilock(s)
      /\ disk' = w.disk /\ itable' = Loaded(itable, s, w.d, NoProc)
      /\ ftable' = [ftable EXCEPT ![f].off = off]
      /\ Go(p, r)
      /\ UNCHANGED <<durable, inop, ofile, cwd, lost>>
  BY DEF WriteBlock, At, Free, Go, Return, OfFd
<1>2. Types /\ FilesOK /\ Sound(disk) /\ Local(p) /\ st[p] \in Control
  BY DEF IInv, Types
<1>3. fd \in Fd /\ ofile[p][fd] # 0 /\ ftable[ofile[p][fd]].writable
  BY <1>1, <1>2 DEF Local, Using
<1>4. /\ s \in Slot /\ itable[s].ref > 0 /\ itable[s].inum \in Inum /\ itable[s].lock = NoProc
      /\ Inode(s) = disk.inode[itable[s].inum] /\ Inode(s) \in Dinodes
      /\ Inode(s).type \in {"file", "dev"} /\ OfFd(p, fd) \in Files
  <2>1. OfFd(p, fd).writable
    BY <1>3 DEF OfFd
  <2>2. OfFd(p, fd).ip = s /\ Ilock(s) /\ st[p].todo = <<>>
    BY <1>1
  <2> HIDE DEF s, fd
  <2>3. QED BY <1>3, <2>1, <2>2, FileSlot
<1>5. f \in File
  BY <1>2, <1>3, FdOpen
<1>6. OfFd(p, fd).off \in Nat
  BY <1>4 DEF Files
<1> HIDE DEF f, s
<1>7. Wrote(disk, itable[s].inum, Inode(s), w)
  BY <1>2, <1>4, <1>6, DataWriteSound
<1>8. off \in Nat
  BY <1>6, Sizes
<1> HIDE DEF off, w, fd
<1>9. /\ Sound(disk') /\ w.d \in Dinodes /\ w.d.type = Inode(s).type /\ disk'.inode[itable[s].inum] = w.d
      /\ \A j \in Inum : j # itable[s].inum => disk'.inode[j] = disk.inode[j]
  BY <1>1, <1>7 DEF Wrote, SameKind
<1>10. Keeps(p, {s}, itable', disk')
  <2>1. w.d.type # "none" /\ disk.inode[itable[s].inum].type \in {"none", w.d.type}
    BY <1>4, <1>9
  <2>2. QED BY <1>1, <1>4, <1>9, <2>1, LoadKeeps
<1>11. SameRefs(itable')
  BY <1>1, <1>4, <1>9, LoadCounts DEF SameRefs
<1>12. SameFiles
  <2>1. ofile' = ofile /\ ftable' = [ftable EXCEPT ![f].off = off]
    BY <1>1
  <2>2. QED BY <1>2, <1>5, <1>8, <2>1, NewOffset
<1>13. EndOp \in Seq(Items) /\ Plain(EndOp, {}) /\ \A x : Tokened(EndOp, x) = 0
  BY TodoEnd DEF Plain
<1>14. n \in Int /\ n - 1 \in Int
  BY <1>2 DEF Control
<1> HIDE DEF n
<1>15. /\ r \in Control /\ r.pc \in {"writemore", "user"} /\ r.todo = EndOp
       /\ r.pc = "writemore" => r.fd = fd
  <2>1. CASE w.ok /\ n > 1
    <3>1. r = [st[p] EXCEPT !.pc = "writemore", !.n = n - 1, !.todo = EndOp]
      BY <2>1
    <3>2. st[p] \in Control /\ "writemore" \in Pcs /\ n - 1 \in Int /\ EndOp \in Seq(Items)
      BY <1>2, <1>13, <1>14 DEF Pcs
    <3>3. r \in Control
      BY <3>1, <3>2 DEF Control
    <3>4. r.pc = "writemore" /\ r.todo = EndOp /\ r.fd = fd
      BY <3>1, <3>2 DEF Control, fd
    <3>5. QED BY <3>3, <3>4
  <2>2. CASE ~ (w.ok /\ n > 1)
    <3>1. r = [Idle("user", st[p].calls) EXCEPT !.todo = EndOp]
      BY <2>2
    <3>2. st[p].calls \in SUBSET Calls
      BY <1>2 DEF Control
    <3>3. Idle("user", st[p].calls) \in Control
      <4>1. <<>> \in Seq(Items) /\ <<>> \in Seq(STRING) /\ 0 \in 0 .. NINODE /\ [op |-> "none"] \in Calls \cup {NoCall}
        BY FileSysAssumption, EmptySeq DEF NoCall
      <4>2. QED BY <3>2, <4>1 DEF Idle, Control, Pcs
    <3>4. QED BY <1>13, <3>1, <3>3 DEF Control, Idle
  <2>3. QED BY <2>1, <2>2
<1> HIDE DEF r
<1>16. /\ r.pc \in Outside /\ st[p].pc \in Outside /\ Plain(r.todo, {}) /\ \A x : Tokened(r.todo, x) = 0
  BY <1>1, <1>13, <1>15 DEF Outside
<1>17. r.pc \in {"write", "writemore"} => r.fd \in Fd /\ ofile[p][r.fd] # 0 /\ ftable[ofile[p][r.fd]].writable
  BY <1>3, <1>15
<1>18. \A i \in Inum : disk.inode[i].type = "none" => disk'.inode[i].type = "none"
  BY <1>4, <1>9
<1>19. /\ st[p].todo = <<>> /\ inop' \subseteq Proc /\ cwd' = cwd /\ durable' = durable /\ lost' = lost
       /\ Go(p, r)
  BY <1>1, <1>2 DEF Types
<1>20. QED BY <1>9, <1>10, <1>11, <1>12, <1>15, <1>16, <1>17, <1>18, <1>19, OutsideStep

\* exit() gives up the current directory.
LEMMA ExitCwdStep ==
  ASSUME IInv, NEW p \in Proc, ExitCwd(p)
  PROVE  IInv'
<1> DEFINE s == cwd[p]
           t == Do("iput", s) \o EndOp
<1>1. /\ st[p].todo = <<>> /\ st[p].pc = "exit" /\ OpenFds(p) = {} /\ inop' = inop \cup {p}
      /\ cwd' = [cwd EXCEPT ![p] = 0] /\ Ended(p, "none", t)
      /\ UNCHANGED <<disk, durable, itable, ftable, ofile, lost>>
  BY DEF ExitCwd, At, Free, BeginOp, Ended
<1>2. Types /\ Named2 /\ Sound(disk) /\ Local(p)
  BY DEF IInv
<1>3. s \in Slot /\ itable[s].ref > 0
  BY <1>1, CwdReached
<1> HIDE DEF s
<1>4. Plain(t, {}) /\ \A x : Tokened(t, x) = One(s = x)
  BY <1>3, TodoPutEnd
<1>5. t \in Seq(Items) /\ TodoOK(t) /\ SlotsOf(t, Unlocks) = {} /\ SlotsOf(t, {"invalid"}) = {}
  BY <1>4 DEF Plain
<1> HIDE DEF t
<1>6. /\ st' \in [Proc -> Control] /\ st'[p].pc = "none" /\ st'[p].todo = t
      /\ \A q \in Proc : q # p => st'[q] = st[q]
  BY <1>1, <1>2, <1>5, EndedFacts
<1>7. /\ cwd' \in [Proc -> 0 .. NINODE] /\ cwd'[p] = 0 /\ \A q \in Proc : q # p => cwd'[q] = cwd[q]
      /\ 0 \notin Slot
  BY <1>1, <1>2, FileSysAssumption DEF Types, Slot
<1>8. Local(p)'
  <2>1. TodoOK(st'[p].todo) /\ CallOK(st'[p])
    BY <1>5, <1>6 DEF CallOK
  <2>2. Locked(p)'
    BY <1>5, <1>6 DEF Locked, PcLocks
  <2>3. Holding(p)'
    BY <1>6 DEF Holding, HoldsAt, HoldsDp, HoldsIp
  <2>4. Using(p)'
    BY <1>1, <1>6, <1>7 DEF Using, OpenFds
  <2>5. QED BY <2>1, <2>2, <2>3, <2>4 DEF Local
<1>9. ASSUME NEW x \in Slot
      PROVE  itable'[x].ref = itable[x].ref - Held(p, x) + Held(p, x)'
  <2>1. Held(p, x) = One(s = x)
    <3>1. Held(p, x) = HeldHere(st[p], cwd[p], x)
      BY <1>1, <1>2, HeldNow
    <3>2. HeldHere(st[p], cwd[p], x) = One(cwd[p] = x)
      BY <1>1 DEF HeldHere, HoldsAt, HoldsDp, HoldsIp, One
    <3>3. QED BY <3>1, <3>2 DEF s
  <2>2. Held(p, x)' = One(s = x)
    <3>1. HeldBy(st'[p], cwd'[p], x) = One(cwd'[p] = x) + Tokened(st'[p].todo, x)
      BY <1>5, <1>6, HeldOutside
    <3>2. Tokened(st'[p].todo, x) = One(s = x)
      BY <1>4, <1>6
    <3>3. QED BY <1>7, <3>1, <3>2 DEF Held, One
  <2>3. itable'[x].ref = itable[x].ref /\ itable[x].ref \in Nat
    BY <1>1, <1>2 DEF Types, Slots
  <2>4. QED BY <2>1, <2>2, <2>3 DEF One
<1>10. Keeps(p, {}, itable', disk') /\ Sound(disk') /\ SameFiles /\ inop' \subseteq Proc
  BY <1>1, <1>2, KeepsNothing, FilesUnchanged DEF Types
<1>11. PICK W : W = {}
  OBVIOUS
<1>12. Keeps(p, W, itable', disk') /\ Fills(p, W) /\ SlotsOf(st'[p].todo, {"invalid"}) = {}
  BY <1>1, <1>5, <1>6, <1>10, <1>11 DEF Fills
<1>13. \A q \in Proc : q # p => st'[q] = st[q] /\ cwd'[q] = cwd[q]
  BY <1>6, <1>7
<1>14. QED BY <1>1, <1>6, <1>7, <1>8, <1>9, <1>10, <1>12, <1>13, StepKeeps

\* The counts of the files change by the descriptors that p closes and opens.
LEMMA FilesOKStep ==
  ASSUME Types, FilesOK, NEW p \in Proc,
         \A q \in Proc : q # p => \A fd \in Fd : ofile'[q][fd] = ofile[q][fd],
         \A f \in File : /\ Cardinality(FdsOf(p, f)') \in Nat
                         /\ ftable'[f].ref = ftable[f].ref - Cardinality(FdsOf(p, f)) + Cardinality(FdsOf(p, f)')
  PROVE  FilesOK'
<1>1. ASSUME NEW f \in File PROVE ftable'[f].ref = Total([q \in Proc |-> Cardinality(FdsOf(q, f))])'
  <2> DEFINE h == [q \in Proc |-> Cardinality(FdsOf(q, f))]
             g == [q \in Proc |-> Cardinality(FdsOf(q, f)')]
  <2>1. h \in [Proc -> Nat] /\ \A q \in Proc : h[q] = Cardinality(FdsOf(q, f))
    BY FdsFun
  <2>2. \A q \in Proc : q # p => FdsOf(q, f)' = FdsOf(q, f)
    BY DEF FdsOf
  <2>3. \A q \in Proc : Cardinality(FdsOf(q, f)') \in Nat
    BY <2>1, <2>2, FdsFun
  <2>4. g \in [Proc -> Nat] /\ g[p] = Cardinality(FdsOf(p, f)') /\ \A q \in Proc : q # p => g[q] = h[q]
    BY <2>2, <2>3
  <2>5. ftable[f].ref = Total(h)
    BY DEF FilesOK
  <2>6. Total([q \in Proc |-> Cardinality(FdsOf(q, f))])' = Total(g)
    BY DEF Total
  <2> HIDE DEF h, g
  <2>7. Total(h) \in Nat /\ Total(g) = Total(h) - h[p] + g[p]
    BY <2>1, <2>4, TotalChange
  <2>8. ftable'[f].ref = Total(g)
    BY <2>1, <2>4, <2>5, <2>7
  <2>9. QED BY <2>6, <2>8
<1>2. QED BY <1>1 DEF FilesOK

\* One element more.
LEMMA CountAdd ==
  ASSUME NEW S, IsFiniteSet(S), NEW x, x \notin S
  PROVE  Cardinality(S \cup {x}) = Cardinality(S) + 1
  BY FS_AddElement

\* One element less.
LEMMA CountRemove ==
  ASSUME NEW S, IsFiniteSet(S), NEW x, x \in S
  PROVE  Cardinality(S \ {x}) = Cardinality(S) - 1
  BY FS_RemoveElement

\* A descriptor that p opens or closes.
FdSet(p, fd, v) ==
    /\ \A f \in File : /\ Cardinality(FdsOf(p, f)') \in Nat /\ Cardinality(FdsOf(p, f)) \in Nat
                       /\ Cardinality(FdsOf(p, f)') =
                             Cardinality(FdsOf(p, f)) + One(f = v) - One(f = ofile[p][fd])
    /\ ofile' \in [Proc -> [Fd -> 0 .. NFILE]]
    /\ \A q \in Proc : q # p => ofile'[q] = ofile[q]

\* The descriptors on a file when one of them changes.
LEMMA FdSets ==
  ASSUME Types, NEW p \in Proc, NEW fd \in Fd, NEW v \in 0 .. NFILE, ofile[p][fd] # v,
         ofile' = [ofile EXCEPT ![p][fd] = v]
  PROVE  FdSet(p, fd, v)
<1>1. ofile \in [Proc -> [Fd -> 0 .. NFILE]]
  BY DEF Types
<1>2. /\ ofile' \in [Proc -> [Fd -> 0 .. NFILE]]
      /\ \A q \in Proc : q # p => ofile'[q] = ofile[q]
      /\ ofile'[p][fd] = v /\ \A x \in Fd : x # fd => ofile'[p][x] = ofile[p][x]
  BY <1>1
<1>3. ASSUME NEW f \in File
      PROVE  /\ Cardinality(FdsOf(p, f)') \in Nat /\ Cardinality(FdsOf(p, f)) \in Nat
             /\ Cardinality(FdsOf(p, f)') = Cardinality(FdsOf(p, f)) + One(f = v) - One(f = ofile[p][fd])
  <2> DEFINE A == FdsOf(p, f)
             B == FdsOf(p, f)'
  <2>1. A \subseteq Fd /\ B \subseteq Fd
    BY DEF FdsOf
  <2>2. IsFiniteSet(A) /\ Cardinality(A) \in Nat /\ Cardinality(B) \in Nat
    BY <2>1, FewFds
  <2>3. CASE f = v
    <3>1. B = A \cup {fd} /\ fd \notin A
      BY <1>2, <2>3 DEF FdsOf
    <3> HIDE DEF A, B
    <3>2. Cardinality(B) = Cardinality(A) + 1
      BY <2>2, <3>1, CountAdd
    <3>3. One(f = v) = 1 /\ One(f = ofile[p][fd]) = 0
      BY <2>3 DEF One
    <3>4. QED BY <2>2, <3>2, <3>3 DEF A, B
  <2>4. CASE f = ofile[p][fd] /\ f # v
    <3>1. B = A \ {fd} /\ fd \in A
      BY <1>2, <2>4 DEF FdsOf
    <3> HIDE DEF A, B
    <3>2. Cardinality(B) = Cardinality(A) - 1
      BY <2>2, <3>1, CountRemove
    <3>3. One(f = v) = 0 /\ One(f = ofile[p][fd]) = 1
      BY <2>4 DEF One
    <3>4. QED BY <2>2, <3>2, <3>3 DEF A, B
  <2>5. CASE f # ofile[p][fd] /\ f # v
    <3>1. B = A
      BY <1>2, <2>5 DEF FdsOf
    <3>2. One(f = v) = 0 /\ One(f = ofile[p][fd]) = 0
      BY <2>5 DEF One
    <3> HIDE DEF A, B
    <3>3. QED BY <2>2, <3>1, <3>2 DEF A, B
  <2>6. QED BY <2>3, <2>4, <2>5
<1>4. QED BY <1>2, <1>3 DEF FdSet

\* What a step does to the counts of files and of slots.
FilesMove(p) == \A f \in File :
    /\ Cardinality(FdsOf(p, f)') \in Nat
    /\ ftable'[f].ref = ftable[f].ref - Cardinality(FdsOf(p, f)) + Cardinality(FdsOf(p, f)')
SlotsMove(p) == \A s \in Slot :
    /\ Cardinality(FilesOf(s)') \in Nat
    /\ itable'[s].ref = itable[s].ref - (Cardinality(FilesOf(s)) + Held(p, s))
                        + (Cardinality(FilesOf(s)') + Held(p, s)')
\* The files that stay open are the same, and those that are new are typed.
FilesStay == \A f \in File : ftable[f].ref > 0 /\ ftable'[f].ref > 0 =>
                ftable'[f].ip = ftable[f].ip /\ ftable'[f].writable = ftable[f].writable
FilesNew == \A f \in File : ftable[f].ref = 0 /\ ftable'[f].ref > 0 =>
               /\ ftable'[f].ip \in Slot
               /\ ftable'[f].writable => disk'.inode[itable'[ftable'[f].ip].inum].type \in {"file", "dev"}

\* A step of a process in its program that changes its descriptors.
LEMMA FileStep ==
  ASSUME IInv, NEW p \in Proc, st[p].todo = <<>>, NEW W, Keeps(p, W, itable', disk'), Sound(disk'),
         Fills(p, W), SlotsOf(st'[p].todo, {"invalid"}) = {},
         st' \in [Proc -> Control], inop' \subseteq Proc,
         ftable' \in [File -> Files], ofile' \in [Proc -> [Fd -> 0 .. NFILE]],
         cwd' \in [Proc -> 0 .. NINODE],
         \A q \in Proc : q # p => st'[q] = st[q] /\ ofile'[q] = ofile[q] /\ cwd'[q] = cwd[q],
         durable' = durable, lost' = lost, Local(p)',
         FilesMove(p), SlotsMove(p), FilesStay, FilesNew
  PROVE  IInv'
<1>1. Types /\ FilesTyped /\ FilesOK /\ Counted
  BY DEF IInv
<1>2. Types'
  BY DEF Types, Keeps, Tables
<1>3. FilesOK'
  <2>1. \A q \in Proc : q # p => \A fd \in Fd : ofile'[q][fd] = ofile[q][fd]
    OBVIOUS
  <2>2. \A f \in File : /\ Cardinality(FdsOf(p, f)') \in Nat
                        /\ ftable'[f].ref = ftable[f].ref - Cardinality(FdsOf(p, f)) + Cardinality(FdsOf(p, f)')
    BY DEF FilesMove
  <2>3. QED BY <1>1, <2>1, <2>2, FilesOKStep
<1>4. Counted'
  <2>1. \A q \in Proc : q # p => st'[q] = st[q] /\ cwd'[q] = cwd[q]
    OBVIOUS
  <2>2. \A s \in Slot : /\ Cardinality(FilesOf(s)') \in Nat
                        /\ itable'[s].ref = itable[s].ref - (Cardinality(FilesOf(s)) + Held(p, s))
                                            + (Cardinality(FilesOf(s)') + Held(p, s)')
    BY DEF SlotsMove
  <2>3. QED BY <1>1, <1>2, <2>1, <2>2, CountedStep
<1>5. Elsewhere(p)
  <2>1. ASSUME NEW q \in Proc, q # p, NEW fd \in Fd, ofile[q][fd] # 0
        PROVE  ftable'[ofile[q][fd]].writable = ftable[ofile[q][fd]].writable
    <3>0. PICK f : f = ofile[q][fd]
      OBVIOUS
    <3>1. f \in File /\ ftable[f].ref > 0 /\ Cardinality(FdsOf(q, f)) >= 1
      BY <1>1, <2>1, <3>0, FdOpen
    <3>2. /\ ftable[f].ref >= Cardinality(FdsOf(p, f)) + Cardinality(FdsOf(q, f))
          /\ ftable[f].ref \in Nat /\ Cardinality(FdsOf(p, f)) \in Nat /\ Cardinality(FdsOf(q, f)) \in Nat
      BY <1>1, <2>1, <3>1, FileHeld
    <3>3. /\ ftable'[f].ref = ftable[f].ref - Cardinality(FdsOf(p, f)) + Cardinality(FdsOf(p, f)')
          /\ Cardinality(FdsOf(p, f)') \in Nat
      BY <3>1 DEF FilesMove
    <3>4. ftable'[f].ref > 0
      BY <3>1, <3>2, <3>3
    <3>5. QED BY <3>0, <3>1, <3>4 DEF FilesStay
  <2>2. QED BY <2>1 DEF Elsewhere
<1>6. FilesTyped'
  <2>1. ASSUME NEW f \in File, ftable'[f].ref > 0
        PROVE  /\ ftable'[f].ip \in Slot
               /\ ftable'[f].writable => TypeOf(ftable[f].ip)' \in {"file", "dev"}
    <3>1. CASE ftable[f].ref > 0
      <4>1. ftable'[f].ip = ftable[f].ip /\ ftable'[f].writable = ftable[f].writable
        BY <2>1, <3>1 DEF FilesStay
      <4>2. QED BY <3>1, <4>1, KeepsFiles
    <3>2. CASE ~ (ftable[f].ref > 0)
      <4>1. ftable[f].ref = 0
        BY <1>1, <3>2 DEF Types, Files
      <4>2. QED BY <2>1, <4>1 DEF FilesNew, TypeOf
    <3>3. QED BY <3>1, <3>2
  <2>2. QED BY <2>1 DEF FilesTyped
<1>7. QED BY <1>2, <1>3, <1>4, <1>5, <1>6, StepKeepsAll

\* fileclose().
LEMMA FileCloseStep ==
  ASSUME IInv, NEW p \in Proc, st[p].todo = <<>>, NEW pc \in {"user", "exit"}, st[p].pc = pc,
         NEW fd \in OpenFds(p), FileClose(p, fd, pc)
  PROVE  IInv'
<1> DEFINE f == ofile[p][fd]
           s == ftable[f].ip
           last == ftable[f].ref = 1
           t == IF last THEN Do("iput", s) \o EndOp ELSE <<>>
           r == [st[p] EXCEPT !.pc = pc, !.todo = t]
           new == IF last THEN FreeFile ELSE [ftable[f] EXCEPT !.ref = @ - 1]
<1>1. Types /\ Named2 /\ Sound(disk) /\ FilesOK /\ FilesTyped /\ Local(p) /\ st[p] \in Control
  BY DEF IInv, Types
<1>2. fd \in Fd /\ ofile[p][fd] # 0
  BY DEF OpenFds
<1>3. f \in File /\ ftable[f].ref > 0 /\ ftable[f] \in Files
  BY <1>1, <1>2, FdOpen
<1>4. /\ ofile' = [ofile EXCEPT ![p][fd] = 0] /\ Go(p, r)
      /\ ftable' = [ftable EXCEPT ![f] = new]
      /\ inop' = inop \/ inop' = inop \cup {p}
      /\ UNCHANGED <<disk, durable, itable, cwd, lost>>
  <2>1. Go(p, r) /\ UNCHANGED <<disk, durable, itable, cwd, lost>>
    BY DEF FileClose
  <2>2. ofile' = [ofile EXCEPT ![p][fd] = 0]
    BY DEF FileClose
  <2>3. ftable' = [ftable EXCEPT ![f] = new]
    BY Zenon DEF FileClose
  <2>4. inop' = inop \/ inop' = inop \cup {p}
    BY DEF FileClose, BeginOp
  <2>5. QED BY <2>1, <2>2, <2>3, <2>4
<1>5. s \in Slot /\ s \in 0 .. NINODE
  BY <1>1, <1>3, FileSysAssumption DEF FilesTyped, Slot
<1>6. FdSet(p, fd, 0)
  <2>1. 0 \in 0 .. NFILE
    BY FileSysAssumption
  <2>2. QED BY <1>1, <1>2, <1>4, <2>1, FdSets
<1> HIDE DEF f
<1>7. /\ new \in Files /\ new.ref = ftable[f].ref - 1
      /\ new.ref > 0 => new.ip = s /\ new.writable = ftable[f].writable
      /\ last <=> new.ref = 0
  <2>1. CASE last
    <3>1. new = [type |-> "none", ref |-> 0, ip |-> 0, readable |-> FALSE, writable |-> FALSE, off |-> 0]
      BY <2>1 DEF FreeFile
    <3>2. 0 \in 0 .. NINODE /\ "none" \in Kinds
      BY FileSysAssumption DEF Kinds
    <3> HIDE DEF new
    <3>3. new \in Files /\ new.ref = 0
      BY <3>1, <3>2 DEF Files
    <3>4. QED BY <2>1, <3>3
  <2>2. CASE ~ last
    <3>1. ftable[f].ref \in Nat /\ ftable[f].ref - 1 \in Nat /\ ftable[f].ref # 1
      BY <1>3, <2>2 DEF Files
    <3>2. new = [ftable[f] EXCEPT !.ref = ftable[f].ref - 1]
      BY <2>2
    <3> HIDE DEF new
    <3>3. new \in Files /\ new.ref = ftable[f].ref - 1 /\ new.ip = s /\ new.writable = ftable[f].writable
      BY <1>3, <3>1, <3>2 DEF Files
    <3>4. QED BY <2>2, <3>1, <3>3
  <2>3. QED BY <2>1, <2>2
<1> HIDE DEF new, s
<1>8. Plain(t, {}) /\ \A x : Tokened(t, x) = One(last /\ s = x)
  <2>1. CASE last
    <3>1. t = Do("iput", s) \o EndOp
      BY <2>1
    <3> HIDE DEF t, last
    <3>2. Plain(t, {}) /\ \A x : Tokened(t, x) = One(s = x)
      BY <1>5, <3>1, TodoPutEnd
    <3>3. \A x : One(last /\ s = x) = One(s = x)
      BY <2>1 DEF One
    <3>4. QED BY <3>2, <3>3
  <2>2. CASE ~ last
    <3>1. t = <<>>
      BY <2>2
    <3> HIDE DEF t, last
    <3>2. Plain(t, {}) /\ \A x : Tokened(t, x) = 0
      BY <3>1, TodoNone DEF Plain
    <3>3. \A x : One(last /\ s = x) = 0
      BY <2>2 DEF One
    <3>4. QED BY <3>2, <3>3
  <2>3. QED BY <2>1, <2>2
<1>9. t \in Seq(Items) /\ TodoOK(t) /\ SlotsOf(t, Unlocks) = {} /\ SlotsOf(t, {"invalid"}) = {}
  BY <1>8 DEF Plain
<1> HIDE DEF t
<1>10. r \in Control /\ r.pc = pc /\ r.todo = t
  BY <1>1, <1>9 DEF Control, Pcs
<1> HIDE DEF r
<1>11. /\ st' \in [Proc -> Control] /\ st'[p] = r
       /\ \A q \in Proc : q # p => st'[q] = st[q]
  BY <1>1, <1>4, <1>10, GoFacts
<1>12. /\ ftable' \in [File -> Files] /\ ftable'[f] = new
       /\ \A g \in File : g # f => ftable'[g] = ftable[g]
  BY <1>1, <1>3, <1>4, <1>7 DEF Types
<1>13. FilesMove(p)
  <2>1. ASSUME NEW g \in File
        PROVE  /\ Cardinality(FdsOf(p, g)') \in Nat
               /\ ftable'[g].ref = ftable[g].ref - Cardinality(FdsOf(p, g)) + Cardinality(FdsOf(p, g)')
    <3>1. /\ Cardinality(FdsOf(p, g)') \in Nat /\ Cardinality(FdsOf(p, g)) \in Nat
          /\ Cardinality(FdsOf(p, g)') = Cardinality(FdsOf(p, g)) + One(g = 0) - One(g = ofile[p][fd])
      BY <1>6 DEF FdSet
    <3>2. One(g = 0) = 0
      BY DEF File, One
    <3>3. One(g = ofile[p][fd]) = One(g = f)
      BY DEF f
    <3>4. ftable'[g].ref = ftable[g].ref - One(g = f) /\ ftable[g].ref \in Int
      BY <1>1, <1>7, <1>12 DEF One, Types, Files
    <3>5. QED BY <3>1, <3>2, <3>3, <3>4 DEF One
  <2>2. QED BY <2>1 DEF FilesMove
<1>14. ASSUME NEW x \in Slot
       PROVE  /\ Cardinality(FilesOf(x)') \in Nat /\ Cardinality(FilesOf(x)) \in Nat
              /\ Cardinality(FilesOf(x)') = Cardinality(FilesOf(x)) - One(last /\ s = x)
  <2> DEFINE A == FilesOf(x)
             B == FilesOf(x)'
  <2>1. A \subseteq File /\ B \subseteq File
    BY DEF FilesOf
  <2>2. IsFiniteSet(A) /\ Cardinality(A) \in Nat /\ Cardinality(B) \in Nat
    BY <2>1, FewFiles
  <2>3. CASE last /\ s = x
    <3>1. B = A \ {f} /\ f \in A
      BY <1>3, <1>7, <1>12, <2>3 DEF FilesOf, s
    <3> HIDE DEF A, B
    <3>2. Cardinality(B) = Cardinality(A) - 1
      BY <2>2, <3>1, CountRemove
    <3>3. One(last /\ s = x) = 1
      BY <2>3 DEF One
    <3>4. QED BY <2>2, <3>2, <3>3 DEF A, B
  <2>4. CASE ~ (last /\ s = x)
    <3>1. B = A
      <4>1. \A g \in File : ftable'[g].ref > 0 /\ ftable'[g].ip = x <=> ftable[g].ref > 0 /\ ftable[g].ip = x
        <5>1. new.ref > 0 /\ new.ip = x <=> ftable[f].ref > 0 /\ ftable[f].ip = x
          BY <1>3, <1>7, <2>4 DEF s, Files
        <5>2. QED BY <1>12, <5>1
      <4>2. QED BY <4>1 DEF FilesOf
    <3>2. One(last /\ s = x) = 0
      BY <2>4 DEF One
    <3> HIDE DEF A, B
    <3>3. QED BY <2>2, <3>1, <3>2 DEF A, B
  <2>5. QED BY <2>3, <2>4
<1>15. SlotsMove(p)
  <2>1. ASSUME NEW x \in Slot
        PROVE  /\ Cardinality(FilesOf(x)') \in Nat
               /\ itable'[x].ref = itable[x].ref - (Cardinality(FilesOf(x)) + Held(p, x))
                                   + (Cardinality(FilesOf(x)') + Held(p, x)')
    <3>1. Held(p, x) = One(cwd[p] = x)
      <4>1. Held(p, x) = HeldHere(st[p], cwd[p], x)
        BY <1>1, HeldNow
      <4>2. QED BY <4>1 DEF HeldHere, HoldsAt, HoldsDp, HoldsIp, One
    <3>2. Held(p, x)' = One(cwd[p] = x) + One(last /\ s = x)
      <4>1. HeldBy(r, cwd[p], x) = One(cwd[p] = x) + Tokened(r.todo, x)
        BY <1>9, <1>10, HeldOutside
      <4>2. Held(p, x)' = HeldBy(r, cwd[p], x)
        BY <1>4, <1>11 DEF Held
      <4>3. QED BY <1>8, <1>10, <4>1, <4>2
    <3>3. itable'[x].ref = itable[x].ref /\ itable[x].ref \in Nat
      BY <1>1, <1>4 DEF Types, Slots
    <3> HIDE DEF last
    <3>4. QED BY <1>14, <3>1, <3>2, <3>3 DEF One
  <2>2. QED BY <2>1 DEF SlotsMove
<1>16. FilesStay /\ FilesNew
  BY <1>3, <1>7, <1>12 DEF FilesStay, FilesNew, s
<1>17. Local(p)'
  <2>1. TodoOK(st'[p].todo) /\ CallOK(st'[p])
    BY <1>9, <1>10, <1>11 DEF CallOK
  <2>2. Locked(p)'
    BY <1>9, <1>10, <1>11 DEF Locked, PcLocks
  <2>3. Holding(p)'
    BY <1>10, <1>11 DEF Holding, HoldsAt, HoldsDp, HoldsIp
  <2>4. Using(p)'
    <3>1. cwd[p] \in Slot
      BY CwdReached
    <3>2. QED BY <1>4, <1>10, <1>11, <3>1 DEF Using
  <2>5. QED BY <2>1, <2>2, <2>3, <2>4 DEF Local
<1>18. PICK W : W = {}
  OBVIOUS
<1>19. Keeps(p, W, itable', disk') /\ Fills(p, W) /\ Sound(disk') /\ inop' \subseteq Proc
  <2>1. Keeps(p, {}, itable', disk') /\ Sound(disk')
    BY <1>1, <1>4, KeepsNothing
  <2>2. QED BY <1>1, <1>4, <1>18, <2>1 DEF Fills, Types
<1>20. /\ SlotsOf(st'[p].todo, {"invalid"}) = {} /\ cwd' \in [Proc -> 0 .. NINODE]
       /\ ofile' \in [Proc -> [Fd -> 0 .. NFILE]] /\ durable' = durable /\ lost' = lost
       /\ \A q \in Proc : q # p => st'[q] = st[q] /\ ofile'[q] = ofile[q] /\ cwd'[q] = cwd[q]
  BY <1>1, <1>4, <1>6, <1>9, <1>10, <1>11 DEF Types, FdSet
<1>21. QED BY <1>11, <1>12, <1>13, <1>15, <1>16, <1>17, <1>19, <1>20, FileStep

\* close(), and exit() with descriptors open.
LEMMA CloseSteps ==
  ASSUME IInv, NEW p \in Proc, Close(p) \/ ExitClose(p)
  PROVE  IInv'
<1>1. CASE Close(p)
  <2>1. PICK fd \in OpenFds(p) : st[p].todo = <<>> /\ st[p].pc = "user" /\ FileClose(p, fd, "user")
    BY <1>1 DEF Close, Makes, At, Free
  <2>2. QED BY <2>1, FileCloseStep
<1>2. CASE ExitClose(p)
  <2>1. /\ st[p].todo = <<>> /\ st[p].pc = "exit" /\ OpenFds(p) # {}
        /\ FileClose(p, Min(OpenFds(p)), "exit")
    BY <1>2 DEF ExitClose, At, Free
  <2>2. OpenFds(p) \subseteq Nat
    BY FileSysAssumption DEF OpenFds, Fd
  <2>3. Min(OpenFds(p)) \in OpenFds(p)
    BY <2>1, <2>2, Smallest
  <2>4. QED BY <2>1, <2>3, FileCloseStep
<1>3. QED BY <1>1, <1>2

\* A process in its program.
LEMMA UserLocal ==
  ASSUME NEW p \in Proc, st'[p].pc = "user", TodoOK(st'[p].todo), SlotsOf(st'[p].todo, Unlocks) = {},
         cwd'[p] \in Slot
  PROVE  Local(p)'
<1>1. CallOK(st'[p])
  BY DEF CallOK
<1>2. Locked(p)'
  BY DEF Locked, PcLocks
<1>3. Holding(p)'
  BY DEF Holding, HoldsAt, HoldsDp, HoldsIp
<1>4. Using(p)'
  BY DEF Using
<1>5. QED BY <1>1, <1>2, <1>3, <1>4 DEF Local

\* A process in its program refers to its directory alone.
LEMMA UserHeld ==
  ASSUME Types, NEW p \in Proc, st[p].todo = <<>>, st[p].pc = "user", NEW x
  PROVE  Held(p, x) = One(cwd[p] = x)
<1>1. Held(p, x) = HeldHere(st[p], cwd[p], x)
  BY HeldNow
<1>2. QED BY <1>1 DEF HeldHere, HoldsAt, HoldsDp, HoldsIp, One

\* dup().
LEMMA DupStep ==
  ASSUME IInv, NEW p \in Proc, Dup(p)
  PROVE  IInv'
<1>1. PICK fd \in OpenFds(p) :
         /\ st[p].todo = <<>> /\ st[p].pc = "user" /\ FreeFds(p) # {}
         /\ ofile' = [ofile EXCEPT ![p][Min(FreeFds(p))] = ofile[p][fd]]
         /\ ftable' = [ftable EXCEPT ![ofile[p][fd]].ref = @ + 1]
         /\ UNCHANGED <<disk, durable, inop, itable, cwd, st, lost>>
  BY DEF Dup, Makes, At, Free
<1>2. Types /\ Named2 /\ Sound(disk) /\ FilesOK /\ FilesTyped /\ Local(p)
  BY DEF IInv
<1>3. fd \in Fd /\ ofile[p][fd] # 0
  BY DEF OpenFds
<1>4. PICK f : f = ofile[p][fd]
  OBVIOUS
<1>5. f \in File /\ f # 0 /\ f \in 0 .. NFILE /\ ftable[f].ref > 0 /\ ftable[f] \in Files
  BY <1>2, <1>3, <1>4, FdOpen DEF File
<1>6. PICK fd2 : fd2 = Min(FreeFds(p))
  OBVIOUS
<1>7. fd2 \in Fd /\ ofile[p][fd2] = 0
  <2>1. FreeFds(p) \subseteq Nat
    BY FileSysAssumption DEF FreeFds, Fd
  <2>2. Min(FreeFds(p)) \in FreeFds(p)
    BY <1>1, <2>1, Smallest
  <2>3. QED BY <1>6, <2>2 DEF FreeFds
<1>8. FdSet(p, fd2, f)
  <2>1. ofile' = [ofile EXCEPT ![p][fd2] = f] /\ ofile[p][fd2] # f
    BY <1>1, <1>4, <1>5, <1>6, <1>7
  <2>2. QED BY <1>2, <1>5, <1>7, <2>1, FdSets
<1>9. /\ ftable' \in [File -> Files]
      /\ ftable'[f].ref = ftable[f].ref + 1 /\ ftable'[f].ip = ftable[f].ip
      /\ ftable'[f].writable = ftable[f].writable
      /\ \A g \in File : g # f => ftable'[g] = ftable[g]
  <2>1. ftable' = [ftable EXCEPT ![f].ref = @ + 1] /\ ftable \in [File -> Files]
    BY <1>1, <1>2, <1>4 DEF Types
  <2>2. [ftable[f] EXCEPT !.ref = @ + 1] \in Files
    BY <1>5 DEF Files
  <2>3. QED BY <1>5, <2>1, <2>2 DEF Files
<1>10. FilesMove(p)
  <2>1. ASSUME NEW g \in File
        PROVE  /\ Cardinality(FdsOf(p, g)') \in Nat
               /\ ftable'[g].ref = ftable[g].ref - Cardinality(FdsOf(p, g)) + Cardinality(FdsOf(p, g)')
    <3>1. /\ Cardinality(FdsOf(p, g)') \in Nat /\ Cardinality(FdsOf(p, g)) \in Nat
          /\ Cardinality(FdsOf(p, g)') = Cardinality(FdsOf(p, g)) + One(g = f) - One(g = ofile[p][fd2])
      BY <1>8 DEF FdSet
    <3>2. One(g = ofile[p][fd2]) = 0
      BY <1>7 DEF File, One
    <3>3. ftable'[g].ref = ftable[g].ref + One(g = f) /\ ftable[g].ref \in Int
      BY <1>2, <1>9 DEF One, Types, Files
    <3>4. QED BY <3>1, <3>2, <3>3 DEF One
  <2>2. QED BY <2>1 DEF FilesMove
<1>11. ASSUME NEW x \in Slot PROVE FilesOf(x)' = FilesOf(x)
  <2>1. ftable'[f].ref > 0
    BY <1>5, <1>9 DEF Files
  <2>2. QED BY <1>5, <1>9, <2>1 DEF FilesOf
<1>12. SlotsMove(p)
  <2>1. ASSUME NEW x \in Slot
        PROVE  /\ Cardinality(FilesOf(x)') \in Nat
               /\ itable'[x].ref = itable[x].ref - (Cardinality(FilesOf(x)) + Held(p, x))
                                   + (Cardinality(FilesOf(x)') + Held(p, x)')
    <3>1. Held(p, x)' = Held(p, x) /\ Held(p, x) \in Nat
      BY <1>1, <1>2, HeldFun DEF Held
    <3>2. Cardinality(FilesOf(x)') = Cardinality(FilesOf(x)) /\ Cardinality(FilesOf(x)) \in Nat
      BY <1>11, FilesFinite
    <3>3. itable'[x].ref = itable[x].ref /\ itable[x].ref \in Nat
      BY <1>1, <1>2 DEF Types, Slots
    <3>4. QED BY <3>1, <3>2, <3>3
  <2>2. QED BY <2>1 DEF SlotsMove
<1>13. FilesStay /\ FilesNew
  BY <1>5, <1>9 DEF FilesStay, FilesNew
<1>14. Local(p)'
  <2>1. cwd[p] \in Slot
    BY <1>1, CwdReached
  <2>2. TodoOK(st'[p].todo) /\ SlotsOf(st'[p].todo, Unlocks) = {}
    BY <1>1, TodoNone
  <2>3. QED BY <1>1, <2>1, <2>2, UserLocal
<1>15. PICK W : W = {}
  OBVIOUS
<1>16. Keeps(p, W, itable', disk') /\ Fills(p, W) /\ Sound(disk') /\ inop' \subseteq Proc
  <2>1. Keeps(p, {}, itable', disk') /\ Sound(disk')
    BY <1>1, <1>2, KeepsNothing
  <2>2. QED BY <1>1, <1>2, <1>15, <2>1 DEF Fills, Types
<1>17. SlotsOf(st'[p].todo, {"invalid"}) = {}
  BY <1>1, TodoNone
<1>18. /\ st' \in [Proc -> Control] /\ cwd' \in [Proc -> 0 .. NINODE]
       /\ ofile' \in [Proc -> [Fd -> 0 .. NFILE]] /\ durable' = durable /\ lost' = lost
       /\ \A q \in Proc : q # p => st'[q] = st[q] /\ ofile'[q] = ofile[q] /\ cwd'[q] = cwd[q]
  BY <1>1, <1>2, <1>8 DEF Types, FdSet
<1>19. QED BY <1>1, <1>9, <1>10, <1>12, <1>13, <1>14, <1>16, <1>17, <1>18, FileStep

\* The file that open() fills in is one of a kind that may be written, if it is open for writing.
LEMMA OpenTypes ==
  ASSUME IInv, NEW p \in Proc, OpenPc(p), st[p].todo = <<>>,
         NEW d, Inode(st[p].ip) = d, d.type \in Kinds \ {"none"}, TypeOf(st[p].ip) = d.type,
         ~ (st[p].pc # "made" /\ Refused(st[p].call, d)), st[p].call.mode \in {"w", "rw"}
  PROVE  d.type \in {"file", "dev"}
<1>1. Local(p)
  BY DEF IInv
<1>2. CASE st[p].pc = "made" /\ st[p].call.op = "open"
  <2>1. TypeOf(st[p].ip) = NewType(st[p].call)
    BY <1>1, <1>2 DEF Local, Holding
  <2>2. QED BY <1>2, <2>1 DEF NewType
<1>3. CASE st[p].pc # "made"
  <2>1. ~ Refused(st[p].call, d)
    BY <1>3
  <2>2. CASE WantsParent(st[p].call)
    BY <2>1, <2>2 DEF Refused
  <2>3. CASE ~ WantsParent(st[p].call)
    <3>1. d.type # "dir"
      BY <2>1, <2>3 DEF Refused
    <3>2. QED BY <3>1 DEF Kinds
  <2>4. QED BY <2>2, <2>3
<1>4. QED BY <1>2, <1>3 DEF OpenPc

\* The table and the image after open(), truncated or not.
LEMMA OpenKeeps ==
  ASSUME IInv, NEW p \in Proc, st[p].todo = <<>>, OpenPc(p), NEW s, st[p].ip = s,
         NEW trunc \in BOOLEAN,
         disk' = (IF trunc THEN Itrunc(disk, itable[s].inum, Inode(s)) ELSE disk),
         itable' = Loaded(itable, s, IF trunc THEN Truncated(Inode(s)) ELSE Inode(s), NoProc)
  PROVE  /\ Keeps(p, {s}, itable', disk') /\ Sound(disk')
         /\ s \in Slot /\ TypeOf(s) = Inode(s).type /\ Inode(s).type \in Kinds \ {"none"}
         /\ After(disk', s).type = Inode(s).type /\ itable'[s].inum = itable[s].inum
         /\ \A x \in Slot : itable'[x].ref = itable[x].ref /\ itable[x].ref \in Nat
<1> DEFINE d == Inode(s)
           e == IF trunc THEN Truncated(d) ELSE d
<1>1. Types /\ Named2 /\ Sound(disk)
  BY DEF IInv
<1>2. Reaches(p, s) /\ itable[s].lock \in {p, NoProc} /\ d.type # "none"
  BY OpenLock
<1>3. /\ s \in Slot /\ itable[s].ref > 0 /\ itable[s].inum \in Inum
      /\ d = disk.inode[itable[s].inum] /\ d \in Dinodes /\ TypeOf(s) = d.type
  BY <1>2, Reached
<1> HIDE DEF d
<1>4. e \in Dinodes /\ e.type = d.type
  BY <1>3, TruncatedType DEF SameKind
<1>5. Sound(disk') /\ disk'.inode[itable[s].inum] = e
      /\ \A j \in Inum : j # itable[s].inum => disk'.inode[j] = disk.inode[j]
  <2>1. CASE trunc
    <3>1. disk' = Itrunc(disk, itable[s].inum, disk.inode[itable[s].inum]) /\ e = Truncated(disk.inode[itable[s].inum])
      BY <1>3, <2>1 DEF d
    <3>2. QED BY <1>1, <1>3, <3>1, ItruncSound
  <2>2. CASE ~ trunc
    BY <1>1, <1>3, <2>2
  <2>3. QED BY <2>1, <2>2
<1>6. itable' = Loaded(itable, s, e, NoProc)
  BY DEF d
<1> HIDE DEF e
<1>7. Keeps(p, {s}, Loaded(itable, s, e, NoProc), disk')
  <2>1. disk.inode[itable[s].inum].type \in {"none", e.type}
    BY <1>3, <1>4
  <2>2. e.type # "none" /\ NoProc \in {p, NoProc}
    BY <1>2, <1>4
  <2>3. QED BY <1>2, <1>3, <1>4, <1>5, <2>1, <2>2, LoadKeeps
<1>8. itable'[s].inum = itable[s].inum /\ d.type \in Kinds
  <2>1. itable \in Tables
    BY <1>1 DEF Types, Tables
  <2>2. LoadedAs(itable, Loaded(itable, s, e, NoProc), s, e, NoProc)
    BY <1>3, <1>4, <2>1, LoadedFacts
  <2>3. QED BY <1>3, <1>6, <2>2 DEF LoadedAs, Dinodes
<1>9. ASSUME NEW x \in Slot PROVE itable'[x].ref = itable[x].ref /\ itable[x].ref \in Nat
  BY <1>3, <1>4, <1>6, LoadCounts
<1>10. QED BY <1>2, <1>3, <1>4, <1>5, <1>6, <1>7, <1>8, <1>9 DEF d, After

\* sys_open() makes a file and a descriptor.
LEMMA OpenFileStep ==
  ASSUME IInv, NEW p \in Proc, OpenFile(p)
  PROVE  IInv'
<1> DEFINE d == Inode(st[p].ip)
           c == st[p].call
           trunc == c.trunc /\ d.type = "file"
           new == [type |-> d.type, ref |-> 1, ip |-> st[p].ip, off |-> 0,
                   readable |-> c.mode # "w", writable |-> c.mode \in {"w", "rw"}]
<1>0. PICK s : st[p].ip = s
  OBVIOUS
<1>0a. PICK f : f = Min(FreeFiles)
  OBVIOUS
<1>0b. PICK fd : fd = Min(FreeFds(p))
  OBVIOUS
<1>0c. PICK tr \in BOOLEAN : tr <=> trunc
  OBVIOUS
<1>1. /\ OpenPc(p) /\ st[p].todo = <<>>
      /\ ~(st[p].pc # "made" /\ Refused(c, d))
      /\ FreeFiles # {} /\ FreeFds(p) # {}
      /\ ftable' = [ftable EXCEPT ![f] = new]
      /\ ofile' = [ofile EXCEPT ![p][fd] = f]
      /\ Ended(p, "user", EndOp)
      /\ UNCHANGED <<durable, inop, cwd, lost>>
  BY <1>0a, <1>0b DEF OpenFile, Free, Return, Ended
<1>2. /\ disk' = (IF tr THEN Itrunc(disk, itable[s].inum, Inode(s)) ELSE disk)
      /\ itable' = Loaded(itable, s, IF tr THEN Truncated(Inode(s)) ELSE Inode(s), NoProc)
  <2>1. /\ disk' = (IF trunc THEN Itrunc(disk, itable[st[p].ip].inum, d) ELSE disk)
        /\ itable' = Loaded(itable, st[p].ip, IF trunc THEN Truncated(d) ELSE d, NoProc)
    BY DEF OpenFile
  <2>2. CASE trunc
    <3>1. tr
      BY <1>0c, <2>2
    <3>2. QED BY <1>0, <2>1, <2>2, <3>1
  <2>3. CASE ~ trunc
    <3>1. ~ tr
      BY <1>0c, <2>3
    <3>2. QED BY <1>0, <2>1, <2>3, <3>1
  <2>4. QED BY <2>2, <2>3
<1>3. Types /\ Named2 /\ Sound(disk) /\ FilesOK /\ FilesTyped /\ Local(p)
  BY DEF IInv
<1>4. /\ Keeps(p, {s}, itable', disk') /\ Sound(disk')
      /\ s \in Slot /\ TypeOf(s) = Inode(s).type /\ Inode(s).type \in Kinds \ {"none"}
      /\ After(disk', s).type = Inode(s).type /\ itable'[s].inum = itable[s].inum
      /\ \A x \in Slot : itable'[x].ref = itable[x].ref /\ itable[x].ref \in Nat
  BY <1>0, <1>1, <1>2, OpenKeeps
<1>5. /\ st[p].pc \in {"open", "exists", "made"}
      /\ \A x \in Slot : HeldHere(st[p], cwd[p], x) = One(s = x) + One(cwd[p] = x)
  BY <1>0, <1>1, OpenLock
<1>6. f \in File /\ f # 0 /\ f \in 0 .. NFILE /\ ftable[f].ref = 0
  <2>1. FreeFiles \subseteq Nat
    BY FileSysAssumption DEF FreeFiles, File
  <2>2. Min(FreeFiles) \in FreeFiles
    BY <1>1, <2>1, Smallest
  <2>3. QED BY <1>0a, <2>2 DEF FreeFiles, File
<1>7. fd \in Fd /\ ofile[p][fd] = 0
  <2>1. FreeFds(p) \subseteq Nat
    BY FileSysAssumption DEF FreeFds, Fd
  <2>2. Min(FreeFds(p)) \in FreeFds(p)
    BY <1>1, <2>1, Smallest
  <2>3. QED BY <1>0b, <2>2 DEF FreeFds
<1>8. FdSet(p, fd, f)
  <2>1. ofile[p][fd] # f
    BY <1>6, <1>7
  <2>2. QED BY <1>1, <1>3, <1>6, <1>7, <2>1, FdSets
<1>9. /\ new \in Files /\ new.ref = 1 /\ new.ip = s
      /\ new.writable => After(disk', s).type \in {"file", "dev"}
  <2>0. PICK rd \in BOOLEAN : rd = (c.mode # "w")
    OBVIOUS
  <2>1. PICK wr \in BOOLEAN : wr = (c.mode \in {"w", "rw"})
    <3>1. CASE c.mode \in {"w", "rw"}
      <4>1. (c.mode \in {"w", "rw"}) = TRUE
        BY <3>1
      <4>2. QED BY <4>1
    <3>2. CASE c.mode \notin {"w", "rw"}
      <4>1. (c.mode \in {"w", "rw"}) = FALSE
        BY <3>2
      <4>2. QED BY <4>1
    <3>3. QED BY <3>1, <3>2
  <2>2. new = [type |-> Inode(s).type, ref |-> 1, ip |-> s, off |-> 0, readable |-> rd, writable |-> wr]
    BY <1>0, <2>0, <2>1
  <2>3. wr => Inode(s).type \in {"file", "dev"}
    <3>1. CASE c.mode \in {"w", "rw"}
      <4>1. PICK dd : dd = Inode(st[p].ip)
        OBVIOUS
      <4>2. dd.type \in Kinds \ {"none"} /\ TypeOf(st[p].ip) = dd.type /\ ~(st[p].pc # "made" /\ Refused(st[p].call, dd))
        BY <1>0, <1>1, <1>4, <4>1
      <4>3. dd.type \in {"file", "dev"}
        BY <1>1, <3>1, <4>1, <4>2, OpenTypes
      <4>4. QED BY <1>0, <4>1, <4>3
    <3>2. QED BY <2>1, <3>1
  <2> HIDE DEF new
  <2>4. s \in 0 .. NINODE /\ Inode(s).type \in Kinds
    BY <1>4, FileSysAssumption DEF Slot
  <2>5. new \in Files
    BY <2>2, <2>4 DEF Files
  <2>6. new.ref = 1 /\ new.ip = s /\ new.writable = wr
    BY <2>2
  <2>7. QED BY <1>4, <2>3, <2>5, <2>6
<1> HIDE DEF new, c, d, trunc
<1>10. /\ ftable' \in [File -> Files] /\ ftable'[f] = new
       /\ \A g \in File : g # f => ftable'[g] = ftable[g]
  BY <1>1, <1>3, <1>6, <1>9 DEF Types
<1>11. Plain(EndOp, {}) /\ \A x : Tokened(EndOp, x) = 0
  BY TodoEnd
<1>12. EndOp \in Seq(Items) /\ TodoOK(EndOp) /\ SlotsOf(EndOp, Unlocks) = {} /\ SlotsOf(EndOp, {"invalid"}) = {}
  BY <1>11 DEF Plain
<1>13. /\ st' \in [Proc -> Control] /\ st'[p].pc = "user" /\ st'[p].todo = EndOp
       /\ \A q \in Proc : q # p => st'[q] = st[q]
  BY <1>1, <1>3, <1>12, EndedFacts
<1>14. FilesMove(p)
  <2>1. ASSUME NEW g \in File
        PROVE  /\ Cardinality(FdsOf(p, g)') \in Nat
               /\ ftable'[g].ref = ftable[g].ref - Cardinality(FdsOf(p, g)) + Cardinality(FdsOf(p, g)')
    <3>1. /\ Cardinality(FdsOf(p, g)') \in Nat /\ Cardinality(FdsOf(p, g)) \in Nat
          /\ Cardinality(FdsOf(p, g)') = Cardinality(FdsOf(p, g)) + One(g = f) - One(g = ofile[p][fd])
      BY <1>8 DEF FdSet
    <3>2. One(g = ofile[p][fd]) = 0
      BY <1>7 DEF File, One
    <3>3. ftable'[g].ref = ftable[g].ref + One(g = f) /\ ftable[g].ref \in Int
      BY <1>3, <1>6, <1>9, <1>10 DEF One, Types, Files
    <3>4. QED BY <3>1, <3>2, <3>3 DEF One
  <2>2. QED BY <2>1 DEF FilesMove
<1>15. ASSUME NEW x \in Slot
       PROVE  /\ Cardinality(FilesOf(x)') \in Nat /\ Cardinality(FilesOf(x)) \in Nat
              /\ Cardinality(FilesOf(x)') = Cardinality(FilesOf(x)) + One(s = x)
  <2> DEFINE A == FilesOf(x)
             B == FilesOf(x)'
  <2>1. A \subseteq File /\ B \subseteq File
    BY DEF FilesOf
  <2>2. IsFiniteSet(A) /\ Cardinality(A) \in Nat /\ Cardinality(B) \in Nat
    BY <2>1, FewFiles
  <2>3. CASE s = x
    <3>1. B = A \cup {f} /\ f \notin A
      <4>1. f \in B /\ f \notin A
        BY <1>6, <1>9, <1>10, <2>3 DEF FilesOf
      <4>2. \A g \in File : g # f => (g \in B <=> g \in A)
        BY <1>10 DEF FilesOf
      <4>3. QED BY <2>1, <4>1, <4>2
    <3> HIDE DEF A, B
    <3>2. Cardinality(B) = Cardinality(A) + 1
      BY <2>2, <3>1, CountAdd
    <3>3. One(s = x) = 1
      BY <2>3 DEF One
    <3>4. QED BY <2>2, <3>2, <3>3 DEF A, B
  <2>4. CASE s # x
    <3>1. B = A
      <4>1. f \notin B
        BY <1>6, <1>9, <1>10, <2>4 DEF FilesOf
      <4>2. f \notin A
        BY <1>6, <1>9, <1>10, <2>4 DEF FilesOf
      <4>3. \A g \in File : g # f => (g \in B <=> g \in A)
        BY <1>10 DEF FilesOf
      <4>4. QED BY <2>1, <4>1, <4>2, <4>3
    <3>2. One(s = x) = 0
      BY <2>4 DEF One
    <3> HIDE DEF A, B
    <3>3. QED BY <2>2, <3>1, <3>2 DEF A, B
  <2>5. QED BY <2>3, <2>4
<1>16. SlotsMove(p)
  <2>1. ASSUME NEW x \in Slot
        PROVE  /\ Cardinality(FilesOf(x)') \in Nat
               /\ itable'[x].ref = itable[x].ref - (Cardinality(FilesOf(x)) + Held(p, x))
                                   + (Cardinality(FilesOf(x)') + Held(p, x)')
    <3>1. Held(p, x) = One(s = x) + One(cwd[p] = x)
      BY <1>1, <1>3, <1>5, HeldNow
    <3>2. Held(p, x)' = One(cwd[p] = x)
      <4>1. HeldBy(st'[p], cwd'[p], x) = One(cwd'[p] = x) + Tokened(st'[p].todo, x)
        BY <1>12, <1>13, HeldOutside
      <4>2. Tokened(st'[p].todo, x) = 0
        BY <1>11, <1>13
      <4>3. QED BY <1>1, <4>1, <4>2 DEF Held, One
    <3>3. itable'[x].ref = itable[x].ref /\ itable[x].ref \in Nat
      BY <1>4
    <3>4. QED BY <1>15, <3>1, <3>2, <3>3 DEF One
  <2>2. QED BY <2>1 DEF SlotsMove
<1>17. FilesStay /\ FilesNew
  <2>1. FilesStay
    BY <1>6, <1>10 DEF FilesStay
  <2>2. ASSUME NEW g \in File, ftable[g].ref = 0, ftable'[g].ref > 0
        PROVE  /\ ftable'[g].ip \in Slot
               /\ ftable'[g].writable => disk'.inode[itable'[ftable'[g].ip].inum].type \in {"file", "dev"}
    <3>1. g = f
      BY <1>10, <2>2
    <3>2. ftable'[g].ip = s /\ (ftable'[g].writable => After(disk', s).type \in {"file", "dev"})
      BY <1>9, <1>10, <3>1
    <3>3. QED BY <1>4, <3>2 DEF After
  <2>3. QED BY <2>1, <2>2 DEF FilesNew
<1>18. Local(p)'
  <2>1. cwd'[p] \in Slot
    BY <1>1, <1>5, CwdReached
  <2>2. QED BY <1>12, <1>13, <2>1, UserLocal
<1>19. PICK W : W = {s}
  OBVIOUS
<1>20. Keeps(p, W, itable', disk') /\ Fills(p, W) /\ inop' \subseteq Proc
  <2>1. \A i \in Inum : disk.inode[i].type = "none" => disk'.inode[i].type = "none"
    <3>1. \A i \in Inum : i # itable[s].inum => disk'.inode[i] = disk.inode[i]
      <4>1. CASE tr
        <5>1. /\ disk.inode[itable[s].inum] = Inode(s) /\ itable[s].inum \in Inum
          <6>1. Reaches(p, s) /\ itable[s].lock \in {p, NoProc}
            BY <1>0, <1>1, OpenLock
          <6>2. QED BY <1>1, <6>1, Reached
        <5>2. disk' = Itrunc(disk, itable[s].inum, disk.inode[itable[s].inum])
          BY <1>2, <4>1, <5>1
        <5>3. QED BY <1>3, <5>1, <5>2, ItruncSound
      <4>2. CASE ~ tr
        BY <1>2, <4>2
      <4>3. QED BY <4>1, <4>2
    <3>2. TypeOf(s) # "none"
      BY <1>4
    <3>3. QED BY <3>1, <3>2 DEF TypeOf
  <2>2. QED BY <1>1, <1>3, <1>4, <1>5, <1>19, <2>1 DEF Fills, Types
<1>21. /\ SlotsOf(st'[p].todo, {"invalid"}) = {} /\ cwd' \in [Proc -> 0 .. NINODE]
       /\ ofile' \in [Proc -> [Fd -> 0 .. NFILE]] /\ durable' = durable /\ lost' = lost
       /\ \A q \in Proc : q # p => st'[q] = st[q] /\ ofile'[q] = ofile[q] /\ cwd'[q] = cwd[q]
  BY <1>1, <1>3, <1>8, <1>12, <1>13 DEF Types, FdSet
<1>22. QED BY <1>1, <1>4, <1>10, <1>13, <1>14, <1>16, <1>17, <1>18, <1>20, <1>21, FileStep

\* What fork() does to the file table.
Shared(p) == \A f \in File : /\ ftable'[f].ref = ftable[f].ref + Cardinality(FdsOf(p, f))
                             /\ ftable'[f].ref > 0 <=> ftable[f].ref > 0
                             /\ ftable'[f].ip = ftable[f].ip /\ ftable'[f].writable = ftable[f].writable

\* The descriptors of the child.
LEMMA ForkFiles ==
  ASSUME IInv, NEW p \in Proc,
         ftable' = [f \in File |-> [ftable[f] EXCEPT !.ref =
                       @ + Cardinality({fd \in Fd : ofile[p][fd] = f})]]
  PROVE  ftable' \in [File -> Files] /\ Shared(p)
<1>1. Types /\ FilesOK
  BY DEF IInv
<1>2. ASSUME NEW f \in File
      PROVE  /\ ftable'[f] \in Files /\ ftable'[f].ref = ftable[f].ref + Cardinality(FdsOf(p, f))
             /\ ftable'[f].ref > 0 <=> ftable[f].ref > 0
             /\ ftable'[f].ip = ftable[f].ip /\ ftable'[f].writable = ftable[f].writable
  <2>1. /\ ftable[f].ref >= Cardinality(FdsOf(p, f)) /\ Cardinality(FdsOf(p, f)) \in Nat
        /\ ftable[f].ref \in Nat
    BY <1>1, FileHeld
  <2>2. PICK n \in Nat : n = Cardinality(FdsOf(p, f))
    BY <2>1
  <2>3. ftable'[f] = [ftable[f] EXCEPT !.ref = @ + n]
    <3>1. ftable'[f] = [ftable[f] EXCEPT !.ref = @ + Cardinality({fd \in Fd : ofile[p][fd] = f})]
      OBVIOUS
    <3>2. n = Cardinality({fd \in Fd : ofile[p][fd] = f})
      BY <2>2 DEF FdsOf
    <3>3. QED BY <3>1, <3>2
  <2>4. ftable[f] \in Files
    BY <1>1 DEF Types
  <2>5. /\ ftable'[f] \in Files /\ ftable'[f].ref = ftable[f].ref + n
        /\ ftable'[f].ip = ftable[f].ip /\ ftable'[f].writable = ftable[f].writable
    BY <2>3, <2>4 DEF Files
  <2>6. QED BY <2>1, <2>2, <2>5
<1>3. ftable' \in [File -> Files]
  BY <1>2
<1>4. QED BY <1>2, <1>3 DEF Shared

\* fork().
LEMMA ForkStep ==
  ASSUME IInv, NEW p \in Proc, Fork(p)
  PROVE  IInv'
<1>1. PICK c \in Proc :
         /\ st[p].pc = "user" /\ st[c].todo = <<>> /\ st[c].pc = "none"
         /\ ofile' = [ofile EXCEPT ![c] = ofile[p]]
         /\ ftable' = [f \in File |-> [ftable[f] EXCEPT !.ref =
                          @ + Cardinality({fd \in Fd : ofile[p][fd] = f})]]
         /\ itable' = Idup(itable, cwd[p])
         /\ cwd' = [cwd EXCEPT ![c] = cwd[p]]
         /\ st' = [st EXCEPT ![c] = Idle("user", @.calls)]
         /\ UNCHANGED <<disk, durable, inop, lost>>
  BY DEF Fork, Makes, At, Free
<1>2. Types /\ Named2 /\ Sound(disk) /\ FilesOK /\ FilesTyped /\ Local(c)
  BY DEF IInv
<1>3. PICK s : s = cwd[p]
  OBVIOUS
<1>4. s \in Slot /\ itable[s].ref > 0 /\ itable[s].inum \in Inum /\ s \in 0 .. NINODE
  <2>1. cwd[p] \in Slot /\ itable[cwd[p]].ref > 0 /\ itable[cwd[p]].inum \in Inum
    BY <1>1, CwdReached
  <2>2. QED BY <1>3, <2>1, FileSysAssumption DEF Slot
<1>5. /\ cwd' \in [Proc -> 0 .. NINODE] /\ cwd'[c] = s /\ \A q \in Proc : q # c => cwd'[q] = cwd[q]
      /\ cwd[c] \notin Slot /\ \A fd \in Fd : ofile[c][fd] = 0
  BY <1>1, <1>2, <1>3, <1>4 DEF Types, Local, Using
<1>6. /\ ofile' \in [Proc -> [Fd -> 0 .. NFILE]] /\ ofile'[c] = ofile[p]
      /\ \A q \in Proc : q # c => ofile'[q] = ofile[q]
  BY <1>1, <1>2 DEF Types
<1>7. ftable' \in [File -> Files] /\ Shared(p)
  BY <1>1, ForkFiles
<1>8. /\ st' \in [Proc -> Control] /\ st'[c].pc = "user" /\ st'[c].todo = <<>>
      /\ \A q \in Proc : q # c => st'[q] = st[q]
  <2>1. st[c].calls \in SUBSET Calls
    BY <1>2 DEF Types, Control
  <2>2. <<>> \in Seq(Items) /\ <<>> \in Seq(STRING) /\ 0 \in 0 .. NINODE /\ [op |-> "none"] \in Calls \cup {NoCall}
    BY FileSysAssumption, EmptySeq DEF NoCall
  <2>3. PICK r : r = Idle("user", st[c].calls)
    OBVIOUS
  <2>4. r \in Control /\ r.pc = "user" /\ r.todo = <<>>
    BY <2>1, <2>2, <2>3 DEF Idle, Control, Pcs
  <2>5. Go(c, r)
    BY <1>1, <2>3 DEF Go
  <2>6. QED BY <1>2, <2>4, <2>5, GoFacts
<1>9. Keeps(c, {}, itable', disk') /\ \A x \in Slot : itable'[x].ref = itable[x].ref + One(s = x)
  <2>1. Keeps(c, {}, itable, disk)
    BY <1>2, KeepsNothing
  <2>2. itable \in Tables
    BY <1>2 DEF Types, Tables
  <2>3. Got(itable, Idup(itable, s), itable[s].inum, s)
    BY <1>4, <2>2, IdupGot
  <2>4. Keeps(c, {}, Idup(itable, s), disk)
    BY <1>2, <1>4, <2>1, <2>3, KeepsGot
  <2>5. \A x \in Slot : Idup(itable, s)[x].ref = itable[x].ref + One(s = x)
    BY <2>2, <2>3 DEF Got, One, Tables, Slots
  <2>6. QED BY <1>1, <1>3, <2>4, <2>5
<1>10. FilesMove(c)
  <2>1. ASSUME NEW g \in File
        PROVE  /\ Cardinality(FdsOf(c, g)') \in Nat
               /\ ftable'[g].ref = ftable[g].ref - Cardinality(FdsOf(c, g)) + Cardinality(FdsOf(c, g)')
    <3>1. FdsOf(c, g) = {}
      BY <1>5 DEF FdsOf, File
    <3>2. FdsOf(c, g)' = FdsOf(p, g)
      BY <1>6 DEF FdsOf
    <3>3. Cardinality(FdsOf(c, g)) = 0
      BY <3>1, FS_EmptySet
    <3>4. Cardinality(FdsOf(p, g)) \in Nat
      BY <1>2, FileHeld
    <3>5. ftable[g].ref \in Nat
      BY <1>2 DEF Types, Files
    <3>6. Cardinality(FdsOf(c, g)') = Cardinality(FdsOf(p, g))
      BY <3>2
    <3>7. ftable'[g].ref = ftable[g].ref + Cardinality(FdsOf(p, g))
      BY <1>7 DEF Shared
    <3>8. QED BY <3>3, <3>4, <3>5, <3>6, <3>7
  <2>2. QED BY <2>1 DEF FilesMove
<1>11. ASSUME NEW x \in Slot PROVE FilesOf(x)' = FilesOf(x)
  BY <1>7 DEF FilesOf, Shared
<1>12. SlotsMove(c)
  <2>1. ASSUME NEW x \in Slot
        PROVE  /\ Cardinality(FilesOf(x)') \in Nat
               /\ itable'[x].ref = itable[x].ref - (Cardinality(FilesOf(x)) + Held(c, x))
                                   + (Cardinality(FilesOf(x)') + Held(c, x)')
    <3>1. Held(c, x) = 0
      <4>1. Held(c, x) = HeldHere(st[c], cwd[c], x)
        BY <1>1, <1>2, HeldNow
      <4>2. cwd[c] # x
        BY <1>5
      <4>3. QED BY <1>1, <4>1, <4>2 DEF HeldHere, HoldsAt, HoldsDp, HoldsIp, One
    <3>2. Held(c, x)' = One(s = x)
      <4>1. HeldBy(st'[c], cwd'[c], x) = One(cwd'[c] = x) + Tokened(st'[c].todo, x)
        <5>1. PICK r : r = st'[c]
          OBVIOUS
        <5>2. r.todo \in Seq(Items) /\ r.pc = "user"
          BY <1>8, <5>1, TodoNone
        <5>3. HeldBy(r, cwd'[c], x) = One(cwd'[c] = x) + Tokened(r.todo, x)
          BY <5>2, HeldOutside
        <5>4. QED BY <5>1, <5>3
      <4>2. Tokened(st'[c].todo, x) = 0
        BY <1>8, TodoNone
      <4>3. QED BY <1>5, <4>1, <4>2 DEF Held, One
    <3>3. itable'[x].ref = itable[x].ref + One(s = x) /\ itable[x].ref \in Nat
      BY <1>2, <1>9 DEF Types, Slots
    <3>4. Cardinality(FilesOf(x)') = Cardinality(FilesOf(x)) /\ Cardinality(FilesOf(x)) \in Nat
      BY <1>11, FilesFinite
    <3>5. QED BY <3>1, <3>2, <3>3, <3>4 DEF One
  <2>2. QED BY <2>1 DEF SlotsMove
<1>13. FilesStay /\ FilesNew
  BY <1>2, <1>7 DEF FilesStay, FilesNew, Shared, Types, Files
<1>14. Local(c)'
  <2>1. TodoOK(st'[c].todo) /\ SlotsOf(st'[c].todo, Unlocks) = {}
    BY <1>8, TodoNone
  <2>2. QED BY <1>4, <1>5, <1>8, <2>1, UserLocal
<1>15. PICK W : W = {}
  OBVIOUS
<1>16. Keeps(c, W, itable', disk') /\ Fills(c, W) /\ Sound(disk') /\ inop' \subseteq Proc
  BY <1>1, <1>2, <1>9, <1>15 DEF Fills, Types
<1>17. SlotsOf(st'[c].todo, {"invalid"}) = {} /\ durable' = durable /\ lost' = lost
  BY <1>1, <1>8, TodoNone
<1>18. \A q \in Proc : q # c => st'[q] = st[q] /\ ofile'[q] = ofile[q] /\ cwd'[q] = cwd[q]
  BY <1>5, <1>6, <1>8
<1>19. QED BY <1>1, <1>5, <1>6, <1>7, <1>8, <1>10, <1>12, <1>13, <1>14, <1>16, <1>17, <1>18, FileStep

\* The slot has a reference besides the one that the next item of p gives up.
NextItem(p) == Head(st[p].todo)
Besides(p, x) == itable[x].ref > One(NextItem(p).do \in Tokens /\ NextItem(p).slot = x)
\* What an item must leave as it is for those who refer to a slot.
Spares(p) == \A x \in Slot : Besides(p, x) =>
    /\ TypeOf(x)' = TypeOf(x)
    /\ itable[x].lock # NoProc /\ ~ (NextItem(p).do \in Unlocks /\ NextItem(p).slot = x) =>
          itable'[x].lock = itable[x].lock

-----------------------------------------------------------------------------
(* The items of todo.                                                      *)
\* The references when an item is done.
LEMMA ItemHeld ==
  ASSUME IInv, NEW p \in Proc, st[p].todo # <<>>, NEW x \in Slot
  PROVE  /\ \A q \in Proc : q # p /\ Held(q, x) >= 1 => Besides(p, x)
         /\ Held(p, x) >= Tokened(st[p].todo, x) + 1 => Besides(p, x)
         /\ Tokened(Tail(st[p].todo), x) >= 1 => Besides(p, x)
         /\ Cardinality(FilesOf(x)) >= 1 => Besides(p, x)
         /\ NextItem(p).do \in Unlocks /\ NextItem(p).slot = x => itable[x].lock = p
<1> DEFINE h == NextItem(p)
           n == One(h.do \in Tokens /\ h.slot = x)
           rest == Tail(st[p].todo)
<1>1. Types /\ Counted /\ Local(p) /\ TodoOK(st[p].todo) /\ st[p].todo \in Seq(Items)
  BY DEF IInv, Local, Types, Control
<1>2. /\ Tokened(st[p].todo, x) = n + Tokened(rest, x) /\ rest \in Seq(Items)
      /\ h.do \in Unlocks => h.slot \in SlotsOf(st[p].todo, Unlocks)
  <2>1. \A W : SlotsOf(st[p].todo, W) = (IF h.do \in W THEN {h.slot} ELSE {}) \cup SlotsOf(rest, W)
    BY <1>1, TodoTail DEF NextItem
  <2>2. Tokened(st[p].todo, x) = n + Tokened(rest, x) /\ rest \in Seq(Items)
    BY <1>1, TodoTail DEF NextItem
  <2>3. QED BY <2>1, <2>2
<1>3. Tokened(rest, x) \in Nat
  BY <1>2, TodoFinite
<1>4. n \in Nat
  BY DEF One
<1>5. Held(p, x) >= Tokened(st[p].todo, x) /\ Held(p, x) \in Nat
  BY <1>1, Holds, HeldFun
<1>6. /\ \A q \in Proc : q # p => itable[x].ref >= Held(p, x) + Held(q, x) /\ Held(q, x) \in Nat
      /\ itable[x].ref >= Held(p, x) + Cardinality(FilesOf(x))
      /\ Cardinality(FilesOf(x)) \in Nat /\ itable[x].ref \in Nat
  BY <1>1, RefsAtLeast
<1>7. Besides(p, x) <=> itable[x].ref > n
  BY DEF Besides
<1>8. h.do \in Unlocks /\ h.slot = x => itable[x].lock = p
  BY <1>1, <1>2 DEF Local, Locked
<1>9. NextItem(p).do \in Unlocks /\ NextItem(p).slot = x => itable[x].lock = p
  BY <1>8
<1> HIDE DEF n, rest, h
<1>10. ASSUME NEW q \in Proc, q # p, Held(q, x) >= 1 PROVE Besides(p, x)
  BY <1>2, <1>3, <1>4, <1>5, <1>6, <1>7, <1>10
<1>11. Held(p, x) >= Tokened(st[p].todo, x) + 1 => Besides(p, x)
  BY <1>2, <1>3, <1>4, <1>5, <1>6, <1>7
<1>12. Tokened(rest, x) >= 1 => Besides(p, x)
  BY <1>2, <1>3, <1>4, <1>5, <1>6, <1>7
<1>13. Cardinality(FilesOf(x)) >= 1 => Besides(p, x)
  BY <1>2, <1>3, <1>4, <1>5, <1>6, <1>7
<1>14. QED BY <1>9, <1>10, <1>11, <1>12, <1>13 DEF rest

\* What the other processes rely on is kept when an item is done.
LEMMA ItemElsewhere ==
  ASSUME IInv, NEW p \in Proc, st[p].todo # <<>>, Spares(p), ftable' = ftable, ofile' = ofile, cwd' = cwd,
         NEW q \in Proc, q # p, st'[q] = st[q]
  PROVE  Local(q)'
<1>1. Types /\ Local(q)
  BY DEF IInv
<1>2. ASSUME NEW x \in Slot, Held(q, x) >= 1
      PROVE  /\ TypeOf(x)' = TypeOf(x)
             /\ itable[x].lock = q => itable'[x].lock = q
  <2>1. Besides(p, x)
    BY <1>2, ItemHeld
  <2>2. TypeOf(x)' = TypeOf(x)
    BY <2>1 DEF Spares
  <2>3. ASSUME itable[x].lock = q PROVE itable'[x].lock = q
    <3>1. ~ (NextItem(p).do \in Unlocks /\ NextItem(p).slot = x)
      BY <2>3, ItemHeld
    <3>2. q # NoProc
      BY FileSysAssumption
    <3>3. QED BY <2>1, <2>3, <3>1, <3>2 DEF Spares
  <2>4. QED BY <2>2, <2>3
<1>3. TodoOK(st'[q].todo) /\ CallOK(st'[q])
  BY <1>1 DEF Local
<1>4. Locked(q)'
  <2>1. \A x \in SlotsOf(st[q].todo, Unlocks) : itable'[x].lock = q
    <3>1. ASSUME NEW x \in SlotsOf(st[q].todo, Unlocks) PROVE itable'[x].lock = q
      <4>1. x \in Slot /\ Held(q, x) >= 1
        BY <1>1, LocksAreHeld
      <4>2. itable[x].lock = q
        BY <1>1 DEF Local, Locked
      <4>3. QED BY <1>2, <4>1, <4>2
    <3>2. QED BY <3>1
  <2>2. \A x \in PcLocks(st[q]) : itable'[x].lock = q
    <3>1. ASSUME NEW x \in PcLocks(st[q]) PROVE itable'[x].lock = q
      <4>1. x \in Slot /\ Held(q, x) >= 1
        BY <1>1, LocksAreHeld
      <4>2. itable[x].lock = q
        BY <1>1 DEF Local, Locked
      <4>3. QED BY <1>2, <4>1, <4>2
    <3>2. QED BY <3>1
  <2>3. \A x \in PcLocks(st[q]) : x \notin SlotsOf(st[q].todo, Unlocks)
    BY <1>1 DEF Local, Locked
  <2>4. QED BY <2>1, <2>2, <2>3 DEF Locked
<1>5. Holding(q)'
  <2>1. Holding(q)
    BY <1>1 DEF Local
  <2>2. HoldsDp(st[q]) => TypeOf(st[q].dp)' = TypeOf(st[q].dp)
    <3>1. ASSUME HoldsDp(st[q]) PROVE TypeOf(st[q].dp)' = TypeOf(st[q].dp)
      <4>1. PICK x : x = st[q].dp
        OBVIOUS
      <4>2. x \in Slot
        BY <2>1, <3>1, <4>1 DEF Holding
      <4>3. Held(q, x) >= 1
        BY <1>1, <3>1, <4>1, Holds
      <4>4. TypeOf(x)' = TypeOf(x)
        BY <1>2, <4>2, <4>3
      <4>5. QED BY <4>1, <4>4 DEF TypeOf
    <3>2. QED BY <3>1
  <2>3. HoldsIp(st[q]) => TypeOf(st[q].ip)' = TypeOf(st[q].ip)
    <3>1. ASSUME HoldsIp(st[q]) PROVE TypeOf(st[q].ip)' = TypeOf(st[q].ip)
      <4>1. PICK x : x = st[q].ip
        OBVIOUS
      <4>2. x \in Slot
        BY <2>1, <3>1, <4>1 DEF Holding
      <4>3. Held(q, x) >= 1
        BY <1>1, <3>1, <4>1, Holds
      <4>4. TypeOf(x)' = TypeOf(x)
        BY <1>2, <4>2, <4>3
      <4>5. QED BY <4>1, <4>4 DEF TypeOf
    <3>2. QED BY <3>1
  <2>4. st[q].pc \in {"fill", "made", "unlinked"} => HoldsIp(st[q])
    BY DEF HoldsIp
  <2>5. QED BY <2>1, <2>2, <2>3, <2>4 DEF Holding, TypeOf
<1>6. Using(q)'
  BY <1>1 DEF Local, Using
<1>7. QED BY <1>3, <1>4, <1>5, <1>6 DEF Local

\* All of a process but its list is the same.
SameButTodo(r2, r) == /\ r2.pc = r.pc /\ r2.calls = r.calls /\ r2.call = r.call /\ r2.path = r.path
                      /\ r2.parent = r.parent /\ r2.at = r.at /\ r2.ip = r.ip /\ r2.dp = r.dp
                      /\ r2.off = r.off /\ r2.fd = r.fd /\ r2.n = r.n

\* The control state with the rest of the list.
LEMMA TodoSet ==
  ASSUME Types, NEW p \in Proc, NEW t \in Seq(Items), st' = [st EXCEPT ![p].todo = t]
  PROVE  /\ st' \in [Proc -> Control] /\ st'[p].todo = t /\ SameButTodo(st'[p], st[p])
         /\ \A q \in Proc : q # p => st'[q] = st[q]
<1>1. st[p] \in Control /\ st \in [Proc -> Control]
  BY DEF Types
<1>2. PICK r : r = [st[p] EXCEPT !.todo = t]
  OBVIOUS
<1>3. r \in Control /\ r.todo = t /\ SameButTodo(r, st[p])
  BY <1>1, <1>2 DEF Control, SameButTodo
<1>4. st' = [st EXCEPT ![p] = r]
  BY <1>2
<1>5. QED BY <1>1, <1>3, <1>4

\* What p itself relies on is kept.
LEMMA ItemHere ==
  ASSUME IInv, NEW p \in Proc, st[p].todo # <<>>, Spares(p), ftable' = ftable, ofile' = ofile, cwd' = cwd,
         SameButTodo(st'[p], st[p]), TodoOK(st'[p].todo),
         \A x \in SlotsOf(st'[p].todo, Unlocks) : itable'[x].lock = p /\ x \notin PcLocks(st[p])
  PROVE  Local(p)'
<1>1. Types /\ Local(p)
  BY DEF IInv
<1>2. CallOK(st'[p])
  BY <1>1 DEF Local, CallOK, SameButTodo
<1>3. PcLocks(st'[p]) = PcLocks(st[p])
  BY DEF PcLocks, SameButTodo
<1>4. Locked(p)'
  <2>1. ASSUME NEW x \in PcLocks(st[p]) PROVE itable'[x].lock = p
    <3>1. x \in Slot /\ Held(p, x) >= Tokened(st[p].todo, x) + 1
      BY <1>1, LocksAreHeld
    <3>2. Besides(p, x)
      BY <3>1, ItemHeld
    <3>3. itable[x].lock = p /\ x \notin SlotsOf(st[p].todo, Unlocks)
      BY <1>1 DEF Local, Locked
    <3>4. ~ (NextItem(p).do \in Unlocks /\ NextItem(p).slot = x)
      <4>1. st[p].todo \in Seq(Items) /\ TodoOK(st[p].todo)
        BY <1>1 DEF Types, Control, Local
      <4>2. \A W : SlotsOf(st[p].todo, W) = (IF NextItem(p).do \in W THEN {NextItem(p).slot} ELSE {})
                                            \cup SlotsOf(Tail(st[p].todo), W)
        BY <4>1, TodoTail DEF NextItem
      <4>3. QED BY <3>3, <4>2
    <3>5. p # NoProc
      BY FileSysAssumption
    <3>6. QED BY <3>1, <3>2, <3>3, <3>4, <3>5 DEF Spares
  <2>2. QED BY <1>3, <2>1 DEF Locked
<1>5. Holding(p)'
  <2>1. Holding(p)
    BY <1>1 DEF Local
  <2>3. HoldsDp(st[p]) => disk'.inode[itable'[st[p].dp].inum].type = TypeOf(st[p].dp)
    <3>1. ASSUME HoldsDp(st[p]) PROVE disk'.inode[itable'[st[p].dp].inum].type = TypeOf(st[p].dp)
      <4>1. PICK x : x = st[p].dp
        OBVIOUS
      <4>2. x \in Slot
        BY <2>1, <3>1, <4>1 DEF Holding
      <4>3. Held(p, x) >= Tokened(st[p].todo, x) + 1
        BY <1>1, <3>1, <4>1, Holds
      <4>4. TypeOf(x)' = TypeOf(x)
        BY <4>2, <4>3, ItemHeld DEF Spares
      <4>5. QED BY <4>1, <4>4 DEF TypeOf
    <3>2. QED BY <3>1
  <2>4. HoldsIp(st[p]) => disk'.inode[itable'[st[p].ip].inum].type = TypeOf(st[p].ip)
    <3>1. ASSUME HoldsIp(st[p]) PROVE disk'.inode[itable'[st[p].ip].inum].type = TypeOf(st[p].ip)
      <4>1. PICK x : x = st[p].ip
        OBVIOUS
      <4>2. x \in Slot
        BY <2>1, <3>1, <4>1 DEF Holding
      <4>3. Held(p, x) >= Tokened(st[p].todo, x) + 1
        BY <1>1, <3>1, <4>1, Holds
      <4>4. TypeOf(x)' = TypeOf(x)
        BY <4>2, <4>3, ItemHeld DEF Spares
      <4>5. QED BY <4>1, <4>4 DEF TypeOf
    <3>2. QED BY <3>1
  <2>5. st[p].pc \in {"fill", "made", "unlinked"} => HoldsIp(st[p])
    BY DEF HoldsIp
  <2>6. /\ HoldsAt(st'[p]) = HoldsAt(st[p]) /\ HoldsDp(st'[p]) = HoldsDp(st[p])
        /\ HoldsIp(st'[p]) = HoldsIp(st[p])
    BY DEF SameButTodo, HoldsAt, HoldsDp, HoldsIp
  <2>7. QED BY <2>1, <2>3, <2>4, <2>5, <2>6 DEF Holding, TypeOf, SameButTodo
<1>6. Using(p)'
  BY <1>1 DEF Local, Using, SameButTodo
<1>7. QED BY <1>2, <1>4, <1>5, <1>6 DEF Local

\* A step that does an item.
LEMMA ItemStep ==
  ASSUME IInv, NEW p \in Proc, st[p].todo # <<>>, Spares(p),
         NEW t \in Seq(Items), TodoOK(t), st' = [st EXCEPT ![p].todo = t],
         \A x \in SlotsOf(t, Unlocks) : itable'[x].lock = p /\ x \notin PcLocks(st[p]),
         itable' \in Tables,
         \A x \in Slot : itable'[x].ref > 0 => itable[x].ref > 0 /\ itable'[x].inum = itable[x].inum,
         \A x \in Slot : itable'[x].ref = itable[x].ref - Tokened(st[p].todo, x) + Tokened(t, x),
         inop' \subseteq Proc, ftable' = ftable, ofile' = ofile, cwd' = cwd,
         Sound(disk'), Sound(durable'), Agree', Kept'
  PROVE  IInv'
<1>1. Types /\ Counted /\ Named2 /\ FilesTyped /\ FilesOK
  BY DEF IInv
<1>2. /\ st' \in [Proc -> Control] /\ st'[p].todo = t /\ SameButTodo(st'[p], st[p])
      /\ \A q \in Proc : q # p => st'[q] = st[q]
  BY <1>1, TodoSet
<1>3. Types'
  BY <1>1, <1>2 DEF Types, Tables
<1>4. Named2'
  BY <1>1 DEF Named2
<1>5. FilesOK'
  BY <1>1 DEF FilesOK, FdsOf
<1>6. FilesTyped'
  <2>1. ASSUME NEW f \in File, ftable[f].ref > 0
        PROVE  TypeOf(ftable[f].ip)' = TypeOf(ftable[f].ip)
    <3>1. PICK x : x = ftable[f].ip
      OBVIOUS
    <3>2. x \in Slot
      BY <1>1, <2>1, <3>1 DEF FilesTyped
    <3>3. Cardinality(FilesOf(x)) >= 1
      BY <1>1, <2>1, <3>1, <3>2, FileRefs
    <3>4. TypeOf(x)' = TypeOf(x)
      BY <3>2, <3>3, ItemHeld DEF Spares
    <3>5. QED BY <3>1, <3>4 DEF TypeOf
  <2>2. QED BY <1>1, <2>1 DEF FilesTyped, TypeOf
<1>7. Counted'
  <2>1. ASSUME NEW x \in Slot
        PROVE  /\ Cardinality(FilesOf(x)') \in Nat
               /\ itable'[x].ref = itable[x].ref - (Cardinality(FilesOf(x)) + Held(p, x))
                                   + (Cardinality(FilesOf(x)') + Held(p, x)')
    <3>1. FilesOf(x)' = FilesOf(x)
      BY DEF FilesOf
    <3>2. Cardinality(FilesOf(x)') = Cardinality(FilesOf(x)) /\ Cardinality(FilesOf(x)) \in Nat
      BY <3>1, FilesFinite
    <3>3. /\ Held(p, x) = HeldHere(st[p], cwd[p], x) + Tokened(st[p].todo, x)
          /\ HeldHere(st[p], cwd[p], x) \in Nat /\ Tokened(st[p].todo, x) \in Nat
      <4>1. st[p].todo \in Seq(Items)
        BY <1>1 DEF Types, Control
      <4>2. QED BY <4>1, HeldParts, TodoFinite DEF Held
    <3>4. /\ Held(p, x)' = HeldHere(st[p], cwd[p], x) + Tokened(t, x) /\ Tokened(t, x) \in Nat
      <4>1. PICK r : r = st'[p]
        OBVIOUS
      <4>1a. r.todo = t /\ r.todo \in Seq(Items)
        BY <1>2, <4>1
      <4>2. HeldBy(r, cwd[p], x) = HeldHere(r, cwd[p], x) + Tokened(r.todo, x)
        BY <4>1a, HeldParts
      <4>3. HeldHere(r, cwd[p], x) = HeldHere(st[p], cwd[p], x)
        BY <1>2, <4>1 DEF HeldHere, HoldsAt, HoldsDp, HoldsIp, SameButTodo
      <4>4. Held(p, x)' = HeldBy(r, cwd[p], x)
        BY <4>1 DEF Held
      <4>5. QED BY <1>2, <4>1, <4>2, <4>3, <4>4, TodoFinite
    <3>5. itable'[x].ref = itable[x].ref - Tokened(st[p].todo, x) + Tokened(t, x) /\ itable[x].ref \in Nat
      BY <1>1 DEF Types, Slots
    <3>6. QED BY <3>2, <3>3, <3>4, <3>5
  <2>2. \A q \in Proc : q # p => st'[q] = st[q] /\ cwd'[q] = cwd[q]
    BY <1>2
  <2>3. QED BY <1>1, <1>3, <2>1, <2>2, CountedStep
<1>8. \A q \in Proc : Local(q)'
  <2>1. ASSUME NEW q \in Proc PROVE Local(q)'
    <3>1. CASE q = p
      <4>1. Local(p)'
        BY <1>2, ItemHere
      <4>2. QED BY <3>1, <4>1
    <3>2. CASE q # p
      BY <1>2, <3>2, ItemElsewhere
    <3>3. QED BY <3>1, <3>2
  <2>2. QED BY <2>1
<1>9. QED BY <1>3, <1>4, <1>5, <1>6, <1>7, <1>8 DEF IInv

\* What is left to do after the next item.
LEMMA NextFacts ==
  ASSUME IInv, NEW p \in Proc, st[p].todo # <<>>, NEW h, NextItem(p) = h, NEW rest, Tail(st[p].todo) = rest
  PROVE  /\ h.do \in Tokens \cup Unlocks \cup {"end_op"} /\ h.slot \in 0 .. NINODE
         /\ h.do # "end_op" => h.slot \in Slot
         /\ rest \in Seq(Items) /\ TodoOK(rest)
         /\ \A s : Tokened(st[p].todo, s) = One(h.do \in Tokens /\ h.slot = s) + Tokened(rest, s)
         /\ \A W : SlotsOf(st[p].todo, W) = (IF h.do \in W THEN {h.slot} ELSE {}) \cup SlotsOf(rest, W)
         /\ h.do \in Unlocks => h.slot \in SlotsOf(rest, Tokens) /\ h.slot \notin SlotsOf(rest, Unlocks)
<1>1. st[p].todo \in Seq(Items) /\ TodoOK(st[p].todo)
  BY DEF IInv, Types, Control, Local
<1>2. QED BY <1>1, TodoTail DEF NextItem

\* The inodes that are locked until a later item are still.
LEMMA RestLocked ==
  ASSUME IInv, NEW p \in Proc, st[p].todo # <<>>, Spares(p)
  PROVE  \A x \in SlotsOf(Tail(st[p].todo), Unlocks) :
             x \in Slot /\ Besides(p, x) /\ itable[x].lock = p /\ itable'[x].lock = p /\ x \notin PcLocks(st[p])
<1> DEFINE rest == Tail(st[p].todo)
<1>1. Types /\ Local(p) /\ p # NoProc
  BY FileSysAssumption DEF IInv
<1>2. PICK h : NextItem(p) = h
  OBVIOUS
<1>3. /\ rest \in Seq(Items) /\ TodoOK(rest)
      /\ SlotsOf(rest, Unlocks) \subseteq SlotsOf(st[p].todo, Unlocks)
      /\ h.do \in Unlocks => h.slot \notin SlotsOf(rest, Unlocks)
  <2>1. PICK r : Tail(st[p].todo) = r
    OBVIOUS
  <2>2. /\ r \in Seq(Items) /\ TodoOK(r)
        /\ \A W : SlotsOf(st[p].todo, W) = (IF h.do \in W THEN {h.slot} ELSE {}) \cup SlotsOf(r, W)
        /\ h.do \in Unlocks => h.slot \notin SlotsOf(r, Unlocks)
    BY <1>2, <2>1, NextFacts
  <2>3. QED BY <2>1, <2>2
<1> HIDE DEF rest
<1>4. ASSUME NEW x \in SlotsOf(rest, Unlocks)
      PROVE  x \in Slot /\ Besides(p, x) /\ itable[x].lock = p /\ itable'[x].lock = p /\ x \notin PcLocks(st[p])
  <2>1. x \in Slot /\ x \in SlotsOf(rest, Tokens)
    BY <1>3, UnlocksHaveTokens
  <2>2. Tokened(rest, x) >= 1
    BY <1>3, <2>1, TodoFinite
  <2>3. Besides(p, x)
    BY <2>1, <2>2, ItemHeld DEF rest
  <2>4. itable[x].lock = p /\ x \notin PcLocks(st[p])
    BY <1>1, <1>3 DEF Local, Locked
  <2>5. ~ (NextItem(p).do \in Unlocks /\ NextItem(p).slot = x)
    BY <1>2, <1>3
  <2>6. QED BY <1>1, <2>1, <2>3, <2>4, <2>5 DEF Spares
<1>5. QED BY <1>4 DEF rest

\* An inode without a name whose slot is given up was not in its last reference.
LEMMA OrphanStays ==
  ASSUME IInv, NEW p \in Proc, st[p].todo # <<>>, NEW s \in Slot, itable[s].ref > 0,
         itable[s].inum \in Orphans(disk), Steady(s) \/ Filling(s)
  PROVE  Besides(p, s) \/ LastRef(s)
<1>1. Types /\ Agree /\ Local(p)
  BY DEF IInv
<1>2. CASE Filling(s)
  <2>1. PICK q \in Proc : st[q].pc = "fill" /\ st[q].ip = s
    BY <1>2 DEF Filling
  <2>2. Held(q, s) >= 1 /\ Held(q, s) >= Tokened(st[q].todo, s) + 1
    <3>1. HoldsIp(st[q]) /\ st[q].ip = s
      BY <2>1 DEF HoldsIp
    <3>2. QED BY <1>1, <3>1, Holds
  <2>3. Besides(p, s)
    <3>1. CASE q = p
      BY <2>2, <3>1, ItemHeld
    <3>2. CASE q # p
      BY <2>2, <3>2, ItemHeld
    <3>3. QED BY <3>1, <3>2
  <2>4. QED BY <2>3
<1>3. CASE Steady(s)
  <2>1. itable[s].valid /\ itable[s].d.nlink = 0
    BY <1>1, <1>3 DEF Agree, Steady, Orphans
  <2>2. CASE itable[s].ref = 1
    BY <2>1, <2>2 DEF LastRef
  <2>3. CASE itable[s].ref # 1
    <3>1. itable[s].ref > 1
      BY <1>1, <2>3 DEF Types, Slots
    <3>2. QED BY <3>1 DEF Besides, One
  <2>4. QED BY <2>2, <2>3
<1>4. QED BY <1>2, <1>3

\* An item that leaves the image alone.
LEMMA PlainItem ==
  ASSUME IInv, NEW p \in Proc, st[p].todo # <<>>, NextItem(p).do # "invalid", Next1(p, <<>>),
         disk' = disk, itable' \in Tables,
         \A x \in Slot : Besides(p, x) /\ itable[x].lock # NoProc
                           /\ ~ (NextItem(p).do \in Unlocks /\ NextItem(p).slot = x) =>
                             itable'[x].lock = itable[x].lock,
         \A x \in Slot : itable'[x].ref > 0 =>
             /\ itable[x].ref > 0 /\ itable'[x].inum = itable[x].inum
             /\ itable'[x].valid = itable[x].valid /\ itable'[x].d = itable[x].d,
         \A x \in Slot : itable'[x].ref = itable[x].ref - One(NextItem(p).do \in Tokens /\ NextItem(p).slot = x),
         lost \subseteq lost',
         \A x \in Slot : itable[x].ref > 0 /\ LastRef(x) /\ ~ Besides(p, x) => itable[x].inum \in lost',
         inop' \subseteq Proc, ftable' = ftable, ofile' = ofile, cwd' = cwd, Sound(durable')
  PROVE  IInv'
<1>0. Types /\ Sound(disk) /\ Agree /\ Kept /\ st[p].todo \in Seq(Items)
  BY DEF IInv, Types, Control
<1>1. PICK rest : Tail(st[p].todo) = rest
  OBVIOUS
<1>2. PICK h : NextItem(p) = h
  OBVIOUS
<1>3. /\ rest \in Seq(Items) /\ TodoOK(rest)
      /\ \A s : Tokened(st[p].todo, s) = One(h.do \in Tokens /\ h.slot = s) + Tokened(rest, s)
      /\ \A W : SlotsOf(st[p].todo, W) = (IF h.do \in W THEN {h.slot} ELSE {}) \cup SlotsOf(rest, W)
  BY <1>1, <1>2, NextFacts
<1>4. st' = [st EXCEPT ![p].todo = rest]
  <2>1. st' = [st EXCEPT ![p].todo = <<>> \o Tail(@)]
    BY DEF Next1
  <2>2. <<>> \o Tail(st[p].todo) = rest
    BY <1>1, <1>3
  <2>3. QED BY <2>1, <2>2
<1>5. Spares(p)
  <2>1. ASSUME NEW x \in Slot, Besides(p, x) PROVE TypeOf(x)' = TypeOf(x)
    <3>1. itable'[x].ref > 0
      <4>1. itable'[x].ref = itable[x].ref - One(NextItem(p).do \in Tokens /\ NextItem(p).slot = x)
        OBVIOUS
      <4>2. itable[x].ref > One(NextItem(p).do \in Tokens /\ NextItem(p).slot = x)
        BY <2>1 DEF Besides
      <4>3. itable[x].ref \in Nat
        BY <1>0 DEF Types, Slots
      <4>4. QED BY <4>1, <4>2, <4>3 DEF One
    <3>2. QED BY <3>1 DEF TypeOf
  <2>2. QED BY <2>1 DEF Spares
<1>6. \A x \in SlotsOf(rest, Unlocks) : itable'[x].lock = p /\ x \notin PcLocks(st[p])
  BY <1>1, <1>5, RestLocked
<1>7. \A x \in Slot : itable'[x].ref = itable[x].ref - Tokened(st[p].todo, x) + Tokened(rest, x)
  <2>1. ASSUME NEW x \in Slot PROVE itable'[x].ref = itable[x].ref - Tokened(st[p].todo, x) + Tokened(rest, x)
    <3>1. itable'[x].ref = itable[x].ref - One(h.do \in Tokens /\ h.slot = x)
      BY <1>2
    <3>2. itable[x].ref \in Nat /\ Tokened(rest, x) \in Nat
      BY <1>0, <1>3, TodoFinite DEF Types, Slots
    <3>3. QED BY <1>3, <3>1, <3>2 DEF One
  <2>2. QED BY <2>1
<1>8. /\ st'[p].todo = rest /\ SameButTodo(st'[p], st[p])
      /\ \A q \in Proc : q # p => st'[q] = st[q]
  BY <1>0, <1>3, <1>4, TodoSet
<1>9. ASSUME NEW x \in Slot PROVE Going(x)' = Going(x) /\ Filling(x)' = Filling(x)
  <2>1. SlotsOf(rest, {"invalid"}) = SlotsOf(st[p].todo, {"invalid"})
    <3>1. PICK W : W = {"invalid"}
      OBVIOUS
    <3>2. h.do \notin W
      BY <1>2, <3>1
    <3>3. SlotsOf(st[p].todo, W) = (IF h.do \in W THEN {h.slot} ELSE {}) \cup SlotsOf(rest, W)
      BY <1>3
    <3>4. SlotsOf(rest, W) = SlotsOf(st[p].todo, W)
      BY <3>2, <3>3
    <3>5. QED BY <3>1, <3>4
  <2>2. \A q \in Proc : SlotsOf(st'[q].todo, {"invalid"}) = SlotsOf(st[q].todo, {"invalid"})
    BY <1>8, <2>1
  <2>3. \A q \in Proc : st'[q].pc = st[q].pc /\ st'[q].ip = st[q].ip
    BY <1>8 DEF SameButTodo
  <2>4. QED BY <2>2, <2>3 DEF Going, Filling
<1>10. Agree'
  BY <1>0, <1>9 DEF Agree, Steady
<1>11. Kept'
  <2>1. ASSUME NEW i \in Orphans(disk) \ lost'
        PROVE  \E s \in Slot : itable'[s].ref > 0 /\ itable'[s].inum = i /\ (Steady(s)' \/ Filling(s)')
    <3>1. PICK s \in Slot : itable[s].ref > 0 /\ itable[s].inum = i /\ (Steady(s) \/ Filling(s))
      BY <1>0, <2>1 DEF Kept
    <3>2. Besides(p, s)
      <4>1. Besides(p, s) \/ LastRef(s)
        BY <2>1, <3>1, OrphanStays
      <4>2. QED BY <2>1, <3>1, <4>1
    <3>3. itable'[s].ref > 0
      <4>1. itable'[s].ref = itable[s].ref - One(NextItem(p).do \in Tokens /\ NextItem(p).slot = s)
        OBVIOUS
      <4>2. itable[s].ref > One(NextItem(p).do \in Tokens /\ NextItem(p).slot = s)
        BY <3>2 DEF Besides
      <4>3. itable[s].ref \in Nat
        BY <1>0 DEF Types, Slots
      <4>4. QED BY <4>1, <4>2, <4>3 DEF One
    <3>4. Steady(s)' = Steady(s) /\ Filling(s)' = Filling(s)
      BY <1>9, <3>3 DEF Steady
    <3>5. QED BY <3>1, <3>3, <3>4
  <2>2. Orphans(disk') = Orphans(disk)
    OBVIOUS
  <2>3. QED BY <2>1, <2>2 DEF Kept
<1>12. QED BY <1>0, <1>3, <1>4, <1>5, <1>6, <1>7, <1>10, <1>11, ItemStep

\* One reference less.
Dropped(T, T2, s) == /\ T2 \in Tables /\ T2[s].ref = T[s].ref - 1
                     /\ \A x \in Slot : x # s => T2[x] = T[x]
                     /\ T[s].ref > 1 => /\ T2[s].inum = T[s].inum /\ T2[s].valid = T[s].valid
                                        /\ T2[s].d = T[s].d /\ T2[s].lock = T[s].lock
\* Decr() gives up one reference.
LEMMA DecrDrops ==
  ASSUME NEW T \in Tables, NEW s \in Slot, T[s].ref > 0
  PROVE  Dropped(T, Decr(T, s), s)
<1>1. T[s] \in Slots /\ T[s].ref \in Nat
  BY DEF Tables, Slots
<1>2. CASE T[s].ref = 1
  <2>1. Decr(T, s) = [T EXCEPT ![s] = FreeSlot]
    BY <1>2 DEF Decr
  <2>2. FreeSlot \in Slots /\ FreeSlot.ref = 0
    BY FreeInodeType, FsDiskAssumption DEF FreeSlot, Slots
  <2>3. QED BY <1>2, <2>1, <2>2 DEF Dropped, Tables
<1>3. CASE T[s].ref # 1
  <2>1. PICK n \in Nat : n = T[s].ref - 1
    BY <1>1
  <2>2. PICK r : r = [T[s] EXCEPT !.ref = n]
    OBVIOUS
  <2>3. /\ r \in Slots /\ r.ref = n /\ r.inum = T[s].inum /\ r.valid = T[s].valid
        /\ r.d = T[s].d /\ r.lock = T[s].lock
    BY <1>1, <2>2 DEF Slots
  <2>4. Decr(T, s) = [T EXCEPT ![s] = r]
    <3>1. Decr(T, s) = [T EXCEPT ![s] = [T[s] EXCEPT !.ref = T[s].ref - 1]]
      BY <1>3 DEF Decr
    <3>2. QED BY <2>1, <2>2, <3>1
  <2>5. QED BY <2>1, <2>3, <2>4 DEF Dropped, Tables
<1>4. QED BY <1>2, <1>3

\* An item that gives up a reference.
LEMMA DropItem ==
  ASSUME IInv, NEW p \in Proc, st[p].todo # <<>>, NextItem(p).do \in Tokens,
         NEW s, NextItem(p).slot = s, itable' = Decr(itable, s), Next1(p, <<>>),
         lost \subseteq lost', LastRef(s) => itable[s].inum \in lost',
         UNCHANGED <<disk, durable, inop, ftable, ofile, cwd>>
  PROVE  IInv'
<1>1. Types /\ Counted /\ Sound(durable) /\ itable \in Tables
  BY DEF IInv, Types, Tables
<1>2. s \in Slot /\ Tokened(st[p].todo, s) >= 1
  <2>1. PICK h : NextItem(p) = h
    OBVIOUS
  <2>2. PICK rest : Tail(st[p].todo) = rest
    OBVIOUS
  <2>3. /\ h.do # "end_op" => h.slot \in Slot
        /\ rest \in Seq(Items)
        /\ Tokened(st[p].todo, s) = One(h.do \in Tokens /\ h.slot = s) + Tokened(rest, s)
    BY <2>1, <2>2, NextFacts
  <2>4. Tokened(rest, s) \in Nat
    BY <2>3, TodoFinite
  <2>5. QED BY <2>1, <2>3, <2>4 DEF One, Tokens
<1>3. itable[s].ref > 0
  <2>1. Held(p, s) >= 1
    <3>1. Held(p, s) >= Tokened(st[p].todo, s) /\ Held(p, s) \in Nat /\ Tokened(st[p].todo, s) \in Nat
      BY <1>1, Holds, HeldFun
    <3>2. QED BY <1>2, <3>1
  <2>2. QED BY <1>2, <2>1, InUse
<1>4. Dropped(itable, itable', s)
  BY <1>1, <1>2, <1>3, DecrDrops
<1>5. ASSUME NEW x \in Slot
      PROVE  /\ Besides(p, x) <=> (x # s /\ itable[x].ref > 0) \/ itable[x].ref > 1
             /\ itable[x].ref \in Nat
             /\ One(NextItem(p).do \in Tokens /\ NextItem(p).slot = x) = One(s = x)
  BY <1>1 DEF Besides, One, Tables, Slots
<1>6. itable' \in Tables
  BY <1>4 DEF Dropped
<1>7. \A x \in Slot : Besides(p, x) => itable'[x].lock = itable[x].lock
  <2>1. ASSUME NEW x \in Slot, Besides(p, x) PROVE itable'[x].lock = itable[x].lock
    <3>1. CASE x = s
      BY <1>4, <1>5, <2>1, <3>1 DEF Dropped
    <3>2. CASE x # s
      BY <1>4, <3>2 DEF Dropped
    <3>3. QED BY <3>1, <3>2
  <2>2. QED BY <2>1
<1>8. \A x \in Slot : itable'[x].ref > 0 =>
             /\ itable[x].ref > 0 /\ itable'[x].inum = itable[x].inum
             /\ itable'[x].valid = itable[x].valid /\ itable'[x].d = itable[x].d
  <2>1. ASSUME NEW x \in Slot, itable'[x].ref > 0
        PROVE  /\ itable[x].ref > 0 /\ itable'[x].inum = itable[x].inum
               /\ itable'[x].valid = itable[x].valid /\ itable'[x].d = itable[x].d
    <3>1. CASE x = s
      <4>1. itable[s].ref > 1
        BY <1>4, <1>5, <2>1, <3>1 DEF Dropped
      <4>2. QED BY <1>3, <1>4, <3>1, <4>1 DEF Dropped
    <3>2. CASE x # s
      BY <1>4, <2>1, <3>2 DEF Dropped
    <3>3. QED BY <3>1, <3>2
  <2>2. QED BY <2>1
<1>9. \A x \in Slot : itable'[x].ref = itable[x].ref - One(NextItem(p).do \in Tokens /\ NextItem(p).slot = x)
  BY <1>4, <1>5 DEF Dropped, One
<1>10. \A x \in Slot : itable[x].ref > 0 /\ LastRef(x) /\ ~ Besides(p, x) => itable[x].inum \in lost'
  BY <1>5
<1>11. NextItem(p).do # "invalid"
  BY DEF Tokens
<1>12. inop' \subseteq Proc
  BY <1>1 DEF Types
<1>13. QED BY <1>1, <1>6, <1>7, <1>8, <1>9, <1>10, <1>11, <1>12, PlainItem

\* iput() of an inode that has other users or links.
LEMMA IputStep ==
  ASSUME IInv, NEW p \in Proc, Iput(p)
  PROVE  IInv'
<1>1. PICK s : NextItem(p).slot = s
  OBVIOUS
<1>2. /\ st[p].todo # <<>> /\ NextItem(p).do = "iput" /\ ~ LastRef(s)
      /\ itable' = Decr(itable, s) /\ Next1(p, <<>>)
      /\ UNCHANGED <<disk, durable, inop, ftable, ofile, cwd, lost>>
  BY <1>1 DEF Iput, Todo, TodoSlot, NextItem
<1>3. NextItem(p).do \in Tokens
  BY <1>2 DEF Tokens
<1>4. QED BY <1>1, <1>2, <1>3, DropItem

\* iput(): the reference is given up.
LEMMA IputDecrStep ==
  ASSUME IInv, NEW p \in Proc, IputDecr(p)
  PROVE  IInv'
<1>1. PICK s : NextItem(p).slot = s
  OBVIOUS
<1>2. /\ st[p].todo # <<>> /\ NextItem(p).do = "decr"
      /\ itable' = Decr(itable, s) /\ Next1(p, <<>>)
      /\ lost' = IF LastRef(s) THEN lost \cup {itable[s].inum} ELSE lost
      /\ UNCHANGED <<disk, durable, inop, ftable, ofile, cwd>>
  BY <1>1 DEF IputDecr, Todo, TodoSlot, NextItem
<1>3. NextItem(p).do \in Tokens
  BY <1>2 DEF Tokens
<1>4. lost \subseteq lost' /\ (LastRef(s) => itable[s].inum \in lost')
  BY <1>2
<1>5. QED BY <1>1, <1>2, <1>3, <1>4, DropItem

\* iunlock().
LEMMA IunlockStep ==
  ASSUME IInv, NEW p \in Proc, Iunlock(p)
  PROVE  IInv'
<1>1. PICK s : NextItem(p).slot = s
  OBVIOUS
<1>2. /\ st[p].todo # <<>> /\ NextItem(p).do = "iunlock"
      /\ itable' = [itable EXCEPT ![s].lock = NoProc] /\ Next1(p, <<>>)
      /\ UNCHANGED <<disk, durable, inop, ftable, ofile, cwd, lost>>
  BY <1>1 DEF Iunlock, Todo, TodoSlot, NextItem
<1>3. Types /\ itable \in Tables /\ Sound(durable)
  BY DEF IInv, Types, Tables
<1>4. /\ itable' \in Tables
      /\ \A x \in Slot : /\ itable'[x].ref = itable[x].ref /\ itable'[x].inum = itable[x].inum
                         /\ itable'[x].valid = itable[x].valid /\ itable'[x].d = itable[x].d
                         /\ x # s => itable'[x].lock = itable[x].lock
  <2>1. ASSUME NEW x \in Slot
        PROVE  /\ itable'[x] \in Slots
               /\ itable'[x].ref = itable[x].ref /\ itable'[x].inum = itable[x].inum
               /\ itable'[x].valid = itable[x].valid /\ itable'[x].d = itable[x].d
               /\ x # s => itable'[x].lock = itable[x].lock
    <3>1. CASE x = s
      <4>1. itable'[x] = [itable[x] EXCEPT !.lock = NoProc] /\ itable[x] \in Slots
        BY <1>2, <1>3, <3>1 DEF Tables
      <4>2. QED BY <3>1, <4>1 DEF Slots
    <3>2. CASE x # s
      BY <1>2, <1>3, <3>2 DEF Tables
    <3>3. QED BY <3>1, <3>2
  <2>2. itable' \in [Slot -> Slots]
    BY <1>2, <1>3, <2>1 DEF Tables
  <2>3. QED BY <2>1, <2>2 DEF Tables
<1>5. NextItem(p).do \in Unlocks /\ NextItem(p).do \notin Tokens /\ NextItem(p).do # "invalid"
  BY <1>2 DEF Unlocks, Tokens
<1>6. \A x \in Slot : /\ One(NextItem(p).do \in Tokens /\ NextItem(p).slot = x) = 0
                      /\ itable[x].ref \in Nat
                      /\ itable[x].ref > 0 => Besides(p, x)
  BY <1>3, <1>5 DEF One, Besides, Types, Slots
<1>7. inop' \subseteq Proc
  BY <1>2, <1>3 DEF Types
<1>8. \A x \in Slot : itable'[x].ref = itable[x].ref - One(NextItem(p).do \in Tokens /\ NextItem(p).slot = x)
  BY <1>4, <1>6
<1>9. \A x \in Slot : ~ (NextItem(p).do \in Unlocks /\ NextItem(p).slot = x) => itable'[x].lock = itable[x].lock
  BY <1>1, <1>4, <1>5
<1>10. QED BY <1>2, <1>3, <1>4, <1>5, <1>6, <1>7, <1>8, <1>9, PlainItem

\* end_op(): what becomes durable is sound.
LEMMA EndOpKeeps ==
  ASSUME IInv, NEW p \in Proc, EndOpStep(p)
  PROVE  IInv'
<1>1. /\ st[p].todo # <<>> /\ NextItem(p).do = "end_op" /\ Next1(p, <<>>)
      /\ inop' = inop \ {p} /\ (durable' = disk \/ durable' = durable)
      /\ UNCHANGED <<disk, itable, ftable, ofile, cwd, lost>>
  BY DEF EndOpStep, EndOpBy, Todo, NextItem
<1>2. Types /\ itable \in Tables /\ Sound(durable) /\ Sound(disk)
  BY DEF IInv, Types, Tables
<1>3. NextItem(p).do \notin Unlocks /\ NextItem(p).do \notin Tokens /\ NextItem(p).do # "invalid"
  BY <1>1 DEF Unlocks, Tokens
<1>4. \A x \in Slot : /\ One(NextItem(p).do \in Tokens /\ NextItem(p).slot = x) = 0
                      /\ itable[x].ref \in Nat
                      /\ itable[x].ref > 0 => Besides(p, x)
  BY <1>2, <1>3 DEF One, Besides, Types, Slots
<1>5. inop' \subseteq Proc /\ Sound(durable') /\ itable' \in Tables
  BY <1>1, <1>2 DEF Types
<1>6. \A x \in Slot : itable'[x].ref = itable[x].ref - One(NextItem(p).do \in Tokens /\ NextItem(p).slot = x)
  BY <1>1, <1>4
<1>7. QED BY <1>1, <1>3, <1>4, <1>5, <1>6, PlainItem

\* What a process is about to make invalid is what it has locked.
LEMMA GoingLocked ==
  ASSUME IInv, NEW s \in Slot, itable[s].lock = NoProc
  PROVE  ~ Going(s)
<1>1. SUFFICES ASSUME Going(s) PROVE FALSE
  OBVIOUS
<1>2. PICK q \in Proc : s \in SlotsOf(st[q].todo, {"invalid"})
  BY <1>1 DEF Going
<1>3. Types /\ Local(q)
  BY DEF IInv
<1>4. s \in SlotsOf(st[q].todo, Unlocks)
  BY <1>2, <1>3, LocksAreHeld
<1>5. itable[s].lock = q
  BY <1>3, <1>4 DEF Local, Locked
<1>6. QED BY <1>5, FileSysAssumption

\* iput(): the freed inode is no longer valid.
LEMMA IputInvalidStep ==
  ASSUME IInv, NEW p \in Proc, IputInvalid(p)
  PROVE  IInv'
<1>1. PICK s : NextItem(p).slot = s
  OBVIOUS
<1>2. /\ st[p].todo # <<>> /\ NextItem(p).do = "invalid"
      /\ itable' = [itable EXCEPT ![s].valid = FALSE, ![s].lock = NoProc] /\ Next1(p, <<>>)
      /\ UNCHANGED <<disk, durable, inop, ftable, ofile, cwd, lost>>
  BY <1>1 DEF IputInvalid, Todo, TodoSlot, NextItem
<1>3. Types /\ itable \in Tables /\ Sound(durable) /\ Sound(disk) /\ Agree /\ Kept
  BY DEF IInv, Types, Tables
<1>4. PICK rest : Tail(st[p].todo) = rest
  OBVIOUS
<1>5. NextItem(p).do \in Unlocks /\ NextItem(p).do \notin Tokens
  BY <1>2 DEF Unlocks, Tokens
<1>6. PICK W : W = {"invalid"}
  OBVIOUS
<1>7. /\ rest \in Seq(Items) /\ TodoOK(rest) /\ s \in Slot
      /\ \A x : Tokened(st[p].todo, x) = Tokened(rest, x) /\ Tokened(rest, x) \in Nat
      /\ SlotsOf(st[p].todo, W) = {s} \cup SlotsOf(rest, W)
  <2>1. PICK h : NextItem(p) = h
    OBVIOUS
  <2>2. /\ h.do # "end_op" => h.slot \in Slot
        /\ rest \in Seq(Items) /\ TodoOK(rest)
        /\ \A x : Tokened(st[p].todo, x) = One(h.do \in Tokens /\ h.slot = x) + Tokened(rest, x)
        /\ \A V : SlotsOf(st[p].todo, V) = (IF h.do \in V THEN {h.slot} ELSE {}) \cup SlotsOf(rest, V)
    BY <1>2, <1>4, <2>1, NextFacts
  <2>3. h.do \in W /\ h.slot = s /\ h.do # "end_op" /\ h.do \notin Tokens
    BY <1>1, <1>2, <1>5, <1>6, <2>1
  <2>4. \A x : Tokened(rest, x) \in Nat
    BY <2>2, TodoFinite
  <2>5. \A x : Tokened(st[p].todo, x) = Tokened(rest, x)
    BY <2>2, <2>3, <2>4 DEF One
  <2>6. QED BY <2>2, <2>3, <2>4, <2>5
<1>8. st' = [st EXCEPT ![p].todo = rest]
  <2>1. st' = [st EXCEPT ![p].todo = <<>> \o Tail(@)]
    BY <1>2 DEF Next1
  <2>2. <<>> \o Tail(st[p].todo) = rest
    BY <1>4, <1>7
  <2>3. QED BY <2>1, <2>2
<1>9. /\ itable' \in Tables
      /\ \A x \in Slot : /\ itable'[x].ref = itable[x].ref /\ itable'[x].inum = itable[x].inum
                         /\ itable'[x].d = itable[x].d /\ itable[x].ref \in Nat
                         /\ x # s => itable'[x] = itable[x]
      /\ ~ itable'[s].valid
  <2>1. itable[s] \in Slots
    BY <1>3, <1>7 DEF Tables
  <2>2. PICK r : r = [itable[s] EXCEPT !.valid = FALSE, !.lock = NoProc]
    OBVIOUS
  <2>3. r \in Slots /\ r.ref = itable[s].ref /\ r.inum = itable[s].inum /\ r.d = itable[s].d /\ ~ r.valid
    BY <2>1, <2>2 DEF Slots
  <2>4. itable' = [itable EXCEPT ![s] = r]
    BY <1>2, <1>3, <1>7, <2>2 DEF Tables
  <2>5. \A x \in Slot : itable[x].ref \in Nat
    BY <1>3 DEF Tables, Slots
  <2>6. QED BY <1>3, <1>7, <2>3, <2>4, <2>5 DEF Tables
<1>10. Spares(p)
  <2>1. \A x \in Slot : TypeOf(x)' = TypeOf(x)
    BY <1>2, <1>9 DEF TypeOf
  <2>2. \A x \in Slot : ~ (NextItem(p).do \in Unlocks /\ NextItem(p).slot = x) => itable'[x].lock = itable[x].lock
    BY <1>1, <1>5, <1>9
  <2>3. QED BY <2>1, <2>2 DEF Spares
<1>11. \A x \in SlotsOf(rest, Unlocks) : itable'[x].lock = p /\ x \notin PcLocks(st[p])
  BY <1>2, <1>4, <1>10, RestLocked
<1>12. /\ st'[p].todo = rest /\ SameButTodo(st'[p], st[p])
       /\ \A q \in Proc : q # p => st'[q] = st[q]
  BY <1>3, <1>7, <1>8, TodoSet
<1>13. \A x \in Slot : Filling(x)' = Filling(x)
  <2>1. \A q \in Proc : st'[q].pc = st[q].pc /\ st'[q].ip = st[q].ip
    BY <1>12 DEF SameButTodo
  <2>2. QED BY <2>1 DEF Filling
<1>14. ASSUME NEW x \in Slot, x # s PROVE Going(x)' = Going(x)
  <2>1. \A q \in Proc : x \in SlotsOf(st'[q].todo, W) <=> x \in SlotsOf(st[q].todo, W)
    BY <1>7, <1>12, <1>14
  <2>2. QED BY <1>6, <2>1 DEF Going
<1>15. Agree'
  <2>1. ASSUME NEW x \in Slot, itable'[x].ref > 0, itable'[x].valid, ~ Going(x)'
        PROVE  itable'[x].d = disk'.inode[itable'[x].inum] /\ itable'[x].d.type # "none"
    <3>1. x # s
      BY <1>9, <2>1
    <3>2. itable'[x] = itable[x] /\ ~ Going(x)
      BY <1>9, <1>14, <2>1, <3>1
    <3>3. QED BY <1>2, <1>3, <2>1, <3>2 DEF Agree, Steady
  <2>2. QED BY <2>1 DEF Agree, Steady
<1>16. Going(s)
  <2>1. s \in SlotsOf(st[p].todo, W)
    BY <1>7
  <2>2. QED BY <1>6, <2>1 DEF Going
<1>17. Kept'
  <2>1. ASSUME NEW i \in Orphans(disk) \ lost
        PROVE  \E x \in Slot : itable'[x].ref > 0 /\ itable'[x].inum = i /\ (Steady(x)' \/ Filling(x)')
    <3>1. PICK x \in Slot : itable[x].ref > 0 /\ itable[x].inum = i /\ (Steady(x) \/ Filling(x))
      BY <1>3, <2>1 DEF Kept
    <3>2. itable'[x].ref > 0 /\ itable'[x].inum = i
      BY <1>9, <3>1
    <3>3. CASE Filling(x)
      BY <1>13, <3>2, <3>3
    <3>4. CASE Steady(x)
      <4>1. x # s
        BY <1>16, <3>4 DEF Steady
      <4>2. Steady(x)'
        BY <1>9, <1>14, <3>4, <4>1 DEF Steady
      <4>3. QED BY <3>2, <4>2
    <3>5. QED BY <3>1, <3>3, <3>4
  <2>2. Orphans(disk') = Orphans(disk) /\ lost' = lost
    BY <1>2
  <2>3. QED BY <2>1, <2>2 DEF Kept
<1>18. inop' \subseteq Proc
  BY <1>2, <1>3 DEF Types
<1>19. \A x \in Slot : itable'[x].ref = itable[x].ref - Tokened(st[p].todo, x) + Tokened(rest, x)
  BY <1>7, <1>9
<1>20. \A x \in Slot : itable'[x].ref > 0 => itable[x].ref > 0 /\ itable'[x].inum = itable[x].inum
  BY <1>9
<1>21. QED BY <1>2, <1>3, <1>7, <1>8, <1>9, <1>10, <1>11, <1>15, <1>17, <1>18, <1>19, <1>20, ItemStep

\* The list of a process that has just freed the inode of slot s.
FreedTodo(t, s, rest) ==
    /\ t \in Seq(Items) /\ TodoOK(t)
    /\ \A x : Tokened(t, x) = One(s = x) + Tokened(rest, x)
    /\ SlotsOf(t, Unlocks) = {s} \cup SlotsOf(rest, Unlocks)
    /\ SlotsOf(t, {"invalid"}) = {s} \cup SlotsOf(rest, {"invalid"})

\* What iput() of the last reference has left to do.
LEMMA FreedItems ==
  ASSUME NEW s \in Slot, NEW rest \in Seq(Items), TodoOK(rest), s \notin SlotsOf(rest, Unlocks)
  PROVE  FreedTodo((Do("invalid", s) \o Do("decr", s)) \o rest, s, rest)
<1>1. PICK a : a = Do("invalid", s)
  OBVIOUS
<1>2. PICK b : b = Do("decr", s)
  OBVIOUS
<1>3. s \in 0 .. NINODE
  BY FileSysAssumption DEF Slot
<1>4. "invalid" \in Tokens \cup Unlocks \cup {"end_op"} /\ "decr" \in Tokens \cup Unlocks \cup {"end_op"}
      /\ "invalid" \notin Tokens /\ "decr" \in Tokens /\ "invalid" \in Unlocks /\ "decr" \notin Unlocks
      /\ "decr" \in Tokens \cup {"end_op"}
  BY DEF Tokens, Unlocks
<1>5. /\ a \in Seq(Items)
      /\ \A x : Tokened(a, x) = 0
      /\ \A W : SlotsOf(a, W) = IF "invalid" \in W THEN {s} ELSE {}
  <2>1. /\ Do("invalid", s) \in Seq(Items)
        /\ \A x : Tokened(Do("invalid", s), x) = One("invalid" \in Tokens /\ s = x)
        /\ \A W : SlotsOf(Do("invalid", s), W) = IF "invalid" \in W THEN {s} ELSE {}
    BY <1>3, <1>4, TodoDo
  <2>2. QED BY <1>1, <1>4, <2>1 DEF One
<1>6. /\ b \in Seq(Items) /\ TodoOK(b)
      /\ \A x : Tokened(b, x) = One(s = x)
      /\ \A W : SlotsOf(b, W) = IF "decr" \in W THEN {s} ELSE {}
  <2>1. /\ Do("decr", s) \in Seq(Items)
        /\ \A x : Tokened(Do("decr", s), x) = One("decr" \in Tokens /\ s = x)
        /\ \A W : SlotsOf(Do("decr", s), W) = IF "decr" \in W THEN {s} ELSE {}
    BY <1>3, <1>4, TodoDo
  <2>2. TodoOK(Do("decr", s))
    BY <1>3, <1>4, TodoOKDo
  <2>3. QED BY <1>2, <1>4, <2>1, <2>2 DEF One
<1>7. PICK c : c = b \o rest
  OBVIOUS
<1>8. /\ c \in Seq(Items)
      /\ \A x : Tokened(c, x) = Tokened(b, x) + Tokened(rest, x)
      /\ \A W : SlotsOf(c, W) = SlotsOf(b, W) \cup SlotsOf(rest, W)
  BY <1>6, <1>7, TodoConcat
<1>9. SlotsOf(b, Unlocks) = {} /\ SlotsOf(b, Tokens) = {s}
  BY <1>4, <1>6
<1>10. TodoOK(c)
  BY <1>6, <1>7, <1>9, TodoOKConcat
<1>11. s \in SlotsOf(c, Tokens) /\ s \notin SlotsOf(c, Unlocks)
  BY <1>8, <1>9
<1>12. PICK t : t = (a \o b) \o rest
  OBVIOUS
<1>13. t = a \o c
  <2>1. (a \o b) \o rest = a \o (b \o rest)
    BY <1>5, <1>6, ConcatAssociative
  <2>2. QED BY <1>7, <1>12, <2>1
<1>14. /\ t \in Seq(Items)
       /\ \A x : Tokened(t, x) = Tokened(a, x) + Tokened(c, x)
       /\ \A W : SlotsOf(t, W) = SlotsOf(a, W) \cup SlotsOf(c, W)
  BY <1>5, <1>8, <1>13, TodoConcat
<1>15. TodoOK(t)
  <2>1. TodoOK(Do("invalid", s) \o c)
    BY <1>4, <1>8, <1>10, <1>11, TodoOKUnlock
  <2>2. QED BY <1>1, <1>13, <2>1
<1>16. \A x : Tokened(t, x) = One(s = x) + Tokened(rest, x)
  <2>1. \A x : Tokened(rest, x) \in Nat
    BY TodoFinite
  <2>2. QED BY <1>5, <1>6, <1>8, <1>14, <2>1 DEF One
<1>17. SlotsOf(t, Unlocks) = {s} \cup SlotsOf(rest, Unlocks)
  <2>1. SlotsOf(a, Unlocks) = {s}
    BY <1>4, <1>5
  <2>2. QED BY <1>8, <1>9, <1>14, <2>1
<1>18. SlotsOf(t, {"invalid"}) = {s} \cup SlotsOf(rest, {"invalid"})
  <2>1. PICK W : W = {"invalid"}
    OBVIOUS
  <2>2. SlotsOf(a, W) = {s} /\ SlotsOf(b, W) = {}
    BY <1>5, <1>6, <2>1
  <2>3. SlotsOf(t, W) = {s} \cup SlotsOf(rest, W)
    BY <1>8, <1>14, <2>2
  <2>4. QED BY <2>1, <2>3
<1>19. FreedTodo(t, s, rest)
  BY <1>14, <1>15, <1>16, <1>17, <1>18 DEF FreedTodo
<1>20. QED BY <1>1, <1>2, <1>12, <1>19

\* iput() of the last reference: the inode and its blocks are freed.
LEMMA IputFreeStep ==
  ASSUME IInv, NEW p \in Proc, IputFree(p)
  PROVE  IInv'
<1>1. PICK s : NextItem(p).slot = s
  OBVIOUS
<1>2. PICK d : d = [Truncated(itable[s].d) EXCEPT !.type = "none"]
  OBVIOUS
<1>3. /\ st[p].todo # <<>> /\ NextItem(p).do = "iput" /\ LastRef(s) /\ itable[s].lock = NoProc
      /\ disk' = Iupdate(Itrunc(disk, itable[s].inum, itable[s].d), itable[s].inum, d)
      /\ itable' = Loaded(itable, s, d, p)
      /\ Next1(p, Do("invalid", s) \o Do("decr", s))
      /\ UNCHANGED <<durable, inop, ftable, ofile, cwd, lost>>
  BY <1>1, <1>2 DEF IputFree, Todo, TodoSlot, NextItem, Unlocked
<1>4. Types /\ itable \in Tables /\ Sound(durable) /\ Sound(disk) /\ Agree /\ Kept /\ Named2 /\ Local(p)
      /\ Counted
  BY DEF IInv, Types, Tables
<1>5. PICK rest : Tail(st[p].todo) = rest
  OBVIOUS
<1>6. PICK W : W = {"invalid"}
  OBVIOUS
<1>3a. st[p].todo # <<>>
  BY <1>3
<1>7. NextItem(p).do \in Tokens /\ NextItem(p).do \notin Unlocks /\ NextItem(p).do \notin W
  BY <1>3, <1>6 DEF Unlocks, Tokens
<1>8. /\ rest \in Seq(Items) /\ TodoOK(rest) /\ s \in Slot
      /\ \A x : Tokened(st[p].todo, x) = One(s = x) + Tokened(rest, x) /\ Tokened(rest, x) \in Nat
      /\ SlotsOf(st[p].todo, W) = SlotsOf(rest, W)
  <2>1. PICK h : NextItem(p) = h
    OBVIOUS
  <2>2. /\ h.do # "end_op" => h.slot \in Slot
        /\ rest \in Seq(Items) /\ TodoOK(rest)
        /\ \A x : Tokened(st[p].todo, x) = One(h.do \in Tokens /\ h.slot = x) + Tokened(rest, x)
        /\ \A V : SlotsOf(st[p].todo, V) = (IF h.do \in V THEN {h.slot} ELSE {}) \cup SlotsOf(rest, V)
    BY <1>3a, <1>5, <2>1, NextFacts
  <2>3. h.do \notin W /\ h.slot = s /\ h.do # "end_op" /\ h.do \in Tokens
    BY <1>1, <1>3, <1>7, <2>1
  <2>4. \A x : Tokened(rest, x) \in Nat
    BY <2>2, TodoFinite
  <2>5. \A x : One(h.do \in Tokens /\ h.slot = x) = One(s = x)
    BY <2>3 DEF One
  <2>6. \A x : Tokened(st[p].todo, x) = One(s = x) + Tokened(rest, x)
    BY <2>2, <2>5
  <2>7. SlotsOf(st[p].todo, W) = SlotsOf(rest, W)
    <3>1. SlotsOf(st[p].todo, W) = (IF h.do \in W THEN {h.slot} ELSE {}) \cup SlotsOf(rest, W)
      BY <2>2
    <3>2. QED BY <2>3, <3>1
  <2>8. rest \in Seq(Items) /\ TodoOK(rest) /\ s \in Slot
    BY <2>2, <2>3
  <2>9. QED BY <2>4, <2>6, <2>7, <2>8
<1>9. itable[s].ref = 1 /\ itable[s].valid /\ ~ Going(s) /\ itable[s].inum \in Inum
      /\ itable[s].d = disk.inode[itable[s].inum] /\ itable[s].d \in Dinodes
  <2>1. itable[s].ref = 1 /\ itable[s].valid
    BY <1>3 DEF LastRef
  <2>2. ~ Going(s)
    BY <1>3, <1>8, GoingLocked
  <2>3. itable[s].d = disk.inode[itable[s].inum]
    BY <1>4, <1>8, <2>1, <2>2 DEF Agree, Steady
  <2>4. itable[s].inum \in Inum
    BY <1>4, <1>8, <2>1 DEF Named2
  <2>5. itable[s].d \in Dinodes
    BY <1>4, <1>8 DEF Tables, Slots
  <2>6. QED BY <2>1, <2>2, <2>3, <2>4, <2>5
<1>10. d \in Dinodes /\ d.addrs = NoAddrs /\ d.size = 0 /\ d.type = "none"
  BY <1>2, <1>9, TruncatedType
<1>11. /\ Sound(disk') /\ disk'.inode[itable[s].inum] = d
       /\ \A j \in Inum : j # itable[s].inum => disk'.inode[j] = disk.inode[j]
  <2>1. PICK E : E = disk'
    OBVIOUS
  <2>2. PICK i : i = itable[s].inum
    OBVIOUS
  <2>3. i \in Inum /\ Iupdate(Itrunc(disk, i, disk.inode[i]), i, d) = E
    BY <1>3, <1>9, <2>1, <2>2
  <2>4. Sound(disk)
    BY <1>4
  <2>5. Sound(E) /\ E.inode[i] = d /\ \A j \in Inum : j # i => E.inode[j] = disk.inode[j]
    BY <1>10, <2>3, <2>4, IfreeSound
  <2>6. QED BY <2>1, <2>2, <2>5
<1>12. LoadedAs(itable, itable', s, d, p)
  BY <1>3, <1>4, <1>8, <1>10, LoadedFacts
<1>13. \A x \in Slot : /\ itable'[x].ref = itable[x].ref /\ itable'[x].inum = itable[x].inum
                       /\ itable[x].ref \in Nat
                       /\ x # s => itable'[x] = itable[x]
                       /\ x # s /\ itable[x].ref > 0 => itable[x].inum \in Inum /\ itable[x].inum # itable[s].inum
  <2>1. ASSUME NEW x \in Slot
        PROVE  itable'[x].ref = itable[x].ref /\ itable'[x].inum = itable[x].inum
               /\ (x # s => itable'[x] = itable[x])
    BY <1>12 DEF LoadedAs
  <2>2. ASSUME NEW x \in Slot, x # s, itable[x].ref > 0
        PROVE  itable[x].inum \in Inum /\ itable[x].inum # itable[s].inum
    BY <1>4, <1>8, <1>9, <2>2 DEF Named2
  <2>3. \A x \in Slot : itable[x].ref \in Nat
    BY <1>4 DEF Tables, Slots
  <2>4. QED BY <2>1, <2>2, <2>3
<1>14. ~ Besides(p, s) /\ \A x \in Slot : Besides(p, x) => itable[x].ref > 0
  <2>1. One(NextItem(p).do \in Tokens /\ NextItem(p).slot = s) = 1
    BY <1>1, <1>7 DEF One
  <2>2. ~ Besides(p, s)
    BY <1>9, <2>1 DEF Besides
  <2>3. \A x \in Slot : Besides(p, x) => itable[x].ref > 0
    BY <1>13 DEF Besides, One
  <2>4. QED BY <2>2, <2>3
<1>15. Spares(p)
  <2>1. ASSUME NEW x \in Slot, Besides(p, x)
        PROVE  TypeOf(x)' = TypeOf(x) /\ itable'[x].lock = itable[x].lock
    <3>1. x # s /\ itable[x].ref > 0
      BY <1>14, <2>1
    <3>2. itable'[x] = itable[x] /\ disk'.inode[itable[x].inum] = disk.inode[itable[x].inum]
      BY <1>11, <1>13, <3>1
    <3>3. QED BY <3>2 DEF TypeOf
  <2>2. QED BY <2>1 DEF Spares
<1>16. s \notin SlotsOf(rest, Unlocks) /\ s \notin PcLocks(st[p])
  <2>1. s \notin SlotsOf(rest, Unlocks)
    BY <1>3, <1>5, <1>14, <1>15, RestLocked
  <2>2. itable[s].lock # p
    BY <1>3, FileSysAssumption
  <2>3. s \notin PcLocks(st[p])
    BY <1>4, <2>2 DEF Local, Locked
  <2>4. QED BY <2>1, <2>3
<1>17. PICK t : t = (Do("invalid", s) \o Do("decr", s)) \o rest
  OBVIOUS
<1>18. FreedTodo(t, s, rest)
  BY <1>8, <1>16, <1>17, FreedItems
<1>19. st' = [st EXCEPT ![p].todo = t] /\ t \in Seq(Items)
  <2>1. st' = [st EXCEPT ![p].todo = (Do("invalid", s) \o Do("decr", s)) \o Tail(@)]
    BY <1>3 DEF Next1
  <2>2. QED BY <1>5, <1>17, <1>18, <2>1 DEF FreedTodo
<1>20. \A x \in SlotsOf(t, Unlocks) : itable'[x].lock = p /\ x \notin PcLocks(st[p])
  <2>1. \A x \in SlotsOf(rest, Unlocks) : itable'[x].lock = p /\ x \notin PcLocks(st[p])
    BY <1>3, <1>5, <1>15, RestLocked
  <2>2. itable'[s].lock = p
    BY <1>12 DEF LoadedAs
  <2>3. QED BY <1>16, <1>18, <2>1, <2>2 DEF FreedTodo
<1>21. /\ st'[p].todo = t /\ SameButTodo(st'[p], st[p])
       /\ \A q \in Proc : q # p => st'[q] = st[q]
  BY <1>4, <1>19, TodoSet
<1>22. \A x \in Slot : Filling(x)' = Filling(x)
  <2>1. \A q \in Proc : st'[q].pc = st[q].pc /\ st'[q].ip = st[q].ip
    BY <1>21 DEF SameButTodo
  <2>2. QED BY <2>1 DEF Filling
<1>23. SlotsOf(t, W) = {s} \cup SlotsOf(rest, W)
  BY <1>6, <1>18 DEF FreedTodo
<1>24. ASSUME NEW x \in Slot, x # s PROVE Going(x)' = Going(x)
  <2>1. \A q \in Proc : x \in SlotsOf(st'[q].todo, W) <=> x \in SlotsOf(st[q].todo, W)
    BY <1>8, <1>21, <1>23, <1>24
  <2>2. QED BY <1>6, <2>1 DEF Going
<1>25. Going(s)'
  <2>1. s \in SlotsOf(st'[p].todo, W)
    BY <1>21, <1>23
  <2>2. QED BY <1>6, <2>1 DEF Going
<1>26. Agree'
  <2>1. ASSUME NEW x \in Slot, itable'[x].ref > 0, itable'[x].valid, ~ Going(x)'
        PROVE  itable'[x].d = disk'.inode[itable'[x].inum] /\ itable'[x].d.type # "none"
    <3>1. x # s
      BY <1>25, <2>1
    <3>2. itable'[x] = itable[x] /\ ~ Going(x) /\ itable[x].ref > 0
      BY <1>13, <1>24, <2>1, <3>1
    <3>3. disk'.inode[itable[x].inum] = disk.inode[itable[x].inum]
      BY <1>11, <1>13, <3>1, <3>2
    <3>4. itable[x].d = disk.inode[itable[x].inum] /\ itable[x].d.type # "none"
      BY <1>4, <2>1, <3>2 DEF Agree, Steady
    <3>5. QED BY <3>2, <3>3, <3>4
  <2>2. QED BY <2>1 DEF Agree, Steady
<1>27. Kept'
  <2>1. ASSUME NEW i \in Orphans(disk') \ lost
        PROVE  \E x \in Slot : itable'[x].ref > 0 /\ itable'[x].inum = i /\ (Steady(x)' \/ Filling(x)')
    <3>1. i \in Orphans(disk) /\ i # itable[s].inum
      BY <1>10, <1>11, <2>1 DEF Orphans
    <3>2. PICK x \in Slot : itable[x].ref > 0 /\ itable[x].inum = i /\ (Steady(x) \/ Filling(x))
      BY <1>4, <2>1, <3>1 DEF Kept
    <3>3. x # s
      BY <3>1, <3>2
    <3>4. itable'[x].ref > 0 /\ itable'[x].inum = i
      BY <1>13, <3>2
    <3>5. CASE Filling(x)
      BY <1>22, <3>4, <3>5
    <3>6. CASE Steady(x)
      <4>1. Steady(x)'
        BY <1>13, <1>24, <3>3, <3>6 DEF Steady
      <4>2. QED BY <3>4, <4>1
    <3>7. QED BY <3>2, <3>5, <3>6
  <2>2. lost' = lost
    BY <1>3
  <2>3. QED BY <2>1, <2>2 DEF Kept
<1>28. inop' \subseteq Proc
  BY <1>3, <1>4 DEF Types
<1>29. \A x \in Slot : itable'[x].ref = itable[x].ref - Tokened(st[p].todo, x) + Tokened(t, x)
  BY <1>8, <1>13, <1>18 DEF FreedTodo, One
<1>30. \A x \in Slot : itable'[x].ref > 0 => itable[x].ref > 0 /\ itable'[x].inum = itable[x].inum
  BY <1>13
<1>31. itable' \in Tables /\ TodoOK(t)
  BY <1>12, <1>18 DEF LoadedAs, FreedTodo
<1>32. Sound(durable')
  BY <1>3, <1>4
<1>33. QED BY <1>3, <1>11, <1>15, <1>19, <1>20, <1>26, <1>27, <1>28, <1>29, <1>30, <1>31, <1>32, ItemStep

\* The state after boot: the tables are empty and nobody will free the orphans.
Booted == /\ \E w : st = BootSt(w) /\ \A q \in Proc : w[q] \in SUBSET Calls
          /\ itable = BootItable /\ ftable = BootFtable /\ ofile = BootOfile /\ cwd = BootCwd
          /\ inop = {} /\ Sound(disk) /\ Sound(durable) /\ Orphans(disk) \subseteq lost

-----------------------------------------------------------------------------
(* Boot and crashes, and the theorems.                                     *)
\* A process that does nothing.
LEMMA IdleControl ==
  ASSUME NEW pc \in {"user", "none"}, NEW calls \in SUBSET Calls
  PROVE  /\ Idle(pc, calls) \in Control /\ Idle(pc, calls).pc = pc
         /\ Idle(pc, calls).todo = <<>>
<1>1. <<>> \in Seq(Items) /\ <<>> \in Seq(STRING) /\ 0 \in 0 .. NINODE /\ [op |-> "none"] \in Calls \cup {NoCall}
  BY FileSysAssumption, EmptySeq DEF NoCall
<1>2. pc \in Pcs
  BY DEF Pcs
<1>3. QED BY <1>1, <1>2 DEF Idle, Control

\* The tables after boot.
LEMMA BootSlots == /\ BootItable \in Tables /\ 1 \in Slot /\ 0 \notin Slot
                   /\ BootItable[1].ref = 1 /\ BootItable[1].inum = ROOTINO /\ ROOTINO \in Inum
                   /\ \A s \in Slot : s # 1 => BootItable[s].ref = 0
                   /\ \A s \in Slot : ~ BootItable[s].valid
<1>1. 1 \in Slot /\ 0 \notin Slot /\ ROOTINO \in Inum
  BY ImageSound, FileSysAssumption, FsDiskAssumption DEF Slot, Inum, ROOTINO
<1>2. FreeSlot \in Slots /\ FreeSlot.ref = 0 /\ ~ FreeSlot.valid
  BY FreeInodeType, FsDiskAssumption DEF FreeSlot, Slots
<1>3. PICK r : r = [FreeSlot EXCEPT !.inum = ROOTINO, !.ref = 1]
  OBVIOUS
<1>4. r \in Slots /\ r.ref = 1 /\ r.inum = ROOTINO /\ ~ r.valid
  <2>1. r = [inum |-> ROOTINO, ref |-> 1, valid |-> FALSE, lock |-> NoProc, d |-> FreeInode]
    BY <1>3 DEF FreeSlot
  <2>2. ROOTINO \in 0 .. NINODES
    BY <1>1, FsDiskAssumption DEF Inum
  <2>3. QED BY <2>1, <2>2, FreeInodeType DEF Slots
<1>5. BootItable = [s \in Slot |-> IF s = 1 THEN r ELSE FreeSlot]
  BY <1>3 DEF BootItable
<1>6. QED BY <1>1, <1>2, <1>4, <1>5 DEF Tables

\* After boot with a sound image the invariant holds.
LEMMA BootInv == Booted => IInv
<1> SUFFICES ASSUME Booted PROVE IInv
  OBVIOUS
<1>1. PICK w : st = BootSt(w) /\ \A q \in Proc : w[q] \in SUBSET Calls
  BY DEF Booted
<1>2. /\ itable = BootItable /\ ftable = BootFtable /\ ofile = BootOfile /\ cwd = BootCwd
      /\ inop = {} /\ Sound(disk) /\ Sound(durable) /\ Orphans(disk) \subseteq lost
  BY DEF Booted
<1>3. ASSUME NEW q \in Proc
      PROVE  /\ st[q] \in Control /\ st[q].todo = <<>>
             /\ st[q].pc = IF q = InitProc THEN "user" ELSE "none"
  <2>1. PICK pc \in {"user", "none"} : pc = IF q = InitProc THEN "user" ELSE "none"
    OBVIOUS
  <2>2. st[q] = Idle(pc, w[q])
    BY <1>1, <2>1 DEF BootSt
  <2>3. QED BY <1>1, <2>1, <2>2, IdleControl
<1>4. /\ itable \in Tables /\ 1 \in Slot /\ 0 \notin Slot
      /\ itable[1].ref = 1 /\ itable[1].inum = ROOTINO /\ ROOTINO \in Inum
      /\ \A s \in Slot : s # 1 => itable[s].ref = 0
      /\ \A s \in Slot : ~ itable[s].valid
  BY <1>2, BootSlots
<1>5. \A q \in Proc : cwd[q] = IF q = InitProc THEN 1 ELSE 0
  BY <1>2 DEF BootCwd
<1>6. \A q \in Proc, fd \in Fd : ofile[q][fd] = 0
  BY <1>2 DEF BootOfile
<1>7. \A f \in File : ftable[f] = FreeFile
  BY <1>2 DEF BootFtable
<1>8. FreeFile \in Files /\ FreeFile.ref = 0
  <2>1. 0 \in 0 .. NINODE /\ "none" \in Kinds
    BY FileSysAssumption DEF Kinds
  <2>2. QED BY <2>1 DEF FreeFile, Files
<1>9. Types
  <2>1. st \in [Proc -> Control]
    <3>1. st = [q \in Proc |-> st[q]]
      BY <1>1 DEF BootSt
    <3>2. QED BY <1>3, <3>1
  <2>2. itable \in [Slot -> Slots]
    BY <1>4 DEF Tables
  <2>3. ftable \in [File -> Files]
    BY <1>2, <1>7, <1>8 DEF BootFtable
  <2>4. ofile \in [Proc -> [Fd -> 0 .. NFILE]]
    BY <1>2, FileSysAssumption DEF BootOfile
  <2>5. cwd \in [Proc -> 0 .. NINODE]
    <3>1. 0 \in 0 .. NINODE /\ 1 \in 0 .. NINODE
      BY <1>4, FileSysAssumption DEF Slot
    <3>2. QED BY <1>2, <3>1 DEF BootCwd
  <2>6. QED BY <1>2, <2>1, <2>2, <2>3, <2>4, <2>5 DEF Types
<1>10. ASSUME NEW q \in Proc PROVE Local(q)
  <2>1. TodoOK(st[q].todo) /\ SlotsOf(st[q].todo, Unlocks) = {}
    BY <1>3, TodoNone
  <2>2. st[q].pc \in {"user", "none"}
    BY <1>3
  <2>3. CallOK(st[q])
    BY <2>2 DEF CallOK
  <2>4. Locked(q)
    BY <2>1, <2>2 DEF Locked, PcLocks
  <2>5. Holding(q)
    BY <2>2 DEF Holding, HoldsAt, HoldsDp, HoldsIp
  <2>6. Using(q)
    BY <1>3, <1>4, <1>5, <1>6 DEF Using
  <2>7. QED BY <2>1, <2>3, <2>4, <2>5, <2>6 DEF Local
<1>11. FilesTyped
  BY <1>7, <1>8 DEF FilesTyped
<1>12. FilesOK
  <2>1. ASSUME NEW f \in File
        PROVE  ftable[f].ref = Total([q \in Proc |-> Cardinality(FdsOf(q, f))])
    <3>1. PICK h : h = [q \in Proc |-> Cardinality(FdsOf(q, f))]
      OBVIOUS
    <3>2. h \in [Proc -> Nat]
      BY <3>1, FdsFun
    <3>3. ASSUME NEW q \in Proc PROVE h[q] = 0
      <4>1. FdsOf(q, f) = {}
        BY <1>6 DEF FdsOf, File
      <4>2. QED BY <3>1, <4>1, FS_EmptySet
    <3>4. Total(h) = 0
      BY <3>2, <3>3, TotalZero
    <3>5. QED BY <1>7, <1>8, <3>1, <3>4
  <2>2. QED BY <2>1 DEF FilesOK
<1>13. Counted
  <2>1. ASSUME NEW s \in Slot PROVE itable[s].ref = RefsTo(s)
    <3>1. FilesOf(s) = {}
      BY <1>7, <1>8 DEF FilesOf
    <3>2. Cardinality(FilesOf(s)) = 0
      BY <3>1, FS_EmptySet
    <3>3. PICK g : g = [q \in Proc |-> HeldBy(st[q], cwd[q], s)]
      OBVIOUS
    <3>4. g \in [Proc -> Nat]
      BY <1>9, <3>3, HeldFun
    <3>5. ASSUME NEW q \in Proc PROVE g[q] = One(cwd[q] = s)
      <4>1. PICK r : r = st[q]
        OBVIOUS
      <4>2. r.todo = <<>> /\ r.pc \in {"user", "none", "exit", "write", "writemore"} /\ r.todo \in Seq(Items)
        BY <1>3, <4>1, TodoNone
      <4>3. HeldBy(r, cwd[q], s) = One(cwd[q] = s) + Tokened(r.todo, s)
        <5>1. r.todo \in Seq(Items) /\ r.pc \in {"user", "none", "exit", "write", "writemore"}
          BY <4>2
        <5>2. QED BY <5>1, HeldOutside
      <4>4. Tokened(r.todo, s) = 0
        BY <4>2, TodoNone
      <4>5. QED BY <3>3, <4>1, <4>3, <4>4 DEF One
    <3>6. PICK h : h = [q \in Proc |-> 0]
      OBVIOUS
    <3>7. h \in [Proc -> Nat] /\ \A q \in Proc : h[q] = 0
      BY <3>6
    <3>8. Total(h) = 0
      BY <3>7, TotalZero
    <3>9. \A q \in Proc : q # InitProc => g[q] = h[q]
      BY <1>4, <1>5, <3>5, <3>7 DEF One
    <3>10. Total(g) = g[InitProc]
      <4>1. InitProc \in Proc
        BY FileSysAssumption
      <4>2. Total(g) = Total(h) - h[InitProc] + g[InitProc]
        BY <3>4, <3>7, <3>9, <4>1, TotalChange
      <4>3. QED BY <3>4, <3>7, <3>8, <4>1, <4>2
    <3>11. g[InitProc] = One(1 = s)
      BY <1>5, <3>5, FileSysAssumption
    <3>12. itable[s].ref = One(1 = s)
      BY <1>4 DEF One
    <3>13. QED BY <3>2, <3>3, <3>10, <3>11, <3>12 DEF RefsTo, One
  <2>2. QED BY <2>1 DEF Counted
<1>14. Named2
  BY <1>4 DEF Named2
<1>15. Agree
  BY <1>4 DEF Agree, Steady
<1>16. Kept
  BY <1>2 DEF Kept
<1>17. QED BY <1>2, <1>9, <1>10, <1>11, <1>12, <1>13, <1>14, <1>15, <1>16 DEF IInv

\* So it does after a crash.
LEMMA BootInvNext == Booted' => IInv'
  BY BootInv, PTL

\* It holds in the beginning.
LEMMA InitInv == Init => IInv
<1> SUFFICES ASSUME Init PROVE IInv
  OBVIOUS
<1>1. PICK w \in Workloads : st = BootSt(w)
  BY DEF Init
<1>2. \A q \in Proc : w[q] \in SUBSET Calls
  BY DEF Calls
<1>3. Sound(Image) /\ Orphans(Image) = {}
  BY ImageSound
<1>4. Booted
  BY <1>1, <1>2, <1>3 DEF Init, Booted
<1>5. QED BY <1>4, BootInv

\* A crash.
LEMMA CrashStep ==
  ASSUME IInv, Crash
  PROVE  IInv'
<1>1. Types /\ Sound(durable)
  BY DEF IInv
<1>2. PICK w : w = [q \in Proc |-> st[q].calls]
  OBVIOUS
<1>3. \A q \in Proc : w[q] \in SUBSET Calls
  BY <1>1, <1>2 DEF Types, Control
<1>4. st' = BootSt(w)
  BY <1>2 DEF Crash
<1>5. /\ itable' = BootItable /\ ftable' = BootFtable /\ ofile' = BootOfile /\ cwd' = BootCwd
      /\ inop' = {} /\ Sound(disk') /\ Sound(durable') /\ Orphans(disk') \subseteq lost'
  BY <1>1 DEF Crash
<1>6. Booted'
  BY <1>3, <1>4, <1>5 DEF Booted
<1>7. QED BY <1>6, BootInvNext

\* The items of todo.
LEMMA ProcStep ==
  ASSUME IInv, NEW p \in Proc, Step(p)
  PROVE  IInv'
<1>1. CASE Iput(p) \/ IputFree(p) \/ IputInvalid(p) \/ IputDecr(p) \/ Iunlock(p) \/ EndOpStep(p)
  BY <1>1, IputStep, IputFreeStep, IputInvalidStep, IputDecrStep, IunlockStep, EndOpKeeps
<1>2. CASE NamexFail(p) \/ NamexDown(p) \/ NamexParent(p) \/ NamexEnd(p)
  BY <1>2, NamexFailStep, NamexDownStep, NamexParentStep, NamexEndStep
<1>3. CASE LinkDir(p) \/ LinkOld(p) \/ LinkNew(p) \/ LinkUndo(p)
  BY <1>3, LinkDirStep, LinkOldStep, LinkNewStep, LinkUndoStep
<1>4. CASE UnlinkDir(p) \/ UnlinkFull(p) \/ UnlinkEntry(p) \/ Unlinked(p)
  BY <1>4, UnlinkDirStep, UnlinkFullStep, UnlinkEntryStep, UnlinkedStep
<1>5. CASE CreateLookup(p) \/ CreateFill(p) \/ Made(p)
  BY <1>5, CreateLookupStep, CreateFillStep, MadeStep
<1>6. CASE OpenFail(p) \/ OpenFile(p) \/ Chdir(p)
  BY <1>6, OpenFailStep, OpenFileStep, ChdirStep
<1>7. CASE WriteBlock(p) \/ WriteMore(p) \/ ExitClose(p) \/ ExitCwd(p)
  BY <1>7, WriteBlockStep, WriteMoreStep, CloseSteps, ExitCwdStep
<1>8. QED BY <1>1, <1>2, <1>3, <1>4, <1>5, <1>6, <1>7 DEF Step

\* The system calls.
LEMMA CallStep ==
  ASSUME IInv, NEW p \in Proc, Call(p)
  PROVE  IInv'
  BY SysPathStep, CloseSteps, DupStep, ReadStep, WriteStep, ForkStep, ExitStep DEF Call

\* A step that changes nothing.
LEMMA StutterStep ==
  ASSUME IInv, UNCHANGED vars
  PROVE  IInv'
<1>1. UNCHANGED <<disk, durable, inop, itable, ftable, ofile, cwd, st, lost>>
  BY DEF vars
<1>2. Types' /\ Sound(disk') /\ Sound(durable')
  BY <1>1 DEF IInv, Types
<1>3. \A p \in Proc : Local(p)'
  <2>1. ASSUME NEW p \in Proc PROVE Local(p)'
    <3>1. Local(p)
      BY DEF IInv
    <3>2. Locked(p)'
      BY <1>1, <3>1 DEF Local, Locked
    <3>3. Holding(p)'
      BY <1>1, <3>1 DEF Local, Holding, TypeOf
    <3>4. Using(p)'
      BY <1>1, <3>1 DEF Local, Using
    <3>5. QED BY <1>1, <3>1, <3>2, <3>3, <3>4 DEF Local
  <2>2. QED BY <2>1
<1>4. FilesTyped'
  BY <1>1 DEF IInv, FilesTyped, TypeOf
<1>5. FilesOK'
  BY <1>1 DEF IInv, FilesOK, FdsOf
<1>6. Counted'
  BY <1>1 DEF IInv, Counted, RefsTo, FilesOf
<1>7. Named2'
  BY <1>1 DEF IInv, Named2
<1>8. \A s \in Slot : Going(s)' = Going(s) /\ Steady(s)' = Steady(s) /\ Filling(s)' = Filling(s)
  BY <1>1 DEF Going, Steady, Filling
<1>9. Agree'
  BY <1>1, <1>8 DEF IInv, Agree
<1>10. Kept'
  BY <1>1, <1>8 DEF IInv, Kept
<1>11. QED BY <1>2, <1>3, <1>4, <1>5, <1>6, <1>7, <1>9, <1>10 DEF IInv

\* Every step keeps the invariant.
LEMMA NextInv ==
  ASSUME IInv, [Next]_vars
  PROVE  IInv'
  BY ProcStep, CallStep, CrashStep, StutterStep DEF Next

\* The inductive invariant holds in every state: the file system keeps the image sound and
\* its tables in step with it, whatever processes call it and wherever it crashes.
THEOREM Invariance == Spec => []IInv
  BY InitInv, NextInv, PTL DEF Spec

\* The invariant says that the counts of references are exact,
LEMMA InvRefs == IInv => RefsExact
<1> SUFFICES ASSUME IInv PROVE RefsExact
  OBVIOUS
<1>1. Types /\ Sound(disk) /\ Counted /\ Named2 /\ Agree /\ FilesOK
  BY DEF IInv
<1>2. TypeOK
  <2>1. disk.used \subseteq 1 .. NBLOCKS
    BY <1>1 DEF Sound, Images
  <2>2. \A s \in Slot : itable[s].ref \in Nat /\ itable[s].inum \in 0 .. NINODES
    BY <1>1 DEF Types, Slots
  <2>3. QED BY <1>1, <2>1, <2>2 DEF TypeOK, Types
<1>3. \A s \in Slot : itable[s].ref = RefsTo(s)
  BY <1>1 DEF Counted
<1>4. \A s, t \in Slot : s # t /\ itable[s].ref > 0 /\ itable[t].ref > 0 => itable[s].inum # itable[t].inum
  BY <1>1 DEF Named2
<1>5. ASSUME NEW s \in Slot, itable[s].ref > 0, itable[s].valid, Unlocked(s)
      PROVE  itable[s].d = disk.inode[itable[s].inum]
  <2>1. ~ Going(s)
    BY <1>5, GoingLocked DEF Unlocked
  <2>2. QED BY <1>1, <1>5, <2>1 DEF Agree, Steady
<1>6. \A f \in File : ftable[f].ref = Total([p \in Proc |-> Cardinality(FdsOf(p, f))])
  BY <1>1 DEF FilesOK
<1>7. QED BY <1>2, <1>3, <1>4, <1>5, <1>6 DEF RefsExact

\* and that nothing is lost.
LEMMA InvLeaks == IInv => NothingLeaks
<1> SUFFICES ASSUME IInv PROVE NothingLeaks
  OBVIOUS
<1>1. Sound(disk) /\ Kept
  BY DEF IInv
<1>2. /\ disk.used = UNION {BlocksOf(disk, disk.inode[i]) : i \in Allocated(disk)}
      /\ \A i, j \in Allocated(disk) :
            i # j => BlocksOf(disk, disk.inode[i]) \cap BlocksOf(disk, disk.inode[j]) = {}
  BY <1>1, SoundBlocks
<1>3. \A i \in Orphans(disk) \ lost : Has(itable, i) # {}
  BY <1>1 DEF Kept, Has
<1>4. QED BY <1>2, <1>3 DEF NothingLeaks

\* The ref of a slot counts the pointers to it, no two slots stand for one inode, the copy
\* in the table is the inode on the disk, and the ref of a file counts its descriptors
\* (iget(), idup(), iput(), filealloc(), filedup(), fileclose()).
THEOREM ReferencesExact == Spec => []RefsExact
  BY Invariance, InvRefs, PTL

\* Each block that the bitmap marks belongs to one inode, and an inode without a name has a
\* user who will free it, or was lost to a crash (balloc(), bfree(), itrunc(), iput()).
THEOREM NoBlockOrInodeLost == Spec => []NothingLeaks
  BY Invariance, InvLeaks, PTL
=============================================================================
