------------------------------- MODULE FsDisk -------------------------------
(***************************************************************************)
(* The disk image of the file system and the functions of kernel/fs.c that *)
(* read and change it, as operators on an image; mkfs/mkfs.c for the first *)
(* one.  An image is what bread() shows: the inodes, the free map and the  *)
(* blocks of data.  A block is a row of EPB words; a word is a directory   *)
(* entry in a directory and an address (its field inum) in an indirect     *)
(* block.  Sizes and offsets are counted in words.                         *)
(***************************************************************************)
EXTENDS Integers, Sequences, FiniteSets, FiniteSetsExt

CONSTANTS NINODES,   \* inodes 1..NINODES, the ones of the image
          NBLOCKS,   \* data blocks 1..NBLOCKS; 0 is no address
          EPB,       \* words of a block: dirents, and addresses of an indirect block
          NDIRECT,
          ImageFiles \* the names of the files that mkfs copies into the image

ASSUME FsDiskAssumption == /\ NINODES \in Nat /\ NBLOCKS \in Nat
                           /\ EPB \in Nat \ {0} /\ NDIRECT \in Nat \ {0}
                           /\ ImageFiles \in Seq(STRING) /\ Len(ImageFiles) + 2 < EPB
                           /\ Len(ImageFiles) < NINODES /\ Len(ImageFiles) < NBLOCKS

ROOTINO == 1
Inum == 1 .. NINODES
Addr == 0 .. NBLOCKS
NINDIRECT == EPB
MAXFILE == NDIRECT + NINDIRECT

Word(inum, name) == [inum |-> inum, name |-> name]
ZeroWord == Word(0, "")
ZeroBlock == [k \in 0 .. EPB - 1 |-> ZeroWord]
Data == [k \in 0 .. EPB - 1 |-> Word(-1, "")]   \* what files hold

NoAddrs == [n \in 0 .. NDIRECT |-> 0]
Dinode(type, major, nlink, size, addrs) ==
    [type |-> type, major |-> major, nlink |-> nlink, size |-> size, addrs |-> addrs]
FreeInode == Dinode("none", 0, 0, 0, NoAddrs)

-----------------------------------------------------------------------------
(* Blocks.  balloc() takes the first free block and zeroes it.             *)
FreeBlocks(D) == (1 .. NBLOCKS) \ D.used
Mapped(D, d, addr) == [disk |-> D, d |-> d, addr |-> addr]
Take(D, b) == [D EXCEPT !.used = @ \cup {b}, !.data[b] = ZeroBlock]
Balloc(D, d) == IF FreeBlocks(D) = {} THEN Mapped(D, d, 0)
                ELSE Mapped(Take(D, Min(FreeBlocks(D))), d, Min(FreeBlocks(D)))

Indirect(D, d) == IF d.addrs[NDIRECT] = 0 THEN ZeroBlock ELSE D.data[d.addrs[NDIRECT]]

\* The address of block bn of an inode, 0 for one that has none.
BlockAt(D, d, bn) == IF bn < NDIRECT THEN d.addrs[bn] ELSE Indirect(D, d)[bn - NDIRECT].inum

\* bmap(): the same address, allocated if need be; the indirect block stays
\* with the inode even if there is no block left for the data.
InInode(a, n) == [a EXCEPT !.d.addrs[n] = a.addr]
BmapDirect(D, d, n) == IF d.addrs[n] # 0 THEN Mapped(D, d, d.addrs[n]) ELSE InInode(Balloc(D, d), n)
InIndirect(a, i, n) == IF a.addr = 0 THEN a ELSE [a EXCEPT !.disk.data[i][n].inum = a.addr]
BmapIndirect(i, n) ==
    CASE i.addr = 0 -> i
      [] i.addr # 0 /\ Indirect(i.disk, i.d)[n].inum # 0 ->
           Mapped(i.disk, i.d, Indirect(i.disk, i.d)[n].inum)
      [] OTHER -> InIndirect(Balloc(i.disk, i.d), i.addr, n)
Bmap(D, d, bn) == IF bn < NDIRECT THEN BmapDirect(D, d, bn)
                  ELSE BmapIndirect(BmapDirect(D, d, NDIRECT), bn - NDIRECT)

\* The blocks that itrunc() frees: direct, indirect, and what that one names.
DirectOf(d) == {d.addrs[n] : n \in 0 .. NDIRECT}
IndirectOf(D, d) == LET block == Indirect(D, d) IN {block[n].inum : n \in 0 .. NINDIRECT - 1}
BlocksOf(D, d) == (DirectOf(d) \cup IndirectOf(D, d)) \ {0}

-----------------------------------------------------------------------------
(* Inodes.                                                                 *)
Iupdate(D, inum, d) == [D EXCEPT !.inode[inum] = d]

\* What a free block holds does not matter, because balloc() zeroes it.
Bfree(D, blocks) == [D EXCEPT !.used = @ \ blocks,
                              !.data = [b \in DOMAIN @ |-> IF b \in blocks THEN ZeroBlock ELSE @[b]]]

Truncated(d) == [d EXCEPT !.addrs = NoAddrs, !.size = 0]
\* A mutant: the blocks that the indirect block names stay in use.
ItruncDirect(D, inum, d) == Iupdate(Bfree(D, DirectOf(d) \ {0}), inum, Truncated(d))
Itrunc(D, inum, d) == Iupdate(Bfree(D, BlocksOf(D, d)), inum, Truncated(d))

\* The inode that ialloc() would take: the first that is free, 0 if none is.
FreeInum(D) == LET free == {i \in Inum : D.inode[i].type = "none"}
               IN IF free = {} THEN 0 ELSE Min(free)
Ialloc(D, inum, type) == Iupdate(D, inum, [FreeInode EXCEPT !.type = type])

\* writei() of words within one block.  ok: all of them were written.
Result(D, inum, d, ok) == [disk |-> Iupdate(D, inum, d), d |-> d, ok |-> ok]
Put(block, off, words) == [k \in 0 .. EPB - 1 |-> IF k - off \in DOMAIN words THEN words[k - off]
                                                  ELSE block[k]]
Grown(d, size) == [d EXCEPT !.size = IF size > @ THEN size ELSE @]
Store(m, inum, off, words) ==
    IF m.addr = 0 THEN Result(m.disk, inum, m.d, FALSE)
    ELSE Result([m.disk EXCEPT !.data[m.addr] = Put(@, off % EPB, words)], inum,
                Grown(m.d, off + Cardinality(DOMAIN words)), TRUE)
Writei(D, inum, d, off, words) ==
    IF off > d.size \/ off + Cardinality(DOMAIN words) > MAXFILE * EPB
    THEN [disk |-> D, d |-> d, ok |-> FALSE]
    ELSE Store(Bmap(D, d, off \div EPB), inum, off, words)

-----------------------------------------------------------------------------
(* Directories.                                                            *)
Dirent(D, d, off) == D.data[BlockAt(D, d, off \div EPB)][off % EPB]
Entries(D, d) == {off \in 0 .. d.size - 1 : Dirent(D, d, off).inum # 0}
Named(D, d, name) == {off \in Entries(D, d) : Dirent(D, d, off).name = name}

\* dirlookup(): where the name is first found, -1 if it is not there.
Dirlookup(D, d, name) == IF Named(D, d, name) = {} THEN -1 ELSE Min(Named(D, d, name))

IsDirEmpty(D, d) == Entries(D, d) \subseteq {0, 1}

\* dirlink(): refuses a name that is there, else writes the first free entry.
FreeDirent(D, d) == Min({d.size} \cup ((0 .. d.size - 1) \ Entries(D, d)))
Dirlink(D, inum, d, name, target) ==
    IF Named(D, d, name) # {} THEN [disk |-> D, d |-> d, ok |-> FALSE]
    ELSE Writei(D, inum, d, FreeDirent(D, d), [k \in {0} |-> Word(target, name)])

\* The entries "." and ".." of a directory that create() makes.
DotDot(dot, inum, parent) == IF dot.ok THEN Dirlink(dot.disk, inum, dot.d, "..", parent) ELSE dot
MakeDots(D, inum, d, parent) == DotDot(Dirlink(D, inum, d, ".", inum), inum, parent)

ClearDirent(D, inum, d, off) == Writei(D, inum, d, off, [k \in {0} |-> ZeroWord])

-----------------------------------------------------------------------------
(* mkfs: a root directory, its size rounded up past its last entry, and    *)
(* one block of data for every file; the free map says which were used.    *)
RootWords == <<Word(ROOTINO, "."), Word(ROOTINO, "..")>> \o
             [n \in 1 .. Len(ImageFiles) |-> Word(n + 1, ImageFiles[n])]
RootBlock == [k \in 0 .. EPB - 1 |-> IF k < Len(RootWords) THEN RootWords[k + 1] ELSE ZeroWord]
ImageFile(i) == i - 1 \in 1 .. Len(ImageFiles)

\* iappend() filled the blocks in the order of the inodes, and balloc() marked them.
Appended(b) == CASE b = 1 -> RootBlock
                 [] ImageFile(b) -> Data
                 [] OTHER -> ZeroBlock
Marked == 1 .. Len(ImageFiles) + 1
MadeInode(i) ==
    CASE i = ROOTINO -> Dinode("dir", 0, 1, (Len(RootWords) \div EPB + 1) * EPB, [NoAddrs EXCEPT ![0] = 1])
      [] ImageFile(i) -> Dinode("file", 0, 1, EPB, [NoAddrs EXCEPT ![0] = i])
      [] OTHER -> FreeInode
Image == [inode |-> [i \in Inum |-> MadeInode(i)],
          used |-> Marked,
          data |-> [b \in 1 .. NBLOCKS |-> Appended(b)]]
=============================================================================
