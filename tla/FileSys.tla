------------------------------ MODULE FileSys ------------------------------
(***************************************************************************)
(* The file system calls of several processes over the inode table, the    *)
(* file table and the disk image of FsDisk, and crashes.                   *)
(* Source: kernel/fs.c, kernel/file.c, kernel/sysfile.c.                   *)
(*                                                                         *)
(* What a process does under one sleep-lock is one action; ilock() is its  *)
(* guard.  A lock that is kept over a call that may wait stays in the      *)
(* table.  What remains to be done before the next section, iput() above   *)
(* all, is the list todo of the process, one step per item.  The log is    *)
(* what Log implements: the changes of the calls in progress (inop) become *)
(* durable together, when the last of them calls end_op().                 *)
(***************************************************************************)
EXTENDS FsDisk, TLC

CONSTANTS Proc,
          NoProc,     \* the holder of a free lock
          InitProc,   \* the process that exists after boot
          NINODE,     \* slots of the inode table
          NFILE,      \* entries of the file table
          NOFILE,     \* descriptors of a process
          NDEV,
          MaxGroup,   \* bound: the calls that commit together
          MaxLinks,   \* bound: nobody calls link() while an inode has so many links
          Workloads,  \* what processes do: for each the system calls that it makes
          WriteBlocks \* the n of write(), in blocks

ASSUME FileSysAssumption == /\ InitProc \in Proc /\ NoProc \notin Proc /\ IsFiniteSet(Proc)
                            /\ NINODE \in Nat \ {0} /\ NFILE \in Nat /\ NOFILE \in Nat
                            /\ MaxGroup \in Nat /\ MaxLinks \in Nat /\ WriteBlocks \in Nat
                            /\ \A w \in Workloads : DOMAIN w = Proc

\* The calls that programs make.  A path is the sequence of its names, "/" first if
\* it starts at the root.
Calls == UNION {UNION {w[p] : p \in Proc} : w \in Workloads}
IsPath(path) == path \in Seq(STRING) /\ path # <<>>
ASSUME CallsAssumption == \A c \in Calls :
    /\ "path" \in DOMAIN c => /\ IsPath(c.path)
                              /\ c.op \in {"open", "link", "unlink", "mkdir", "mknod", "chdir"}
    /\ c.op = "open" => c.create \in BOOLEAN
    /\ c.op = "link" => IsPath(c.new)
    /\ c.op = "mknod" => c.major \in Int

VARIABLES disk,     \* the image, with the changes of the calls in progress
          durable,  \* the image after a crash
          inop,     \* the processes between begin_op() and end_op()
          group,    \* the calls that commit together, so far
          itable, ftable,
          ofile, cwd,
          st,       \* where each process is
          lost      \* ghost: inodes left without a name and without a user

vars == <<disk, durable, inop, group, itable, ftable, ofile, cwd, st, lost>>

Slot == 1 .. NINODE
File == 1 .. NFILE
Fd == 0 .. NOFILE - 1

\* A slot that nobody refers to: iget() sets what it holds.
FreeSlot == [inum |-> 0, ref |-> 0, valid |-> FALSE, lock |-> NoProc, d |-> FreeInode]
FreeFile == [type |-> "none", ref |-> 0, ip |-> 0, readable |-> FALSE, writable |-> FALSE, off |-> 0]

\* pc: "user" in the program, "none" for a process that does not exist.
Idle(pc, calls) == [pc |-> pc, calls |-> calls, todo |-> <<>>, call |-> [op |-> "none"], path |-> <<>>,
             parent |-> FALSE, at |-> 0, ip |-> 0, dp |-> 0, off |-> 0, fd |-> 0, n |-> 0]

\* The tables after boot: userinit() has the root as its directory.
BootItable == [s \in Slot |-> IF s = 1 THEN [FreeSlot EXCEPT !.inum = ROOTINO, !.ref = 1] ELSE FreeSlot]
BootFtable == [f \in File |-> FreeFile]
BootOfile == [p \in Proc |-> [fd \in Fd |-> 0]]
BootCwd == [p \in Proc |-> IF p = InitProc THEN 1 ELSE 0]
BootSt(work) == [p \in Proc |-> Idle(IF p = InitProc THEN "user" ELSE "none", work[p])]

Init == /\ disk = Image /\ durable = Image /\ inop = {} /\ group = 0 /\ lost = {}
        /\ itable = BootItable /\ ftable = BootFtable
        /\ ofile = BootOfile /\ cwd = BootCwd
        /\ \E work \in Workloads : st = BootSt(work)

-----------------------------------------------------------------------------
(* The inode table.                                                        *)

\* iget(): the slot of an inode, or the first free one, not yet valid.
Has(T, inum) == {s \in Slot : T[s].ref > 0 /\ T[s].inum = inum}
Vacant(T) == {s \in Slot : T[s].ref = 0}
Iget(T, inum) ==
    LET s == IF Has(T, inum) # {} THEN Min(Has(T, inum)) ELSE Min(Vacant(T))
    IN [slot |-> s, tab |-> IF Has(T, inum) # {} THEN [T EXCEPT ![s].ref = @ + 1]
                            ELSE [T EXCEPT ![s] = [FreeSlot EXCEPT !.inum = inum, !.ref = 1]]]
\* With every slot in use, iget() of an inode that has none is a panic ("iget: no inodes").
Room(T, inum) == Has(T, inum) \cup Vacant(T) # {}
Idup(T, s) == [T EXCEPT ![s].ref = @ + 1]

Unlocked(s) == itable[s].lock = NoProc
\* The inode that ilock() finds in the slot or reads from the disk.
Inode(s) == IF itable[s].valid THEN itable[s].d ELSE disk.inode[itable[s].inum]
\* ilock() waits for the lock; an inode without a type is a panic ("ilock: no type").
Ilock(s) == Unlocked(s) /\ Inode(s).type # "none"
\* The table with the inode of slot s loaded, or changed to d, and locked by who.
Loaded(T, s, d, who) == [T EXCEPT ![s].valid = TRUE, ![s].d = d, ![s].lock = who]

\* begin_op() waits while the log has no room for one more call.
BeginOp(p) == group < MaxGroup /\ inop' = inop \cup {p} /\ group' = group + 1

Do(what, s) == <<[do |-> what, slot |-> s]>>
EndOp == Do("end_op", 0)

Free(p) == st[p].todo = <<>>
At(p, pc) == st[p].pc = pc /\ Free(p)
Makes(p, op) == At(p, "user") /\ [op |-> op] \in st[p].calls
Go(p, r) == st' = [st EXCEPT ![p] = r]
Return(p, todo) == st' = [st EXCEPT ![p] = [Idle("user", @.calls) EXCEPT !.todo = todo]]

-----------------------------------------------------------------------------
(* The items of todo.                                                      *)
Next1(p, items) == st' = [st EXCEPT ![p].todo = items \o Tail(@)]
Todo(p, what) == st[p].todo # <<>> /\ Head(st[p].todo).do = what
TodoSlot(p) == Head(st[p].todo).slot
LastRef(s) == itable[s].ref = 1 /\ itable[s].valid /\ itable[s].d.nlink = 0

Decr(T, s) == [T EXCEPT ![s] = IF T[s].ref = 1 THEN FreeSlot ELSE [T[s] EXCEPT !.ref = @ - 1]]

\* iput() of an inode that has other users or links.
Iput(p) == /\ Todo(p, "iput") /\ ~LastRef(TodoSlot(p))
           /\ itable' = Decr(itable, TodoSlot(p))
           /\ Next1(p, <<>>)
           /\ UNCHANGED <<disk, durable, inop, group, ftable, ofile, cwd, lost>>

\* iput() of the last reference to an inode without links: it is freed on the
\* disk before its slot is invalid and given up.
IputFree(p) ==
    LET s == TodoSlot(p)
        d == [Truncated(itable[s].d) EXCEPT !.type = "none"]
    IN /\ Todo(p, "iput") /\ LastRef(s)
       /\ Unlocked(s)
       /\ disk' = Iupdate(Itrunc(disk, itable[s].inum, itable[s].d), itable[s].inum, d)
       /\ itable' = Loaded(itable, s, d, p)
       /\ Next1(p, Do("invalid", s) \o Do("decr", s))
       /\ UNCHANGED <<durable, inop, group, ftable, ofile, cwd, lost>>

IputInvalid(p) == /\ Todo(p, "invalid")
                  /\ itable' = [itable EXCEPT ![TodoSlot(p)].valid = FALSE,
                                              ![TodoSlot(p)].lock = NoProc]
                  /\ Next1(p, <<>>)
                  /\ UNCHANGED <<disk, durable, inop, group, ftable, ofile, cwd, lost>>

\* iput() took itable.lock again: if somebody has taken the inode in between and
\* left it without a name, nobody frees it.
IputDecr(p) ==
    LET s == TodoSlot(p)
    IN /\ Todo(p, "decr")
       /\ itable' = Decr(itable, s)
       /\ lost' = IF LastRef(s) THEN lost \cup {itable[s].inum} ELSE lost
       /\ Next1(p, <<>>)
       /\ UNCHANGED <<disk, durable, inop, group, ftable, ofile, cwd>>

Iunlock(p) == /\ Todo(p, "iunlock")
              /\ itable' = [itable EXCEPT ![TodoSlot(p)].lock = NoProc]
              /\ Next1(p, <<>>)
              /\ UNCHANGED <<disk, durable, inop, group, ftable, ofile, cwd, lost>>

\* end_op() by the processes in last commits.
EndOpBy(p, last) == /\ Todo(p, "end_op")
                    /\ inop' = inop \ {p}
                    /\ group' = IF p \in last THEN 0 ELSE group
                    /\ durable' = IF p \in last THEN disk ELSE durable
                    /\ Next1(p, <<>>)
                    /\ UNCHANGED <<disk, itable, ftable, ofile, cwd, lost>>
\* A mutant: every call commits what all have done so far.
EndOpAlone(p) == EndOpBy(p, Proc)
\* The last one out commits.
EndOpStep(p) == EndOpBy(p, IF inop = {p} THEN {p} ELSE {})

-----------------------------------------------------------------------------
(* namex().                                                                *)
WantsParent(c) == c.op \in {"unlink", "mkdir", "mknod"} \/ (c.op = "open" /\ c.create)

\* The start: the root, or the current directory.
NamexFrom(p, path) == IF path[1] = "/" THEN Iget(itable, ROOTINO)
                      ELSE [slot |-> cwd[p], tab |-> Idup(itable, cwd[p])]
StartRoom(path) == path[1] # "/" \/ Room(itable, ROOTINO)
Elems(path) == IF path[1] = "/" THEN Tail(path) ELSE path

\* begin_op() and the start of the call's first look-up.
SysPath(p) == At(p, "user") /\ \E c \in {c \in st[p].calls : "path" \in DOMAIN c} :
    LET g == NamexFrom(p, c.path)
    IN /\ StartRoom(c.path)
       /\ c.op = "link" => \A i \in Inum : disk.inode[i].nlink < MaxLinks
       /\ BeginOp(p)
       /\ itable' = g.tab
       /\ Go(p, [st[p] EXCEPT !.pc = "namex", !.call = c, !.path = Elems(c.path), !.at = g.slot,
                               !.parent = WantsParent(c)])
       /\ UNCHANGED <<disk, durable, ftable, ofile, cwd, lost>>

\* Where a failed look-up leads: sys_link() has to undo its count.
Linking(p) == st[p].call.op = "link" /\ st[p].parent
Fail(p, todo) == IF Linking(p) THEN Go(p, [st[p] EXCEPT !.pc = "unlinkold", !.todo = todo])
                 ELSE Return(p, todo \o EndOp)

Elem(p) == st[p].path[1]
LastElem(p) == Len(st[p].path) = 1

\* ilock(ip) at the top of the loop: not a directory, or no such name.
NamexFail(p) ==
    LET s == st[p].at
        d == Inode(s)
    IN /\ At(p, "namex") /\ st[p].path # <<>> /\ Ilock(s)
       /\ \/ d.type # "dir"
          \/ /\ d.type = "dir" /\ ~(st[p].parent /\ LastElem(p))
             /\ Dirlookup(disk, d, Elem(p)) = -1
       /\ itable' = Loaded(itable, s, d, NoProc)
       /\ Fail(p, Do("iput", s))
       /\ UNCHANGED <<disk, durable, inop, group, ftable, ofile, cwd, lost>>

\* Where namei() returns to.
FoundPc(c) == IF c.op = "link" THEN "linkold" ELSE c.op

\* One level down: iget() of the entry before iunlockput() of the directory.
NamexDown(p) ==
    LET s == st[p].at
        d == Inode(s)
        off == Dirlookup(disk, d, Elem(p))
        g == Iget(Loaded(itable, s, d, NoProc), Dirent(disk, d, off).inum)
        rest == Tail(st[p].path)
    IN /\ At(p, "namex") /\ st[p].path # <<>> /\ Ilock(s)
       /\ d.type = "dir" /\ ~(st[p].parent /\ LastElem(p)) /\ off # -1
       /\ Room(itable, Dirent(disk, d, off).inum)
       /\ itable' = g.tab
       /\ Go(p, IF rest = <<>> THEN [st[p] EXCEPT !.pc = FoundPc(st[p].call), !.ip = g.slot, !.path = rest,
                                                  !.at = 0, !.todo = Do("iput", s)]
                ELSE [st[p] EXCEPT !.path = rest, !.at = g.slot, !.todo = Do("iput", s)])
       /\ UNCHANGED <<disk, durable, inop, group, ftable, ofile, cwd, lost>>

ParentPc(c) == IF c.op \in {"unlink", "link"} THEN c.op ELSE "create"

\* nameiparent(): one level early, with the last element still to be looked up.
NamexParent(p) ==
    LET s == st[p].at
        d == Inode(s)
    IN /\ At(p, "namex") /\ st[p].parent /\ st[p].path # <<>> /\ LastElem(p)
       /\ Ilock(s) /\ d.type = "dir"
       /\ itable' = Loaded(itable, s, d, NoProc)
       /\ Go(p, [st[p] EXCEPT !.pc = ParentPc(st[p].call), !.dp = s, !.at = 0])
       /\ UNCHANGED <<disk, durable, inop, group, ftable, ofile, cwd, lost>>

\* A path without elements: the root has no parent.
NamexEnd(p) ==
    /\ At(p, "namex") /\ st[p].path = <<>>
    /\ IF st[p].parent THEN Fail(p, Do("iput", st[p].at))
       ELSE Go(p, [st[p] EXCEPT !.pc = FoundPc(st[p].call), !.ip = st[p].at])
    /\ UNCHANGED <<disk, durable, inop, group, itable, ftable, ofile, cwd, lost>>

-----------------------------------------------------------------------------
(* sys_link().                                                             *)
LinkDir(p) ==
    LET s == st[p].ip
    IN /\ At(p, "linkold") /\ Ilock(s) /\ Inode(s).type = "dir"
       /\ itable' = Loaded(itable, s, Inode(s), NoProc)
       /\ Return(p, Do("iput", s) \o EndOp)
       /\ UNCHANGED <<disk, durable, inop, group, ftable, ofile, cwd, lost>>

\* nlink++ before the entry is there, then the look-up of the new name.
LinkOld(p) ==
    LET s == st[p].ip
        d == [Inode(s) EXCEPT !.nlink = @ + 1]
        c == st[p].call
        g == NamexFrom(p, c.new)
    IN /\ At(p, "linkold") /\ Ilock(s) /\ Inode(s).type # "dir" /\ StartRoom(c.new)
       /\ disk' = Iupdate(disk, itable[s].inum, d)
       /\ itable' = Loaded(g.tab, s, d, NoProc)
       /\ Go(p, [st[p] EXCEPT !.pc = "namex", !.path = Elems(c.new), !.at = g.slot, !.parent = TRUE])
       /\ UNCHANGED <<durable, inop, group, ftable, ofile, cwd, lost>>

LinkNew(p) ==
    LET s == st[p].dp
    IN /\ At(p, "link") /\ Ilock(s)
       /\ \E l \in {Dirlink(disk, itable[s].inum, Inode(s), Elem(p), itable[st[p].ip].inum)} :
             /\ disk' = l.disk
             /\ itable' = Loaded(itable, s, l.d, NoProc)
             /\ IF l.ok THEN Return(p, Do("iput", s) \o Do("iput", st[p].ip) \o EndOp)
                ELSE Fail(p, Do("iput", s))
       /\ UNCHANGED <<durable, inop, group, ftable, ofile, cwd, lost>>

LinkUndo(p) ==
    LET s == st[p].ip
        d == [Inode(s) EXCEPT !.nlink = @ - 1]
    IN /\ At(p, "unlinkold") /\ Ilock(s)
       /\ disk' = Iupdate(disk, itable[s].inum, d)
       /\ itable' = Loaded(itable, s, d, NoProc)
       /\ Return(p, Do("iput", s) \o EndOp)
       /\ UNCHANGED <<durable, inop, group, ftable, ofile, cwd, lost>>

-----------------------------------------------------------------------------
(* sys_unlink(): the directory stays locked while the inode is.            *)
UnlinkDirAs(p, who) ==
    LET s == st[p].dp
        d == Inode(s)
        off == Dirlookup(disk, d, Elem(p))
        g == Iget(Loaded(itable, s, d, who), Dirent(disk, d, off).inum)
    IN /\ At(p, "unlink") /\ Ilock(s)
       /\ IF Elem(p) \in {".", ".."} \/ off = -1
          THEN /\ itable' = Loaded(itable, s, d, NoProc)
               /\ Return(p, Do("iput", s) \o EndOp)
          ELSE /\ Room(itable, Dirent(disk, d, off).inum)
               /\ itable' = g.tab
               /\ Go(p, [st[p] EXCEPT !.pc = "unlinkip", !.ip = g.slot, !.off = off])
       /\ UNCHANGED <<disk, durable, inop, group, ftable, ofile, cwd, lost>>

\* A mutant: the directory is not locked while the inode is waited for.
UnlinkDirReleased(p) == UnlinkDirAs(p, NoProc)
UnlinkDir(p) == UnlinkDirAs(p, p)

UnlinkRefused(p, todo) ==
    LET s == st[p].ip
        d == Inode(s)
    IN /\ At(p, "unlinkip") /\ Ilock(s)
       /\ d.type = "dir" /\ ~IsDirEmpty(disk, d)
       /\ itable' = Loaded(itable, s, d, NoProc)
       /\ Return(p, Do("iput", s) \o Do("iunlock", st[p].dp) \o todo \o EndOp)
       /\ UNCHANGED <<disk, durable, inop, group, ftable, ofile, cwd, lost>>
\* A mutant: the reference to the directory is kept.
UnlinkKept(p) == UnlinkRefused(p, <<>>)
UnlinkFull(p) == UnlinkRefused(p, Do("iput", st[p].dp))

\* A writei() that fails is a panic ("unlink: writei").
UnlinkEntry(p) ==
    LET s == st[p].ip
        dp == st[p].dp
        isdir == Inode(s).type = "dir"
        d == [Inode(dp) EXCEPT !.nlink = IF isdir THEN @ - 1 ELSE @]
    IN /\ At(p, "unlinkip") /\ Ilock(s)
       /\ ~(isdir /\ ~IsDirEmpty(disk, Inode(s)))
       /\ \E w \in {ClearDirent(disk, itable[dp].inum, d, st[p].off)} :
             /\ w.ok
             /\ disk' = w.disk
             /\ itable' = Loaded(Loaded(itable, s, Inode(s), p), dp, w.d, NoProc)
       /\ Go(p, [st[p] EXCEPT !.pc = "unlinked", !.todo = Do("iput", dp)])
       /\ UNCHANGED <<durable, inop, group, ftable, ofile, cwd, lost>>

\* The end of sys_unlink(), with ip still locked.
Unlinked(p) ==
    LET s == st[p].ip
        d == [Inode(s) EXCEPT !.nlink = @ - 1]
    IN /\ At(p, "unlinked")
       /\ disk' = Iupdate(disk, itable[s].inum, d)
       /\ itable' = Loaded(itable, s, d, NoProc)
       /\ Return(p, Do("iput", s) \o EndOp)
       /\ UNCHANGED <<durable, inop, group, ftable, ofile, cwd, lost>>

-----------------------------------------------------------------------------
(* create(), for sys_open(), sys_mkdir() and sys_mknod().                  *)
NewType(c) == CASE c.op = "mkdir" -> "dir" [] c.op = "mknod" -> "dev" [] OTHER -> "file"
Major(c) == IF c.op = "mknod" THEN c.major ELSE 0

CreateLookup(p) ==
    LET s == st[p].dp
        d == Inode(s)
        off == Dirlookup(disk, d, Elem(p))
        inum == IF off # -1 THEN Dirent(disk, d, off).inum ELSE FreeInum(disk)
        new == off = -1
        g == Iget(Loaded(itable, s, d, IF new THEN p ELSE NoProc), inum)
    IN /\ At(p, "create") /\ Ilock(s)
       /\ IF inum = 0
          THEN /\ itable' = Loaded(itable, s, d, NoProc)
               /\ Return(p, Do("iput", s) \o EndOp)
               /\ UNCHANGED disk
          ELSE /\ Room(itable, inum)
               /\ itable' = g.tab
               /\ disk' = IF new THEN Ialloc(disk, inum, NewType(st[p].call)) ELSE disk
               /\ Go(p, [st[p] EXCEPT !.pc = IF new THEN "fill" ELSE "exists", !.ip = g.slot,
                                       !.todo = IF new THEN <<>> ELSE Do("iput", s)])
       /\ UNCHANGED <<durable, inop, group, ftable, ofile, cwd, lost>>

\* ilock() of the new inode, its first entries, and its entry in dp; what was
\* made of the inode is in made, what of dp in named.
Filled(p, made, named) ==
    LET s == st[p].ip
        dp == st[p].dp
        isdir == NewType(st[p].call) = "dir"
        dd == [named.d EXCEPT !.nlink = IF isdir THEN @ + 1 ELSE @]
        undone == [made.d EXCEPT !.nlink = 0]
    IN IF named.ok
       THEN /\ disk' = Iupdate(named.disk, itable[dp].inum, dd)
            /\ itable' = Loaded(Loaded(itable, s, made.d, p), dp, dd, NoProc)
            /\ Go(p, [st[p] EXCEPT !.pc = "made", !.todo = Do("iput", dp)])
       ELSE /\ disk' = Iupdate(named.disk, itable[s].inum, undone)
            /\ itable' = Loaded(Loaded(itable, s, undone, NoProc), dp, named.d, p)
            /\ Return(p, Do("iput", s) \o Do("iunlock", dp) \o Do("iput", dp) \o EndOp)

Fill(p, made) == \E named \in
    {IF made.ok THEN Dirlink(made.disk, itable[st[p].dp].inum, Inode(st[p].dp), Elem(p), itable[st[p].ip].inum)
     ELSE [disk |-> made.disk, d |-> Inode(st[p].dp), ok |-> FALSE]} : Filled(p, made, named)

CreateFill(p) ==
    LET s == st[p].ip
        inum == itable[s].inum
        c == st[p].call
        d == [Inode(s) EXCEPT !.major = Major(c), !.nlink = 1]
    IN /\ At(p, "fill") /\ Ilock(s)
       /\ \E made \in {IF NewType(c) = "dir"
                       THEN MakeDots(Iupdate(disk, inum, d), inum, d, itable[st[p].dp].inum)
                       ELSE Result(disk, inum, d, TRUE)} : Fill(p, made)
       /\ UNCHANGED <<durable, inop, group, ftable, ofile, cwd, lost>>

\* The end of sys_mkdir() and sys_mknod(), with ip locked.
Made(p) == /\ At(p, "made") /\ st[p].call.op # "open"
           /\ itable' = [itable EXCEPT ![st[p].ip].lock = NoProc]
           /\ Return(p, Do("iput", st[p].ip) \o EndOp)
           /\ UNCHANGED <<disk, durable, inop, group, ftable, ofile, cwd, lost>>

-----------------------------------------------------------------------------
(* The rest of sys_open(), with ip locked; sys_chdir().                    *)
FreeFiles == {f \in File : ftable[f].ref = 0}
FreeFds(p) == {fd \in Fd : ofile[p][fd] = 0}

\* The inode is of a kind that sys_open() or create() refuses.
Refused(c, d) == CASE WantsParent(c) -> ~(c.op = "open" /\ d.type \in {"file", "dev"})
                   [] OTHER -> d.type = "dir" /\ (c.mode # "r" \/ c.trunc)
BadDevice(d) == d.type = "dev" /\ d.major \notin 0 .. NDEV - 1

OpenPc(p) == \/ st[p].pc \in {"open", "exists"} /\ Ilock(st[p].ip)
             \/ st[p].pc = "made" /\ st[p].call.op = "open"

OpenFail(p) ==
    LET s == st[p].ip
        d == Inode(s)
    IN /\ OpenPc(p) /\ Free(p)
       /\ \/ st[p].pc # "made" /\ Refused(st[p].call, d)
          \/ BadDevice(d) \/ FreeFiles = {} \/ FreeFds(p) = {}
       /\ itable' = Loaded(itable, s, d, NoProc)
       /\ Return(p, Do("iput", s) \o EndOp)
       /\ UNCHANGED <<disk, durable, inop, group, ftable, ofile, cwd, lost>>

OpenFile(p) ==
    LET s == st[p].ip
        d == Inode(s)
        c == st[p].call
        trunc == c.trunc /\ d.type = "file"
    IN /\ OpenPc(p) /\ Free(p)
       /\ ~(st[p].pc # "made" /\ Refused(c, d)) /\ ~BadDevice(d)
       /\ FreeFiles # {} /\ FreeFds(p) # {}
       /\ ftable' = [ftable EXCEPT ![Min(FreeFiles)] =
              [type |-> d.type, ref |-> 1, ip |-> s, off |-> 0,
               readable |-> c.mode # "w", writable |-> c.mode \in {"w", "rw"}]]
       /\ ofile' = [ofile EXCEPT ![p][Min(FreeFds(p))] = Min(FreeFiles)]
       /\ disk' = IF trunc THEN Itrunc(disk, itable[s].inum, d) ELSE disk
       /\ itable' = Loaded(itable, s, IF trunc THEN Truncated(d) ELSE d, NoProc)
       /\ Return(p, EndOp)
       /\ UNCHANGED <<durable, inop, group, cwd, lost>>

Chdir(p) ==
    LET s == st[p].ip
        isdir == Inode(s).type = "dir"
    IN /\ At(p, "chdir") /\ Ilock(s)
       /\ itable' = Loaded(itable, s, Inode(s), NoProc)
       /\ cwd' = IF isdir THEN [cwd EXCEPT ![p] = s] ELSE cwd
       /\ Return(p, Do("iput", IF isdir THEN cwd[p] ELSE s) \o EndOp)
       /\ UNCHANGED <<disk, durable, inop, group, ftable, ofile, lost>>

-----------------------------------------------------------------------------
(* Calls on descriptors.                                                   *)
OpenFds(p) == {fd \in Fd : ofile[p][fd] # 0}
OfFd(p, fd) == ftable[ofile[p][fd]]

\* fileclose(): the last one closes the inode, in a transaction of its own.
FileClose(p, fd, pc) ==
    LET f == ofile[p][fd]
        last == ftable[f].ref = 1
    IN /\ ofile' = [ofile EXCEPT ![p][fd] = 0]
       /\ ftable' = [ftable EXCEPT ![f] = IF last THEN FreeFile ELSE [ftable[f] EXCEPT !.ref = @ - 1]]
       /\ IF last THEN BeginOp(p) ELSE UNCHANGED <<inop, group>>
       /\ Go(p, [st[p] EXCEPT !.pc = pc, !.todo = IF last THEN Do("iput", ftable[f].ip) \o EndOp ELSE <<>>])
       /\ UNCHANGED <<disk, durable, itable, cwd, lost>>

Close(p) == Makes(p, "close") /\ \E fd \in OpenFds(p) : FileClose(p, fd, "user")

Dup(p) == Makes(p, "dup") /\ \E fd \in OpenFds(p) :
    /\ FreeFds(p) # {}
    /\ ofile' = [ofile EXCEPT ![p][Min(FreeFds(p))] = ofile[p][fd]]
    /\ ftable' = [ftable EXCEPT ![ofile[p][fd]].ref = @ + 1]
    /\ UNCHANGED <<disk, durable, inop, group, itable, cwd, st, lost>>

\* fileread() of up to a block: the offset moves under the inode's lock.
Read(p) == Makes(p, "read") /\ \E fd \in OpenFds(p) :
    LET f == OfFd(p, fd)
        d == Inode(f.ip)
    IN /\ f.readable /\ f.type # "dev" /\ Ilock(f.ip)
       /\ ftable' = [ftable EXCEPT ![ofile[p][fd]].off =
                        IF @ > d.size THEN @ ELSE Min({@ + EPB, d.size})]
       /\ itable' = Loaded(itable, f.ip, d, NoProc)
       /\ UNCHANGED <<disk, durable, inop, group, ofile, cwd, st, lost>>

\* filewrite(): a transaction for every block, until one fails.
Write(p) == Makes(p, "write") /\ \E fd \in OpenFds(p) :
    /\ OfFd(p, fd).writable /\ OfFd(p, fd).type # "dev"
    /\ BeginOp(p)
    /\ Go(p, [st[p] EXCEPT !.pc = "write", !.fd = fd, !.n = WriteBlocks])
    /\ UNCHANGED <<disk, durable, itable, ftable, ofile, cwd, lost>>

WriteBlock(p) ==
    LET f == OfFd(p, st[p].fd)
    IN /\ At(p, "write") /\ Ilock(f.ip)
       /\ \E w \in {Writei(disk, itable[f.ip].inum, Inode(f.ip), f.off, Data)} :
             /\ disk' = w.disk
             /\ itable' = Loaded(itable, f.ip, w.d, NoProc)
             /\ ftable' = [ftable EXCEPT ![ofile[p][st[p].fd]].off = IF w.ok THEN @ + EPB ELSE @]
             /\ IF w.ok /\ st[p].n > 1
                THEN Go(p, [st[p] EXCEPT !.pc = "writemore", !.n = @ - 1, !.todo = EndOp])
                ELSE Return(p, EndOp)
       /\ UNCHANGED <<durable, inop, group, ofile, cwd, lost>>

WriteMore(p) == /\ At(p, "writemore")
                /\ BeginOp(p)
                /\ Go(p, [st[p] EXCEPT !.pc = "write"])
                /\ UNCHANGED <<disk, durable, itable, ftable, ofile, cwd, lost>>

-----------------------------------------------------------------------------
(* fork() and exit(), as far as they share and close files; a crash.       *)
Fork(p) == Makes(p, "fork") /\ \E c \in Proc :
    /\ At(c, "none")
    /\ ofile' = [ofile EXCEPT ![c] = ofile[p]]
    /\ ftable' = [f \in File |-> [ftable[f] EXCEPT !.ref =
                     @ + Cardinality({fd \in Fd : ofile[p][fd] = f})]]
    /\ itable' = Idup(itable, cwd[p])
    /\ cwd' = [cwd EXCEPT ![c] = cwd[p]]
    /\ st' = [st EXCEPT ![c] = Idle("user", @.calls)]
    /\ UNCHANGED <<disk, durable, inop, group, lost>>

Exit(p) == /\ p # InitProc
           /\ Makes(p, "exit")
           /\ Go(p, [st[p] EXCEPT !.pc = "exit"])
           /\ UNCHANGED <<disk, durable, inop, group, itable, ftable, ofile, cwd, lost>>

ExitClose(p) == /\ At(p, "exit") /\ OpenFds(p) # {}
                /\ FileClose(p, Min(OpenFds(p)), "exit")

ExitCwd(p) == /\ At(p, "exit") /\ OpenFds(p) = {}
              /\ BeginOp(p)
              /\ cwd' = [cwd EXCEPT ![p] = 0]
              /\ st' = [st EXCEPT ![p] = [Idle("none", @.calls) EXCEPT !.todo = Do("iput", cwd[p]) \o EndOp]]
              /\ UNCHANGED <<disk, durable, itable, ftable, ofile, lost>>

\* The inodes without a name that only the lost tables referred to.
Orphans(D) == {i \in Inum : D.inode[i].type # "none" /\ D.inode[i].nlink = 0}

\* Bound: nothing crashes once an inode is lost.
Crash == /\ lost = {}
         /\ disk' = durable
         /\ lost' = Orphans(durable)
         /\ inop' = {} /\ group' = 0 /\ itable' = BootItable /\ ftable' = BootFtable
         /\ ofile' = BootOfile /\ cwd' = BootCwd /\ st' = BootSt([p \in Proc |-> st[p].calls])
         /\ UNCHANGED durable

Step(p) == \/ Iput(p) \/ IputFree(p) \/ IputInvalid(p) \/ IputDecr(p) \/ Iunlock(p) \/ EndOpStep(p)
           \/ NamexFail(p) \/ NamexDown(p) \/ NamexParent(p) \/ NamexEnd(p)
           \/ LinkDir(p) \/ LinkOld(p) \/ LinkNew(p) \/ LinkUndo(p)
           \/ UnlinkDir(p) \/ UnlinkFull(p) \/ UnlinkEntry(p) \/ Unlinked(p)
           \/ CreateLookup(p) \/ CreateFill(p) \/ Made(p)
           \/ OpenFail(p) \/ OpenFile(p) \/ Chdir(p)
           \/ WriteBlock(p) \/ WriteMore(p) \/ ExitClose(p) \/ ExitCwd(p)
Call(p) == SysPath(p) \/ Close(p) \/ Dup(p) \/ Read(p) \/ Write(p) \/ Fork(p) \/ Exit(p)

Next == (\E p \in Proc : Step(p) \/ Call(p)) \/ Crash

Spec == Init /\ [][Next]_vars

-----------------------------------------------------------------------------
(* Properties.                                                             *)
TypeOK == /\ disk.used \subseteq 1 .. NBLOCKS
          /\ inop \subseteq Proc
          /\ ofile \in [Proc -> [Fd -> 0 .. NFILE]]
          /\ cwd \in [Proc -> 0 .. NINODE]
          /\ \A s \in Slot : itable[s].ref \in Nat /\ itable[s].inum \in 0 .. NINODES

Allocated(D) == {i \in Inum : D.inode[i].type # "none"}

\* A block belongs to one inode or is free; an inode without a link is in use,
\* so that its last iput() will free it, or is lost.
NothingLeaks ==
    /\ disk.used = UNION {BlocksOf(disk, disk.inode[i]) : i \in Allocated(disk)}
    /\ \A i, j \in Allocated(disk) :
          i # j => BlocksOf(disk, disk.inode[i]) \cap BlocksOf(disk, disk.inode[j]) = {}
    /\ \A i \in Orphans(disk) \ lost : Has(itable, i) # {}

\* The comment of iput(), fs.c:337: the last reference to an inode without links
\* frees it.  Only a crash loses one.
LastIputFrees == [][\A p \in Proc : IputDecr(p) => lost' = lost]_vars

\* The references that processes and files hold on slot s.  Total(h) is the sum of
\* the counts h[p]: the number of pairs of a p and one of h[p] numbers.
Total(h) == Cardinality(UNION {{p} \X (1 .. h[p]) : p \in DOMAIN h})
One(cond) == IF cond THEN 1 ELSE 0
InTodo(items, s) == {k \in DOMAIN items : items[k].do \in {"iput", "decr"} /\ items[k].slot = s}
HoldsAt(r) == r.pc = "namex"
HoldsDp(r) == r.pc \in {"link", "unlink", "unlinkip", "create", "fill"}
HoldsIp(r) == \/ r.pc \in {"linkold", "unlinkold", "unlinkip", "unlinked", "fill", "exists", "made",
                           "open", "chdir", "link"}
              \/ r.pc = "namex" /\ r.call.op = "link" /\ r.parent
HeldBy(r, dir, s) == One(HoldsAt(r) /\ r.at = s) + One(HoldsDp(r) /\ r.dp = s)
                     + One(HoldsIp(r) /\ r.ip = s) + One(dir = s) + Cardinality(InTodo(r.todo, s))
FilesOf(s) == {f \in File : ftable[f].ref > 0 /\ ftable[f].ip = s}
RefsTo(s) == Cardinality(FilesOf(s)) + Total([p \in Proc |-> HeldBy(st[p], cwd[p], s)])
FdsOf(p, f) == {fd \in Fd : ofile[p][fd] = f}

\* A slot is given up when its last user is done and not before, an inode has
\* one slot, and a slot that nobody has locked agrees with the disk.
RefsExact ==
    /\ TypeOK
    /\ \A s \in Slot : itable[s].ref = RefsTo(s)
    /\ \A s, t \in Slot : s # t /\ itable[s].ref > 0 /\ itable[t].ref > 0
                             => itable[s].inum # itable[t].inum
    /\ \A s \in Slot : itable[s].ref > 0 /\ itable[s].valid /\ Unlocked(s)
                          => itable[s].d = disk.inode[itable[s].inum]
    /\ \A f \in File : ftable[f].ref = Total([p \in Proc |-> Cardinality(FdsOf(p, f))])

\* The slot that ilock() is about to take.
Target(p) == LET r == st[p] IN
    CASE r.todo # <<>> -> 0
      [] r.pc = "namex" /\ r.path # <<>> -> r.at
      [] r.pc \in {"link", "unlink", "create"} -> r.dp
      [] r.pc \in {"linkold", "unlinkold", "unlinkip", "fill", "exists", "open", "chdir"} -> r.ip
      [] r.pc = "write" -> OfFd(p, r.fd).ip
      [] OTHER -> 0
Waiting(p) == Target(p) # 0 /\ ~Unlocked(Target(p))

\* The name by which a process came to the inode that it is about to lock; none for
\* the one where its look-up begins.
CameBy(p) ==
    LET r == st[p]
        full == Elems(IF Linking(p) THEN r.call.new ELSE r.call.path)
    IN CASE r.pc \in {"unlinkip", "exists", "fill"} -> Elem(p)
         [] r.pc # "write" /\ Len(r.path) < Len(full) -> full[Len(full) - Len(r.path)]
         [] OTHER -> ""
MeetsFree(p) == Target(p) # 0 /\ Unlocked(Target(p)) /\ Inode(Target(p)).type = "none"

\* ilock() panics ("ilock: no type") behind the ".." of a directory that was removed,
\* whose parent may have been freed, and nowhere else; unlink() finds no inode without
\* a link ("unlink: nlink < 1"); the last iput() never has to wait for the lock under
\* itable.lock; and no processes wait for one another's inodes.
NoPanic ==
    /\ \A p \in Proc : MeetsFree(p) => CameBy(p) = ".."
    /\ \A p \in Proc : At(p, "unlinkip") /\ Unlocked(st[p].ip)
                         => Inode(st[p].ip).nlink >= 1
    /\ \A p \in Proc : Todo(p, "iput") /\ LastRef(TodoSlot(p)) => Unlocked(TodoSlot(p))
    /\ \A p \in Proc : Waiting(p) => itable[Target(p)].lock # p
                                       /\ ~Waiting(itable[Target(p)].lock)
=============================================================================
