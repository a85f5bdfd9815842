------------------------------- MODULE FsTree -------------------------------
(***************************************************************************)
(* FileSys with the history that tells what a crash may leave: a tree, but *)
(* for the inodes that were given a name in a directory that had been      *)
(* removed.                                                                *)
(***************************************************************************)
EXTENDS FileSys

VARIABLE astray   \* history: the inodes that were ever given a name outside of the tree,
                  \* and the directories outside of it in which one was made

treeVars == <<vars, astray>>

-----------------------------------------------------------------------------
(* The tree of an image: what can be reached from the root.                *)
Dirs(D) == {i \in Inum : D.inode[i].type = "dir"}
\* The entries of the directories in S: where, and what they say.
WordsOf(D, S) == UNION {{<<i, Dirent(D, D.inode[i], off)>> : off \in Entries(D, D.inode[i])} : i \in S}
Names(D, S) == {e \in WordsOf(D, S) : e[2].name \notin {".", ".."}}

Subdirs(D, S) == {e[2].inum : e \in Names(D, S)} \cap Dirs(D)
Tree(D) == LET reach[n \in 0 .. NINODES - 1] ==
                 IF n = 0 THEN {ROOTINO} ELSE LET S == reach[n - 1] IN S \cup Subdirs(D, S)
           IN reach[NINODES - 1]

\* The names that a step makes outside of the tree.
Strays == Names(disk', Dirs(disk') \ Tree(disk')) \ Names(disk, Dirs(disk))
\* What went astray stays so: a crash may bring it back.  Names are made by sys_link()
\* and create() only.
Track == astray' = astray \cup {e[2].inum : e \in Strays}
                          \cup {e[1] : e \in {s \in Strays : s[2].inum \in Dirs(disk')}}
Keep == UNCHANGED astray

TreeInit == Init /\ astray = {}
TreeNext ==
    \/ \E p \in Proc :
         \/ Iput(p) /\ Keep
         \/ IputFree(p) /\ Keep
         \/ IputInvalid(p) /\ Keep
         \/ IputDecr(p) /\ Keep
         \/ Iunlock(p) /\ Keep
         \/ EndOpStep(p) /\ Keep
         \/ NamexFail(p) /\ Keep
         \/ NamexDown(p) /\ Keep
         \/ NamexParent(p) /\ Keep
         \/ NamexEnd(p) /\ Keep
         \/ LinkDir(p) /\ Keep
         \/ LinkOld(p) /\ Keep
         \/ LinkNew(p) /\ Track
         \/ LinkUndo(p) /\ Keep
         \/ UnlinkDir(p) /\ Keep
         \/ UnlinkFull(p) /\ Keep
         \/ UnlinkEntry(p) /\ Keep
         \/ Unlinked(p) /\ Keep
         \/ CreateLookup(p) /\ Keep
         \/ CreateFill(p) /\ Track
         \/ Made(p) /\ Keep
         \/ OpenFail(p) /\ Keep
         \/ OpenFile(p) /\ Keep
         \/ Chdir(p) /\ Keep
         \/ WriteBlock(p) /\ Keep
         \/ WriteMore(p) /\ Keep
         \/ ExitClose(p) /\ Keep
         \/ ExitCwd(p) /\ Keep
         \/ SysPath(p) /\ Keep
         \/ Close(p) /\ Keep
         \/ Dup(p) /\ Keep
         \/ Read(p) /\ Keep
         \/ Write(p) /\ Keep
         \/ Fork(p) /\ Keep
         \/ Exit(p) /\ Keep
    \/ Crash /\ Keep
TreeSpec == TreeInit /\ [][TreeNext]_treeVars

-----------------------------------------------------------------------------
(* Property.                                                               *)
\* The links that an inode has from the tree: its names, and the ".." of the
\* directories below it.
LinksTo(D, i) == {e \in WordsOf(D, Tree(D)) : e[2].inum = i /\ e[2].name # "."}
ParentsOf(D, i) == {e[1] : e \in {l \in LinksTo(D, i) : l[2].name # ".."}}

\* Every entry of the tree names an inode that exists; no inode has fewer links than
\* its count must say, and only one that went astray has more; a directory has one
\* name and its ".." is where that name is.
Consistent(D, exempt) ==
    /\ \A e \in WordsOf(D, Tree(D)) : e[2].inum \in Allocated(D)
    /\ \A i \in Allocated(D) :
          LET links == Cardinality(LinksTo(D, i))
          IN D.inode[i].nlink = links \/ (i \in exempt /\ D.inode[i].nlink > links)
    /\ \A i \in Tree(D) \ {ROOTINO} : \E j \in Tree(D) :
          /\ ParentsOf(D, i) = {j}
          /\ \E e \in LinksTo(D, j) : e[1] = i /\ e[2].name = ".."

\* What a crash leaves is consistent in this sense, whenever it comes.  Nothing
\* changes outside of a transaction.
CrashConsistent == [][/\ durable' # durable => Consistent(durable', astray')
                      /\ inop' = {} => disk' = durable']_treeVars
=============================================================================
