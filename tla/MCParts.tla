------------------------------ MODULE MCParts ------------------------------
(***************************************************************************)
(* The parts of Parts with two more, the shell with init and malloc(). A   *)
(* behaviour is one of one part; the others stay as they begin.            *)
(***************************************************************************)
EXTENDS Parts, TLC

CONSTANTS Procs, MAXARGS, MaxLine, Chunk, Limit
ASSUME ShellAssumption == 1 \in Procs /\ Procs \subseteq Nat \ {0} /\ MAXARGS \in Nat
ASSUME UmallocAssumption == Chunk \in Nat \ {0} /\ Limit \in Nat \ {0}

VARIABLES line, tree, shell,
          ptr, size, freep, brk, used

S == INSTANCE Shell WITH proc <- tree
U == INSTANCE Umalloc

Init == /\ part \in {"console", "fcfs", "shell", "umalloc", "rps"}
        /\ K!Init /\ F!Init /\ S!Init /\ U!Init /\ R!Init

consoleVars == <<r, w, e, buf, lock, reader, writer, intr, echo, rx, irq, busy, txw, txr>>
fcfsVars    == <<ticks, table, cur, scan, age>>
shellVars   == <<line, tree, shell>>
umallocVars == <<ptr, size, freep, brk, used>>
rpsVars     == <<client, up, down, server, game, choice, again>>
vars        == <<part, consoleVars, fcfsVars, shellVars, umallocVars, rpsVars>>

InConsole == part = "console" /\ UNCHANGED <<part, fcfsVars, shellVars, umallocVars, rpsVars>>
InFcfs    == part = "fcfs" /\ UNCHANGED <<part, consoleVars, shellVars, umallocVars, rpsVars>>
InShell   == part = "shell" /\ UNCHANGED <<part, consoleVars, fcfsVars, umallocVars, rpsVars>>
InUmalloc == part = "umalloc" /\ UNCHANGED <<part, consoleVars, fcfsVars, shellVars, rpsVars>>
InRps     == part = "rps" /\ UNCHANGED <<part, consoleVars, fcfsVars, shellVars, umallocVars>>

Next == \/ \E p \in Reader : \/ InConsole /\ K!Read(p)
                             \/ InConsole /\ K!ReadKilled(p)
                             \/ InConsole /\ K!ReadSleep(p)
                             \/ InConsole /\ K!ReadEof(p)
                             \/ InConsole /\ K!ReadByte(p)
                             \/ InConsole /\ K!ReadFault(p)
                             \/ InConsole /\ K!Kill(p)
        \/ \E p \in Writer : \/ InConsole /\ K!Write(p)
                             \/ InConsole /\ K!Uartputc(p)
                             \/ InConsole /\ K!UartputcSleep(p)
        \/ InConsole /\ K!Uartintr
        \/ InConsole /\ K!Consoleintr
        \/ InConsole /\ K!Echo
        \/ InConsole /\ K!EchoDone
        \/ InConsole /\ K!UartintrSend
        \/ InConsole /\ K!Sent
        \/ InConsole /\ K!Typed
        \/ InFcfs /\ F!ScanSlot
        \/ InFcfs /\ F!Dispatch
        \/ InFcfs /\ F!Tick
        \/ \E p \in F!Slots : \/ InFcfs /\ F!Syscall(p)
                              \/ InFcfs /\ F!Sleep(p)
                              \/ InFcfs /\ F!Fork(p)
                              \/ InFcfs /\ F!Forked(p)
                              \/ InFcfs /\ F!Kill(p)
                              \/ InFcfs /\ F!Exit(p)
                              \/ InFcfs /\ F!Waitx(p)
        \/ InShell /\ S!Typed
        \/ InShell /\ S!Enter
        \/ InShell /\ S!Cd
        \/ InShell /\ S!Eof
        \/ \E p \in Procs : \/ InShell /\ S!SyntaxError(p)
                            \/ InShell /\ S!RunExec(p)
                            \/ InShell /\ S!RunRedir(p)
                            \/ InShell /\ S!RunList(p)
                            \/ InShell /\ S!RunBack(p)
                            \/ InShell /\ S!RunPipe(p)
                            \/ InShell /\ S!ForkLeft(p)
                            \/ InShell /\ S!ForkRight(p)
                            \/ InShell /\ S!ClosePipe(p)
                            \/ InShell /\ S!Wait(p)
                            \/ InShell /\ S!Last(p)
                            \/ InShell /\ S!Ends(p)
                            \/ InShell /\ S!InitReaps(p)
        \/ InUmalloc /\ U!Malloc
        \/ InUmalloc /\ U!Free
        \/ \E c \in R!Client : \/ InRps /\ R!Choose(c)
                               \/ InRps /\ R!Result(c)
                               \/ InRps /\ R!PlayAgain(c)
                               \/ InRps /\ R!Killed(c)
        \/ InRps /\ R!RecvChoice1
        \/ InRps /\ R!RecvChoice2
        \/ InRps /\ R!SendResult
        \/ InRps /\ R!SendAgain
        \/ InRps /\ R!RecvAgain1
        \/ InRps /\ R!RecvAgain2
        \/ InRps /\ R!NextPair
Spec == Init /\ [][Next]_vars

-----------------------------------------------------------------------------
(* States that differ in nothing that is ever looked at are one.           *)
Symmetric == Permutations(Reader)
\* The buffer only between r and e; of the transmit buffer how much it holds.
ConsoleShape == <<r, w, e, [i \in 1 .. K!Sub(e, r) |-> buf[K!Add(r, i - 1) % SIZE]], lock,
                  reader, writer, intr, echo, rx, irq, busy, K!Sub(txw, txr)>>
\* The times of a zombie as one difference; none of a process that is older than the
\* properties speak of, except its creation.
FcfsShape ==
    LET Seen(p) == LET z == table[p].state = "ZOMBIE" IN
          [table[p] EXCEPT !.ctime = IF z THEN 0 ELSE @,
                           !.etime = IF z /\ age[p] < UINT THEN F!Sub(@, table[p].ctime) ELSE 0,
                           !.rtime = IF age[p] < UINT THEN @ ELSE 0]
    IN <<ticks, [p \in F!Slots |-> Seen(p)], cur, scan, age>>
\* Headers only where there is one.
UmallocShape == IF freep = -1 THEN <<>>
                ELSE <<[a \in U!FreeBlocks |-> <<ptr[a], size[a]>>], [a \in used |-> size[a]], freep, brk>>
Shape == CASE part = "console" -> <<part, ConsoleShape>>
           [] part = "fcfs" -> <<part, FcfsShape>>
           [] part = "shell" -> <<part, shellVars>>
           [] part = "umalloc" -> <<part, UmallocShape>>
           [] part = "rps" -> <<part, rpsVars>>

-----------------------------------------------------------------------------
(* Properties, each of the module that defines it; the others are in Parts. *)

\* parsecmd() accepts the command lines and no others.
ParsesCommands == part = "shell" => S!ParsesCommands
\* The shell prompts when its line is done, and always in the end.
PromptMeansDone == part = "shell" => S!PromptMeansDone
\* malloc() and free() lose no memory and hand none out twice.
HeapSound == part = "umalloc" => U!HeapSound
=============================================================================
