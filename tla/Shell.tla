------------------------------- MODULE Shell -------------------------------
(***************************************************************************)
(* The shell and init: the parser of command lines, the tree of processes  *)
(* that run one, and who waits for whom.                                   *)
(* Source: user/sh.c, user/init.c.                                         *)
(*                                                                         *)
(* A word of a line is "a"; >> stands as >.  The programs are external: in *)
(* the worst case they read their input to its end.                        *)
(***************************************************************************)
EXTENDS Integers, Sequences, FiniteSets

CONSTANTS Procs,    \* the processes there can be, 1 is the first shell
          MAXARGS,
          MaxLine   \* bound: the tokens of a line


VARIABLES line,   \* what has been typed, as tokens
          proc,   \* of each process: the command, where it is, its standard input and
                  \* output, the pipe of which it has both ends, its parent, and
                  \* (history) whether nobody is to wait for it
          shell   \* init: the shell
vars == <<line, proc, shell>>

Token == {"a", "|", ";", "&", "(", ")", "<", ">"}

-----------------------------------------------------------------------------
(* The parser.  A parse function returns a command and the tokens left.    *)
Exec(argc) == [type |-> "EXEC", argc |-> argc]
Redir(c, fd) == [type |-> "REDIR", cmd |-> c, fd |-> fd]
Pipe(l, r) == [type |-> "PIPE", left |-> l, right |-> r]
List(l, r) == [type |-> "LIST", left |-> l, right |-> r]
Back(c) == [type |-> "BACK", cmd |-> c]
\* panic(): the process that parses exits.
Syntax == [type |-> "SYNTAX"]

Parsed(c, s) == [cmd |-> c, rest |-> s]
Panic == Parsed(Syntax, <<>>)
Peek(s, toks) == s # <<>> /\ Head(s) \in toks

RECURSIVE ParseLine(_), ParsePipe(_), ParseRedirs(_, _), ParseArgs(_, _, _), ParseBacks(_, _)
ParseRedirs(c, s) ==
    IF ~Peek(s, {"<", ">"}) THEN Parsed(c, s)
    ELSE IF ~Peek(Tail(s), {"a"}) THEN Panic
    ELSE ParseRedirs(Redir(c, IF Head(s) = "<" THEN 0 ELSE 1), Tail(Tail(s)))

\* parseexec() after its first redirections; c holds those met so far.
RECURSIVE WithArgs(_, _)
WithArgs(c, argc) == IF c.type = "EXEC" THEN Exec(argc) ELSE [c EXCEPT !.cmd = WithArgs(@, argc)]
ParseArgs(c, argc, s) ==
    IF s = <<>> \/ Peek(s, {"|", ")", "&", ";"}) THEN Parsed(WithArgs(c, argc), s)
    ELSE IF Head(s) # "a" \/ argc + 1 >= MAXARGS THEN Panic
    ELSE LET r == ParseRedirs(c, Tail(s))
         IN IF r.cmd = Syntax THEN Panic ELSE ParseArgs(r.cmd, argc + 1, r.rest)

ParseBlock(s) == LET r == ParseLine(Tail(s))
                 IN IF r.cmd = Syntax \/ ~Peek(r.rest, {")"}) THEN Panic
                    ELSE ParseRedirs(r.cmd, Tail(r.rest))
ParseExec(s) == IF Peek(s, {"("}) THEN ParseBlock(s)
                ELSE LET r == ParseRedirs(Exec(0), s)
                     IN IF r.cmd = Syntax THEN Panic ELSE ParseArgs(r.cmd, 0, r.rest)

ParsePipe(s) == LET l == ParseExec(s)
                IN IF l.cmd = Syntax \/ ~Peek(l.rest, {"|"}) THEN l
                   ELSE LET r == ParsePipe(Tail(l.rest))
                        IN IF r.cmd = Syntax THEN Panic ELSE Parsed(Pipe(l.cmd, r.cmd), r.rest)

ParseBacks(c, s) == IF Peek(s, {"&"}) THEN ParseBacks(Back(c), Tail(s)) ELSE Parsed(c, s)
\* A mutant: after & another command may follow at once.
SeparatorAny == {";", "a"}
Separator == {";"}
ParseLine(s) ==
    LET p == ParsePipe(s)
        l == ParseBacks(p.cmd, p.rest)
    IN IF p.cmd = Syntax THEN Panic
       ELSE IF ~Peek(l.rest, Separator) THEN l
       ELSE LET r == ParseLine(Tail(l.rest))
            IN IF r.cmd = Syntax THEN Panic ELSE Parsed(List(l.cmd, r.cmd), r.rest)

ParseCmd(s) == LET r == ParseLine(s) IN IF r.rest = <<>> THEN r.cmd ELSE Syntax

-----------------------------------------------------------------------------
(* Processes.                                                              *)
None == 0
Tty == 0
File == -1
Nothing == Exec(0)
Unused == [pc |-> "unused", cmd |-> Nothing, in |-> Tty, out |-> Tty, held |-> None,
           parent |-> None, loose |-> FALSE]
Sh == [Unused EXCEPT !.pc = "prompt"]   \* its parent is init

Init == line = <<>> /\ shell = 1 /\ proc = [p \in Procs |-> IF p = 1 THEN Sh ELSE Unused]

Live == {p \in Procs : proc[p].pc # "unused"}
Kids(p) == {q \in Live : proc[q].parent = p}
Dead(p) == {q \in Kids(p) : proc[q].pc = "zombie"}
At(p, pc) == proc[p].pc = pc
Type(p, t) == At(p, "run") /\ proc[p].cmd.type = t
Become(p, r) == proc' = [proc EXCEPT ![p] = r]
\* exit(): the children are left to init; those of a process that panics in the
\* middle of a pipeline are waited for by nobody.
Exited(pr, p, panics) ==
    [q \in Procs |-> CASE q = p -> [Unused EXCEPT !.pc = "zombie", !.parent = pr[p].parent,
                                                  !.loose = pr[p].loose]
                       [] q # p /\ pr[q].parent = p /\ pr[q].pc # "unused" ->
                            [pr[q] EXCEPT !.parent = None, !.loose = @ \/ panics]
                       [] OTHER -> pr[q]]
Exit(p, panics) == proc' = Exited(proc, p, panics)

\* fork1(), with what the parent p goes on as, and the child.
Forks(p, r, child) ==
    \/ \E q \in Procs : /\ proc[q].pc = "unused" /\ \A o \in Procs \ Live : q <= o
                        /\ proc' = [proc EXCEPT ![p] = r, ![q] = [child EXCEPT !.parent = p]]
    \/ Exit(p, TRUE)
Child(p, c) == [proc[p] EXCEPT !.pc = "run", !.cmd = c, !.held = None]

-----------------------------------------------------------------------------
(* main() of the shell.                                                    *)
\* A line is typed while nothing else runs (bound).
Typed == \E t \in Token : /\ At(shell, "prompt") /\ Live = {shell} /\ Len(line) < MaxLine
                          /\ line' = Append(line, t)
                          /\ UNCHANGED <<proc, shell>>
Enter == /\ At(shell, "prompt") /\ Live = {shell}
         /\ line' = <<>>
         /\ Forks(shell, [proc[shell] EXCEPT !.pc = "wait"], Child(shell, ParseCmd(line)))
         /\ UNCHANGED shell
\* A line whose first word is "cd" is done in main(), whatever else it says.
Cd == /\ At(shell, "prompt") /\ Live = {shell} /\ line # <<>> /\ Head(line) = "a"
      /\ line' = <<>>
      /\ UNCHANGED <<proc, shell>>
Eof == /\ At(shell, "prompt") /\ Live = {shell} /\ line = <<>>
       /\ Exit(shell, FALSE)
       /\ UNCHANGED <<line, shell>>

-----------------------------------------------------------------------------
(* runcmd().                                                               *)
SyntaxError(p) == Type(p, "SYNTAX") /\ Exit(p, TRUE) /\ UNCHANGED <<line, shell>>
\* exec() fails, or the process is the program from now on.
RunExec(p) == /\ Type(p, "EXEC")
              /\ \/ Exit(p, FALSE)
                 \/ proc[p].cmd.argc > 0 /\ Become(p, [proc[p] EXCEPT !.pc = "program", !.cmd = Nothing])
              /\ UNCHANGED <<line, shell>>
RunRedir(p) == /\ Type(p, "REDIR")
               /\ \/ Become(p, [proc[p] EXCEPT !.cmd = @.cmd, !.in = IF proc[p].cmd.fd = 0 THEN File ELSE @,
                                               !.out = IF proc[p].cmd.fd = 1 THEN File ELSE @])
                  \/ Exit(p, FALSE)   \* open() fails
               /\ UNCHANGED <<line, shell>>
RunList(p) == /\ Type(p, "LIST")
              /\ Forks(p, [proc[p] EXCEPT !.pc = "wait", !.cmd = @.right], Child(p, proc[p].cmd.left))
              /\ UNCHANGED <<line, shell>>
RunBack(p) == /\ Type(p, "BACK")
              /\ \/ \E q \in Procs : /\ proc[q].pc = "unused" /\ \A o \in Procs \ Live : q <= o
                                     /\ proc' = Exited([proc EXCEPT ![q] = [Child(p, proc[p].cmd.cmd)
                                                      EXCEPT !.parent = p, !.loose = TRUE]], p, FALSE)
                 \/ Exit(p, TRUE)
              /\ UNCHANGED <<line, shell>>

\* The pipe is called k; the left child and then the right one get an end.
Pipes == UNION {{proc[p].in, proc[p].out, proc[p].held} : p \in Live}
RunPipe(p) == /\ Type(p, "PIPE")
              /\ \/ \E k \in Procs : /\ k \notin Pipes /\ \A o \in Procs \ Pipes : k <= o
                                     /\ Become(p, [proc[p] EXCEPT !.pc = "left", !.held = k])
                 \/ Exit(p, TRUE)
              /\ UNCHANGED <<line, shell>>
ForkLeft(p) == /\ At(p, "left")
               /\ Forks(p, [proc[p] EXCEPT !.pc = "right"],
                        [Child(p, proc[p].cmd.left) EXCEPT !.out = proc[p].held])
               /\ UNCHANGED <<line, shell>>
ForkRight(p) == /\ At(p, "right")
                /\ Forks(p, [proc[p] EXCEPT !.pc = "close"],
                         [Child(p, proc[p].cmd.right) EXCEPT !.in = proc[p].held])
                /\ UNCHANGED <<line, shell>>
ClosePipe(p) == /\ At(p, "close")
                /\ Become(p, [proc[p] EXCEPT !.pc = "wait2", !.held = None, !.cmd = Nothing])
                /\ UNCHANGED <<line, shell>>

\* wait(0): a dead child, or none to wait for.
\* A mutant: one wait for a pipeline.
AfterOnce(pc) == IF pc \in {"wait2", "wait1"} THEN "last" ELSE "run"
\* The right side of a list, the end of a pipeline after two waits, or the prompt.
After(pc) == CASE pc = "wait2" -> "wait1" [] pc = "wait1" -> "last" [] OTHER -> "run"
Wait(p) == /\ proc[p].pc \in {"wait", "wait2", "wait1"}
           /\ \/ Kids(p) = {} /\ Become(p, [proc[p] EXCEPT !.pc = IF p = shell THEN "prompt" ELSE After(@)])
              \/ \E q \in Dead(p) :
                    proc' = [proc EXCEPT ![q] = Unused, ![p].pc = IF p = shell THEN "prompt" ELSE After(@)]
           /\ UNCHANGED <<line, shell>>
Last(p) == At(p, "last") /\ Exit(p, FALSE) /\ UNCHANGED <<line, shell>>

\* External: the program ends; if it reads a pipe, when nobody can write to it.
Writers(k) == {q \in Live : proc[q].out = k \/ proc[q].held = k}
Ends(p) == /\ At(p, "program")
           /\ proc[p].in \in Procs => Writers(proc[p].in) = {}
           /\ Exit(p, FALSE)
           /\ UNCHANGED <<line, shell>>

\* init waits for every orphan, and starts another shell when the shell has exited.
InitReaps(p) == /\ At(p, "zombie") /\ proc[p].parent = None
                /\ Become(p, IF p = shell THEN Sh ELSE Unused)
                /\ UNCHANGED <<line, shell>>

Next == \/ Typed \/ Enter \/ Cd \/ Eof
        \/ \E p \in Procs : \/ SyntaxError(p) \/ RunExec(p) \/ RunRedir(p) \/ RunList(p) \/ RunBack(p)
                            \/ RunPipe(p) \/ ForkLeft(p) \/ ForkRight(p) \/ ClosePipe(p)
                            \/ Wait(p) \/ Last(p) \/ Ends(p) \/ InitReaps(p)
Spec == Init /\ [][Next]_vars

-----------------------------------------------------------------------------
(* Properties.                                                             *)

\* The prompt appears when all that the line has started is over, but for what runs in
\* the background or was left behind by a fork() or pipe() that failed; and it does
\* appear: processes never wait for each other, for a child or for the last writer of a
\* pipe, in a circle that holds all of them.
Waits(p) == \/ proc[p].pc \in {"wait", "wait2", "wait1"} /\ Kids(p) # {} /\ Dead(p) = {}
            \/ At(p, "program") /\ proc[p].in \in Procs /\ Writers(proc[p].in) # {}
PromptMeansDone ==
    /\ At(shell, "prompt") =>
         /\ Kids(shell) = {}
         /\ \A p \in Live \ {shell} : proc[p].parent = None => proc[p].loose \/ At(p, "zombie")
    /\ \E p \in Live : ~Waits(p)

\* Which lines are commands, without a parser: brackets match, a redirection has its
\* file, a bracket opens only where a command begins, and behind a bracket or an & there
\* are no words (a file apart) before the next | ; or bracket.
Depth(s, i) == Cardinality({j \in 1 .. i : s[j] = "("}) - Cardinality({j \in 1 .. i : s[j] = ")"})
IsFile(s, i) == i > 1 /\ s[i - 1] \in {"<", ">"}
Args(s, i) == Cardinality({j \in 1 .. i : s[j] = "a" /\ ~IsFile(s, j)
                              /\ \A k \in j .. i : s[k] \in {"a", "<", ">"}})
IsCommand(s) ==
    /\ \A i \in 1 .. Len(s) :
         LET lead == {j \in 1 .. i - 1 : s[j] # "a" /\ s[j] \notin {"<", ">"}}
             \* the last token before i that is neither a word nor of a redirection
             before == IF lead = {} THEN ";" ELSE s[CHOOSE j \in lead : \A k \in lead : k <= j]
         IN /\ Depth(s, i) >= 0
            /\ s[i] \in {"<", ">"} => i < Len(s) /\ s[i + 1] = "a" /\ before # "&"
            /\ s[i] = "(" => i = 1 \/ s[i - 1] \in {"(", "|", ";"}
            /\ s[i] = "a" /\ ~IsFile(s, i) => before \in {"(", "|", ";"}
            /\ s[i] = "|" => before # "&"
            /\ Args(s, i) < MAXARGS
    /\ Depth(s, Len(s)) = 0

\* The parser accepts exactly the commands.
ParsesCommands == (ParseCmd(line) # Syntax) <=> IsCommand(line)
=============================================================================
