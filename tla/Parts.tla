-------------------------------- MODULE Parts --------------------------------
(***************************************************************************)
(* Three parts that share no state with the rest or with each other, side  *)
(* by side: the console, the FCFS build, and the game server.  part says   *)
(* which of them a behaviour is about; the properties speak of that one.   *)
(***************************************************************************)
EXTENDS Integers, Sequences, FiniteSets

CONSTANTS Reader, Writer, NoOne, Intr, SIZE, TXSIZE, WORD, Reads, Writes,
          NPROC, UINT, Naps, MaxGames
ASSUME ConsoleAssumption == /\ SIZE \in Nat \ {0} /\ WORD \in Nat /\ WORD % SIZE = 0 /\ SIZE < WORD
                            /\ TXSIZE \in Nat \ {0} /\ WORD % TXSIZE = 0 /\ TXSIZE < WORD
                            /\ NoOne \notin Reader /\ Intr \notin Reader \cup {NoOne}
                            /\ Reads \subseteq Nat \ {0} /\ Writes \subseteq Nat
ASSUME FcfsAssumption == NPROC \in Nat \ {0, 1} /\ UINT \in Nat \ {0} /\ Naps \subseteq 0 .. UINT - 1

VARIABLES part,
          r, w, e, buf, lock, reader, writer, intr, echo, rx, irq, busy, txw, txr,
          ticks, table, cur, scan, age,
          client, up, down, server, game, choice, again

K == INSTANCE Console
F == INSTANCE Fcfs WITH proc <- table, WORD <- UINT
R == INSTANCE Rps

-----------------------------------------------------------------------------
(* Properties, each of the module that defines it.                         *)

\* consoleread() hands out what consoleintr() has committed, as Tty says.
ConsoleIsTty == K!ConsoleIsTty
\* No reader or writer of the console sleeps on what is there.
NobodyStalls == part = "console" => K!NobodyStalls
\* scheduler() of the FCFS build takes the process that was created first.
OldestFirst == part = "fcfs" => F!OldestFirst
\* sys_sleep() ends neither early nor late, and waitx() reports times that add up.
TimesAgree == F!TimesAgree
\* The server judges the choices that the players made for this game, or left behind.
GamesInStep == part = "rps" => R!GamesInStep
=============================================================================
