------------------------------ MODULE Console ------------------------------
(***************************************************************************)
(* The console: read() and write() of processes, the line editor of the    *)
(* input interrupt, and the UART's transmit buffer.                        *)
(* Source: kernel/console.c, kernel/uart.c.                                *)
(*                                                                         *)
(* The UART is external: it keeps what was written to it until it has been *)
(* sent, and asks for an interrupt when it has input or has become idle.   *)
(* An interrupt that is asked for while one is handled is handled next.    *)
(***************************************************************************)
EXTENDS Integers, Sequences, FiniteSets

CONSTANTS Reader, Writer,
          NoOne,    \* the holder of a free lock
          Intr,     \* the interrupt handler
          SIZE,     \* INPUT_BUF_SIZE
          TXSIZE,   \* UART_TX_BUF_SIZE
          WORD,     \* 2^32: the indices wrap around
          Reads, Writes  \* bounds: the n of read() and write()


VARIABLES r, w, e, buf,  \* cons
          lock,          \* cons.lock
          reader,        \* of each: where it is, what it has read, what it wants, killed
          writer,        \* of each: the bytes left, and whether it sleeps
          intr,          \* the handler: "off", "rx", "echo" or "tx"
          echo,          \* calls of consputc() still to come
          rx, irq,       \* external: a character in the UART, an interrupt asked for
          busy,          \* external: the UART is not idle
          txw, txr       \* uart_tx_w and uart_tx_r
vars == <<r, w, e, buf, lock, reader, writer, intr, echo, rx, irq, busy, txw, txr>>

\* What can be typed: a letter, a newline, ^D, ^H, ^U and ^P.
Char == {"x", "\n", "D"}
Ends == {"\n", "D"}
Control == {"H", "U", "P"}
NoChar == ""

Sub(a, b) == (a - b) % WORD
Add(a, n) == (a + n) % WORD

Idle == [pc |-> "user", got |-> 0, n |-> 0, killed |-> FALSE]
Init == /\ r = 0 /\ w = 0 /\ e = 0 /\ buf = [i \in 0 .. SIZE - 1 |-> NoChar]
        /\ lock = NoOne
        /\ reader = [p \in Reader |-> Idle]
        /\ writer = [p \in Writer |-> [left |-> 0, asleep |-> FALSE]]
        /\ intr = "off" /\ echo = 0
        /\ rx = NoChar /\ irq = FALSE /\ busy = FALSE
        /\ txw = 0 /\ txr = 0

-----------------------------------------------------------------------------
(* consoleread().                                                          *)
Read(p) == \E n \in Reads :
    /\ reader[p].pc = "user"
    /\ reader' = [reader EXCEPT ![p] = [@ EXCEPT !.pc = "loop", !.n = n, !.got = 0]]
    /\ UNCHANGED <<r, w, e, buf, lock, writer, intr, echo, rx, irq, busy, txw, txr>>

\* It has or gets cons.lock.
Locks(p) == reader[p].pc = "loop" /\ lock \in {NoOne, p}
Leave(p, rec) == lock' = NoOne /\ reader' = [reader EXCEPT ![p] = rec]

ReadKilled(p) == /\ Locks(p) /\ r = w /\ reader[p].killed
                 /\ Leave(p, Idle)
                 /\ UNCHANGED <<r, w, e, buf, writer, intr, echo, rx, irq, busy, txw, txr>>

ReadSleep(p) == /\ Locks(p) /\ r = w /\ ~reader[p].killed
                /\ Leave(p, [reader[p] EXCEPT !.pc = "asleep"])
                /\ UNCHANGED <<r, w, e, buf, writer, intr, echo, rx, irq, busy, txw, txr>>

Head1 == buf[r % SIZE]
\* ^D ends the read.  It stays for the next one if this one has got anything.
EofIndex(got) == IF got > 0 THEN r ELSE Add(r, 1)
ReadEof(p) == /\ Locks(p) /\ r # w /\ Head1 = "D"
              /\ r' = EofIndex(reader[p].got)
              /\ Leave(p, Idle)
              /\ UNCHANGED <<w, e, buf, writer, intr, echo, rx, irq, busy, txw, txr>>

\* One byte; the read goes on until it has n bytes or a line.
ReadByte(p) ==
    LET done == Head1 = "\n" \/ reader[p].got + 1 = reader[p].n
    IN /\ Locks(p) /\ r # w /\ Head1 # "D"
       /\ r' = Add(r, 1)
       /\ IF done THEN Leave(p, Idle)
          ELSE lock' = p /\ reader' = [reader EXCEPT ![p].got = @ + 1]
       /\ UNCHANGED <<w, e, buf, writer, intr, echo, rx, irq, busy, txw, txr>>

\* The address is bad: the byte is gone.
ReadFault(p) == /\ Locks(p) /\ r # w /\ Head1 # "D"
                /\ r' = Add(r, 1)
                /\ Leave(p, Idle)
                /\ UNCHANGED <<w, e, buf, writer, intr, echo, rx, irq, busy, txw, txr>>

\* kill() wakes a sleeping process.  One that is killed at another moment finds it out
\* at the same place, or when it returns, and ends; then another comes (bound).
Kill(p) == /\ reader[p].pc = "asleep"
           /\ reader' = [reader EXCEPT ![p] = [@ EXCEPT !.killed = TRUE, !.pc = "loop"]]
           /\ UNCHANGED <<r, w, e, buf, lock, writer, intr, echo, rx, irq, busy, txw, txr>>

-----------------------------------------------------------------------------
(* consolewrite(): uartputc() of every byte; uartstart().                  *)
Write(p) == \E n \in Writes :
    /\ writer[p].left = 0
    /\ writer' = [writer EXCEPT ![p].left = n]
    /\ UNCHANGED <<r, w, e, buf, lock, reader, intr, echo, rx, irq, busy, txw, txr>>

TxFull == txw = Add(txr, TXSIZE)
\* uartstart() with tw as uart_tx_w: at most one byte, after which the UART is busy.
Sends(tw) == tw # txr /\ ~busy
Woken(wr) == [q \in Writer |-> [wr[q] EXCEPT !.asleep = FALSE]]
\* A mutant: nobody is told that there is room.
UartstartSilent(tw, wr) == /\ txr' = IF Sends(tw) THEN Add(txr, 1) ELSE txr
                           /\ busy' = (busy \/ Sends(tw))
                           /\ writer' = wr
Uartstart(tw, wr) == /\ txr' = IF Sends(tw) THEN Add(txr, 1) ELSE txr
                     /\ busy' = (busy \/ Sends(tw))
                     /\ writer' = IF Sends(tw) THEN Woken(wr) ELSE wr

Uartputc(p) == /\ writer[p].left > 0 /\ ~writer[p].asleep /\ ~TxFull
               /\ txw' = Add(txw, 1)
               /\ Uartstart(txw', [writer EXCEPT ![p].left = @ - 1])
               /\ UNCHANGED <<r, w, e, buf, lock, reader, intr, echo, rx, irq>>
UartputcSleep(p) == /\ writer[p].left > 0 /\ ~writer[p].asleep /\ TxFull
                    /\ writer' = [writer EXCEPT ![p].asleep = TRUE]
                    /\ UNCHANGED <<r, w, e, buf, lock, reader, intr, echo, rx, irq, busy, txw, txr>>

-----------------------------------------------------------------------------
(* uartintr() and consoleintr().                                           *)
Uartintr == /\ irq /\ intr = "off"
            /\ irq' = FALSE /\ intr' = "rx"
            /\ UNCHANGED <<r, w, e, buf, lock, reader, writer, echo, rx, busy, txw, txr>>

Erased(n) == e' = Sub(e, n) /\ echo' = n /\ UNCHANGED <<w, buf, reader>>
\* ^U goes back to the last newline that is not committed; there is none.
AtNewline(n) == n = Sub(e, w) \/ buf[Sub(e, n + 1) % SIZE] = "\n"
KillLine == CHOOSE n \in 0 .. Sub(e, w) : AtNewline(n) /\ \A k \in 0 .. n - 1 : ~AtNewline(k)

Wake == reader' = [p \in Reader |-> IF reader[p].pc = "asleep" THEN [reader[p] EXCEPT !.pc = "loop"]
                                    ELSE reader[p]]
\* A mutant: one character too many.
RoomPast == Sub(e, r) <= SIZE
Room == Sub(e, r) < SIZE
Store(c) ==
    /\ e' = Add(e, 1)
    /\ buf' = [buf EXCEPT ![e % SIZE] = c]
    /\ echo' = 1
    /\ IF c \in Ends \/ Sub(e', r) = SIZE THEN w' = e' /\ Wake ELSE UNCHANGED <<w, reader>>

\* consoleintr() of the character in the UART, with cons.lock from here to the
\* end of the echo.
Consoleintr == /\ intr = "rx" /\ rx # NoChar /\ lock = NoOne
               /\ rx' = NoChar /\ lock' = Intr /\ intr' = "echo"
               /\ CASE rx = "U" -> Erased(KillLine)
                    [] rx = "H" /\ e # w -> Erased(1)
                    [] rx \in Char /\ Room -> Store(rx)
                    [] OTHER -> echo' = 0 /\ UNCHANGED <<e, w, buf, reader>>
               /\ UNCHANGED <<r, writer, irq, busy, txw, txr>>

\* uartputc_sync() waits for the UART without sleeping.  The three characters that
\* rub one out stand as one.
Echo == /\ intr = "echo" /\ echo > 0 /\ ~busy
        /\ echo' = echo - 1 /\ busy' = TRUE
        /\ UNCHANGED <<r, w, e, buf, lock, reader, writer, intr, rx, irq, txw, txr>>
EchoDone == /\ intr = "echo" /\ echo = 0
            /\ intr' = "rx" /\ lock' = NoOne
            /\ UNCHANGED <<r, w, e, buf, reader, writer, echo, rx, irq, busy, txw, txr>>

\* No more input: the bytes that wait to be sent.
UartintrSend == /\ intr = "rx" /\ rx = NoChar
                /\ intr' = "off"
                /\ Uartstart(txw, writer)
                /\ UNCHANGED <<r, w, e, buf, lock, reader, echo, rx, irq, txw>>

-----------------------------------------------------------------------------
(* The UART.                                                               *)
Sent == /\ busy
        /\ busy' = FALSE /\ irq' = TRUE
        /\ UNCHANGED <<r, w, e, buf, lock, reader, writer, intr, echo, rx, txw, txr>>
Typed == \E c \in Char \cup Control :
    /\ rx = NoChar
    /\ rx' = c /\ irq' = TRUE
    /\ UNCHANGED <<r, w, e, buf, lock, reader, writer, intr, echo, busy, txw, txr>>

Next == \/ \E p \in Reader : \/ Read(p) \/ ReadKilled(p) \/ ReadSleep(p) \/ ReadEof(p)
                             \/ ReadByte(p) \/ ReadFault(p) \/ Kill(p)
        \/ \E p \in Writer : Write(p) \/ Uartputc(p) \/ UartputcSleep(p)
        \/ Uartintr \/ Consoleintr \/ Echo \/ EchoDone \/ UartintrSend
        \/ Sent \/ Typed
Spec == Init /\ [][Next]_vars

-----------------------------------------------------------------------------
(* Properties.                                                             *)

\* The console is a Tty: the indices, which wrap around, and the buffer behind
\* them are a queue of what is committed followed by the line that is edited.
Slice(a, b) == [i \in 1 .. Sub(b, a) |-> buf[Add(a, i - 1) % SIZE]]
T == INSTANCE Tty WITH committed <- Slice(r, w), line <- Slice(w, e), Size <- SIZE
ConsoleIsTty == T!Spec

\* Nobody sleeps on what is there: a reader sleeps only without committed input and
\* while it is not killed (with one CPU kill() cannot come between its check and its
\* sleep), a full buffer is committed, a writer sleeps only on a full buffer, and bytes
\* that wait to be sent have an interrupt that will send them.
NobodyStalls ==
    /\ \A p \in Reader : reader[p].pc = "asleep" => r = w /\ ~reader[p].killed
    /\ Sub(e, r) = SIZE => r # w
    /\ \A p \in Writer : writer[p].asleep => TxFull
    /\ txw # txr => busy \/ irq \/ intr # "off"
=============================================================================
