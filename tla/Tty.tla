-------------------------------- MODULE Tty --------------------------------
(***************************************************************************)
(* What the console promises to those who type and to those who read: a    *)
(* line can be edited until it is committed, by its end, by an end of file *)
(* or because there is no room for more; what is committed is read in the  *)
(* order in which it was typed.  Console implements it.                    *)
(***************************************************************************)
EXTENDS Sequences, Naturals

CONSTANTS Char, Ends, Size
VARIABLES committed, line

Init == committed = <<>> /\ line = <<>>

Room == Len(committed) + Len(line) < Size
Full == Len(committed) + Len(line) + 1 = Size
Type == \E c \in Char :
    /\ Room
    /\ IF c \in Ends \/ Full
       THEN committed' = committed \o Append(line, c) /\ line' = <<>>
       ELSE line' = Append(line, c) /\ UNCHANGED committed
Erase == /\ line # <<>>
         /\ line' = SubSeq(line, 1, Len(line) - 1)
         /\ UNCHANGED committed
EraseLine == line' = <<>> /\ UNCHANGED committed
Take == /\ committed # <<>>
        /\ committed' = Tail(committed)
        /\ UNCHANGED line

Next == Type \/ Erase \/ EraseLine \/ Take
Spec == Init /\ [][Next]_<<committed, line>>
=============================================================================
