------------------------------ MODULE Channel ------------------------------
(***************************************************************************)
(* What a pipe promises: a bounded FIFO of bytes with two ends.  Bytes go  *)
(* in while both ends are open, and come out while the read end is open.   *)
(* Pipe implements this.                                                   *)
(***************************************************************************)
EXTENDS Naturals, Sequences

CONSTANTS Byte, Capacity

VARIABLES queue, readopen, writeopen

vars == <<queue, readopen, writeopen>>

Init == queue = <<>> /\ readopen = TRUE /\ writeopen = TRUE

Send == /\ readopen /\ writeopen /\ Len(queue) < Capacity
        /\ \E b \in Byte : queue' = Append(queue, b)
        /\ UNCHANGED <<readopen, writeopen>>

Receive == /\ readopen /\ queue # <<>>
           /\ queue' = Tail(queue)
           /\ UNCHANGED <<readopen, writeopen>>

CloseRead  == readopen  /\ readopen'  = FALSE /\ UNCHANGED <<queue, writeopen>>
CloseWrite == writeopen /\ writeopen' = FALSE /\ UNCHANGED <<queue, readopen>>

Next == Send \/ Receive \/ CloseRead \/ CloseWrite

Spec == Init /\ [][Next]_vars
=============================================================================
