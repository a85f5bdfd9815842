----------------------------- MODULE BlockStore -----------------------------
(***************************************************************************)
(* What the buffer cache promises to the file system: every block has one  *)
(* content, and only the process that has the block may change it.  No     *)
(* eviction and no disk transfer can be seen.  Bcache implements this.     *)
(***************************************************************************)
CONSTANTS Proc, NoProc, Block, Value

VARIABLES content, user

vars == <<content, user>>

Init == content \in [Block -> Value] /\ user = [k \in Block |-> NoProc]

Take(p, k) == /\ user[k] = NoProc
              /\ user' = [user EXCEPT ![k] = p]
              /\ UNCHANGED content

Change(p, k) == /\ user[k] = p
                /\ \E v \in Value : content' = [content EXCEPT ![k] = v]
                /\ UNCHANGED user

Give(p, k) == /\ user[k] = p
              /\ user' = [user EXCEPT ![k] = NoProc]
              /\ UNCHANGED content

Next == \E p \in Proc, k \in Block : Take(p, k) \/ Change(p, k) \/ Give(p, k)

Spec == Init /\ [][Next]_vars
=============================================================================
