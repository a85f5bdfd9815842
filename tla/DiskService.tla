---------------------------- MODULE DiskService ----------------------------
(***************************************************************************)
(* What the disk driver promises: a request is asked for, carried out once *)
(* at some moment, and answered.  VirtioDisk implements this.              *)
(***************************************************************************)
CONSTANTS Proc, Block, Value

VARIABLES
  disk,
  req    \* of each process: stage, write, blk, and the contents of its buffer

vars == <<disk, req>>

Request == [stage : {"none", "asked", "done"}, write : BOOLEAN, blk : Block, data : Value]

Init == /\ disk \in [Block -> Value]
        /\ req \in [Proc -> {r \in Request : r.stage = "none"}]

Ask(p) == /\ req[p].stage = "none"
          /\ \E r \in Request : r.stage = "asked" /\ req' = [req EXCEPT ![p] = r]
          /\ UNCHANGED disk

Serve(p) ==
  /\ req[p].stage = "asked"
  /\ IF req[p].write
     THEN /\ disk' = [disk EXCEPT ![req[p].blk] = req[p].data]
          /\ req' = [req EXCEPT ![p].stage = "done"]
     ELSE /\ req' = [req EXCEPT ![p].stage = "done", ![p].data = disk[req[p].blk]]
          /\ UNCHANGED disk

Answer(p) == /\ req[p].stage = "done"
             /\ \E r \in Request : /\ r.stage = "none" /\ r.data = req[p].data
                                 /\ req' = [req EXCEPT ![p] = r]
             /\ UNCHANGED disk

Next == \E p \in Proc : Ask(p) \/ Serve(p) \/ Answer(p)

Spec == Init /\ [][Next]_vars
=============================================================================
