------------------------------ MODULE ObserverChain ------------------------------
(***************************************************************************)
(* The canonical chain the consensus observer follows, shared by the       *)
(* detailed model of observer.rs and the abstract ledger it implements.    *)
(*                                                                         *)
(* Blocks are the positions 1..Len(Chain); position 0 is the ledger info   *)
(* the node starts from (round 0 of the first epoch).  The order of        *)
(* positions is the (epoch, round) order.  A block's id is its (epoch,     *)
(* round); the first block of an epoch has the epoch's virtual genesis     *)
(* (epoch, 0) as parent, which is never a block of the chain.              *)
(***************************************************************************)
EXTENDS Integers, Sequences

CONSTANT Chain    \* the canonical chain: a sequence of [epoch, round] records

N == Len(Chain)
Positions == 0..N
Blocks == 1..N

\* The block info of a position (position 0 is the starting root).
Info(i) == IF i = 0 THEN [epoch |-> Chain[1].epoch, round |-> 0] ELSE Chain[i]

\* The id of the parent of block b: the previous round of the same epoch.
ParentId(b) == [epoch |-> Chain[b].epoch, round |-> Chain[b].round - 1]

\* The epoch the storage is in once ledger info i is committed: committing
\* the last block of an epoch starts the next one (a reconfiguration).
DbEpoch(i) == IF i \in 1..N-1 /\ Chain[i+1].epoch > Chain[i].epoch
              THEN Chain[i+1].epoch ELSE Info(i).epoch
====
