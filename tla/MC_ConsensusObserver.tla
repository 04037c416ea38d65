------------------------- MODULE MC_ConsensusObserver -------------------------
(* Model-checking instance: a canonical chain of two epochs of two rounds.  *)
EXTENDS ConsensusObserver

\* (1,1) (1,2) | (2,1) (2,2): (1,2) ends epoch 1.
MCChain == <<[epoch |-> 1, round |-> 1], [epoch |-> 1, round |-> 2],
             [epoch |-> 2, round |-> 1], [epoch |-> 2, round |-> 2]>>

\* (1,1) (1,2) | (2,1): the shortest chain with an epoch change in which
\* a live block has a successor in the first epoch.
MCChainShort == <<[epoch |-> 1, round |-> 1], [epoch |-> 1, round |-> 2],
                  [epoch |-> 2, round |-> 1]>>

\* (1,1) | (2,1) | (3,1): three epochs, so that a reconfiguration of an
\* intermediate epoch can be pending while state sync targets the last.
MCChainThreeEpochs == <<[epoch |-> 1, round |-> 1], [epoch |-> 2, round |-> 1],
                        [epoch |-> 3, round |-> 1]>>

\* (1,1) (1,2) | (2,1) | (3,1): three epochs, with a live block and its
\* successor in the first, so the commit callback queues a reconfiguration
\* of epoch 2 while state sync may target epoch 3.
MCChainLong == <<[epoch |-> 1, round |-> 1], [epoch |-> 1, round |-> 2],
                 [epoch |-> 2, round |-> 1], [epoch |-> 3, round |-> 1]>>
====
