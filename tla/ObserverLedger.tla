------------------------------ MODULE ObserverLedger ------------------------------
(***************************************************************************)
(* What the consensus observer promises its local node, whatever the       *)
(* interleaving of its message handlers, the sync task and the commit      *)
(* callback: the three outputs of observer.rs and how each may change.     *)
(*                                                                         *)
(*   root    the root ledger info: it only moves forward;                  *)
(*   handed  every block handed to the execution pipeline (finalize_order) *)
(*           so far: it only grows, in (epoch, round) order, and each new  *)
(*           block extends the block handed just before it or the root     *)
(*           (P3), and lies above the root;                                *)
(*   ledger  the ledger info committed to storage: it only moves forward,  *)
(*           and only to a block that was handed to execution or to the    *)
(*           root (the target of a state sync).                            *)
(***************************************************************************)
EXTENDS ObserverChain, SequencesExt

VARIABLES root, handed, ledger

vars == <<root, handed, ledger>>

Init ==
    /\ root = 0
    /\ handed = <<>>
    /\ ledger = 0

\* Block b may be handed right after block prev (or first, if prev = 0 and
\* nothing was handed before it in this step): it is above the root, above
\* prev, and its parent is prev or the root.
MayFollow(b, prev) ==
    /\ b > root
    /\ b > prev
    /\ ParentId(b) \in {Info(prev), Info(root)}

\* The pipeline is handed a nonempty run s of blocks (one live, or the
\* drain at the end of state sync).
Hand(s) ==
    /\ s # <<>>
    /\ \A i \in 1..Len(s) :
          MayFollow(s[i], IF i > 1 THEN s[i-1]
                          ELSE IF handed = <<>> THEN root ELSE Last(handed))
    /\ handed' = handed \o s
    /\ UNCHANGED <<root, ledger>>

\* The root moves forward: to a committed ledger info or a sync target.
Advance(r) ==
    /\ r > root
    /\ root' = r
    /\ UNCHANGED <<handed, ledger>>

\* Storage commits a ledger info ahead of it that was executed or synced to.
Commit(li) ==
    /\ li > ledger
    /\ li \in {root} \cup ToSet(handed)
    /\ ledger' = li
    /\ UNCHANGED <<root, handed>>

Next ==
    \/ \E s \in BoundedSeq(Blocks, N) : Hand(s)
    \/ \E r \in Positions : Advance(r)
    \/ \E li \in Positions : Commit(li)

Spec == Init /\ [][Next]_vars
====
