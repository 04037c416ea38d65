--------------------------- MODULE ConsensusObserver ---------------------------
(***************************************************************************)
(* The consensus observer of src/consensus/src/consensus_observer/         *)
(* observer.rs: a follower that subscribes to one upstream peer, receives  *)
(* ordered blocks, commit decisions and block payloads from it, hands      *)
(* ordered blocks to the execution pipeline, and falls back to state sync  *)
(* when a commit decision is ahead of everything it knows.  The chain,    *)
(* its blocks and their ids are those of ObserverChain.                   *)
(*                                                                         *)
(* Three actors interleave: the observer task (the select loop of          *)
(* start()), the spawned state-sync task, and the execution pipeline that  *)
(* invokes the commit callback.  The upstream peers are the environment.   *)
(***************************************************************************)
EXTENDS ObserverChain, FiniteSets, SequencesExt

CONSTANTS
    Peers,        \* upstream peers that may send direct-send messages
    None,         \* model value: no subscription / no sync handle / no callback
    SyncMayFail,  \* whether execution_client.sync_to may return an error
    FinalizeMayFail  \* whether execution_client.finalize_order may return an error

Kinds == {"ordered", "commit", "payload"}
Messages == [kind : Kinds, block : Blocks]

VARIABLES
    epoch,          \* epoch_state.epoch
    root,           \* the position of the root ledger info (shared with the callback)
    pending,        \* pending_ordered_blocks: set of [block, verified, decided]
    payloads,       \* block_payload_store: blocks whose payload is stored
    sub,            \* active_observer_subscription: a peer or None
    syncHandle,     \* sync_handle: the target of the current sync job, or None
    pc,             \* the observer task: "loop" or blocked in "waitEpoch"
    jobRunning,     \* the job of the current sync handle has not finished
    notifications,  \* the unbounded sync notification channel (FIFO)
    db,             \* the ledger info committed to storage
    reconfigEpoch,  \* epoch of the undelivered reconfiguration notification, 0 if none
    inflight,       \* blocks handed to finalize_order and not yet committed
    forwarded,      \* commit decisions forwarded to the execution pipeline
    finalized,      \* history: every block finalize_order accepted, in order
    callback,       \* ledger info of a commit callback between its two steps, or None
    sent,           \* sent[p][k]: last message of kind k peer p has sent
    received        \* history: commit decisions process_commit_decision was given

observerVars == <<epoch, root, pending, payloads, sub, syncHandle, pc>>
jobVars == <<jobRunning, notifications>>
execVars == <<db, reconfigEpoch, inflight, forwarded, finalized, callback>>
peerVars == <<sent, received>>
vars == <<observerVars, jobVars, execVars, peerVars>>

\* A pending buffer entry: the block, whether its proof was verified, and
\* whether a commit decision is attached.
Entries == [block : Blocks, verified : BOOLEAN, decided : BOOLEAN]

\* Type invariant: every variable holds a value the code can hold.
TypeOK ==
    /\ epoch \in {Info(i).epoch : i \in Positions}
    /\ root \in Positions
    /\ pending \subseteq Entries
    /\ payloads \subseteq Blocks
    /\ sub \in Peers \cup {None}
    /\ syncHandle \in Blocks \cup {None}
    /\ pc \in {"loop", "waitEpoch"}
    /\ jobRunning \in BOOLEAN
    /\ notifications \in Seq(Blocks)
    /\ db \in Positions
    /\ reconfigEpoch \in {0} \cup {DbEpoch(i) : i \in Positions}
    /\ inflight \subseteq Blocks /\ forwarded \subseteq Blocks
    /\ finalized \in Seq(Blocks)
    /\ callback \in Blocks \cup {None}
    /\ sent \in [Peers -> [Kinds -> Positions]]
    /\ received \subseteq Blocks

-----------------------------------------------------------------------------
(* Pending block buffer (pending_blocks.rs, not under src/: from the spec). *)

PendingBlocks(P) == {e.block : e \in P}

\* get_last_pending_block: the highest-keyed entry.
LastPending(P) == CHOOSE b \in PendingBlocks(P) : \A c \in PendingBlocks(P) : c <= b

\* insert_ordered_block: idempotent on the key; only raises verified.
InsertOrderedBlock(P, b, verified) ==
    IF b \in PendingBlocks(P)
    THEN {IF e.block = b THEN [e EXCEPT !.verified = e.verified \/ verified] ELSE e : e \in P}
    ELSE P \cup {[block |-> b, verified |-> verified, decided |-> FALSE]}

\* update_commit_decision: attach the decision to the entry at its key.
UpdateCommitDecision(P, b) ==
    {IF e.block = b THEN [e EXCEPT !.decided = TRUE] ELSE e : e \in P}

\* remove_blocks_for_commit: drop every entry at or below the ledger info.
RemoveBlocksForCommit(P, li) == {e \in P : e.block > li}

\* verify_pending_blocks: promote the entries of the new epoch.
VerifyPendingBlocks(P, ep) ==
    {IF Chain[e.block].epoch = ep THEN [e EXCEPT !.verified = TRUE] ELSE e : e \in P}

\* get_all_verified_pending_blocks, in key order.
AllVerifiedPendingBlocks(P) == SetToSortSeq({e.block : e \in {f \in P : f.verified}}, <)

-----------------------------------------------------------------------------
(* Observer helpers.                                                       *)

\* get_last_block: the last pending block, else the root's commit info.
GetLastBlock == IF pending = {} THEN root ELSE LastPending(pending)

\* process_commit_decision_for_pending_block's condition: a verified pending
\* block at the decision's key whose payloads are all in the store.
PendingBlockReady(b) ==
    /\ \E e \in pending : e.block = b /\ e.verified
    /\ b \in payloads

\* The condition under which a commit decision starts state sync: note the
\* disjunction of the epoch and round comparisons (line 484).
SyncNeeded(b) ==
    \/ Info(b).epoch > Info(GetLastBlock).epoch
    \/ Info(b).round > Info(GetLastBlock).round

\* The storage reaches ledger info li; a reconfiguration notification is
\* queued (keeping only the latest) if that moves storage into a new epoch.
CommitToDb(li) ==
    /\ db' = IF li > db THEN li ELSE db
    /\ reconfigEpoch' = IF DbEpoch(db') > DbEpoch(db) THEN DbEpoch(db') ELSE reconfigEpoch

-----------------------------------------------------------------------------
(* Upstream peers: each peer sends each kind of message in chain order,    *)
(* and a commit decision only after the ordered block it commits.  The     *)
(* transport delivers a peer's messages in order but may drop some, so a   *)
(* delivered message may skip over lost ones.                              *)

CanSend(p, m) == m.block > sent[p][m.kind]

AfterSend(p, m) ==
    [sent EXCEPT ![p][m.kind] = m.block,
                 ![p]["ordered"] = IF m.kind = "commit" /\ m.block > @ THEN m.block ELSE @]

-----------------------------------------------------------------------------
(* Initial state: new() followed by the first wait_for_epoch_start() of    *)
(* start(); the root and the storage are at the starting ledger info.      *)

Init ==
    /\ epoch = Info(0).epoch
    /\ root = 0
    /\ pending = {}
    /\ payloads = {}
    /\ sub = None
    /\ syncHandle = None
    /\ pc = "loop"
    /\ jobRunning = FALSE
    /\ notifications = <<>>
    /\ db = 0
    /\ reconfigEpoch = 0
    /\ inflight = {}
    /\ forwarded = {}
    /\ finalized = <<>>
    /\ callback = None
    /\ sent = [p \in Peers |-> [k \in Kinds |-> 0]]
    /\ received = {}

-----------------------------------------------------------------------------
(* Calls into the execution client.                                        *)

\* finalize_ordered_block for each block of s, in order.  An error of
\* finalize_order is only logged: the block stays in the pending buffer,
\* but the pipeline never receives it.
FinalizeOrderedBlock(s) ==
    \E accepted \in IF FinalizeMayFail THEN SUBSET ToSet(s) ELSE {ToSet(s)} :
        /\ finalized' = finalized \o SelectSeq(s, LAMBDA b : b \in accepted)
        /\ inflight' = inflight \cup accepted

\* forward_commit_decision for each decision of D.  send_commit_msg is
\* taken to succeed; its error path (only a log) is not modelled.
ForwardCommitDecision(D) ==
    forwarded' = forwarded \cup D

-----------------------------------------------------------------------------
(* Handlers of the observer task.                                          *)

\* process_block_payload: stored without verification (the TODO).
ProcessBlockPayload(b) ==
    /\ payloads' = payloads \cup {b}
    /\ UNCHANGED <<epoch, root, pending, sub, syncHandle, pc, jobVars, execVars>>

ProcessOrderedBlockAwaitingPayload(b) ==
    LET verified == Chain[b].epoch = epoch
    IN  /\ \/ /\ Info(GetLastBlock) = ParentId(b)
               /\ pending' = InsertOrderedBlock(pending, b, verified)
               /\ IF verified /\ syncHandle = None /\ b \in payloads
                  THEN FinalizeOrderedBlock(<<b>>)
                  ELSE UNCHANGED <<inflight, finalized>>
            \/ /\ Info(GetLastBlock) # ParentId(b)
               /\ UNCHANGED <<pending, inflight, finalized>>
        /\ UNCHANGED <<epoch, root, payloads, sub, syncHandle, pc, jobVars,
                       db, reconfigEpoch, forwarded, callback>>

\* Mutant: buffer any block above the last known block, without checking
\* that it extends it.
ProcessOrderedBlockNoParentCheck(b) ==
    LET verified == Chain[b].epoch = epoch
    IN  /\ \/ /\ b > GetLastBlock
               /\ pending' = InsertOrderedBlock(pending, b, verified)
               /\ IF verified /\ syncHandle = None
                  THEN FinalizeOrderedBlock(<<b>>)
                  ELSE UNCHANGED <<inflight, finalized>>
            \/ /\ ~(b > GetLastBlock)
               /\ UNCHANGED <<pending, inflight, finalized>>
        /\ UNCHANGED <<epoch, root, payloads, sub, syncHandle, pc, jobVars,
                       db, reconfigEpoch, forwarded, callback>>

\* process_ordered_block: the proof is verified only for the current epoch;
\* the block is buffered if it extends the last known block, and finalized
\* at once if it was verified and no state sync is running.
ProcessOrderedBlock(b) ==
    LET verified == Chain[b].epoch = epoch
    IN  /\ \/ /\ Info(GetLastBlock) = ParentId(b)
               /\ pending' = InsertOrderedBlock(pending, b, verified)
               /\ IF verified /\ syncHandle = None
                  THEN FinalizeOrderedBlock(<<b>>)
                  ELSE UNCHANGED <<inflight, finalized>>
            \/ /\ Info(GetLastBlock) # ParentId(b)
               /\ UNCHANGED <<pending, inflight, finalized>>
        /\ UNCHANGED <<epoch, root, payloads, sub, syncHandle, pc, jobVars,
                       db, reconfigEpoch, forwarded, callback>>

\* Mutant: forward the decision even during state sync.
ProcessCommitDecisionForPendingBlockInSync(b) ==
    /\ PendingBlockReady(b)
    /\ pending' = UpdateCommitDecision(pending, b)
    /\ ForwardCommitDecision({b})

\* process_commit_decision_for_pending_block, when it returns true: the
\* decision is attached and, outside state sync, forwarded.
ProcessCommitDecisionForPendingBlock(b) ==
    /\ PendingBlockReady(b)
    /\ pending' = UpdateCommitDecision(pending, b)
    /\ IF syncHandle = None THEN ForwardCommitDecision({b}) ELSE UNCHANGED forwarded

\* Mutant: start state sync without pruning the pending blocks.
StartSyncNoPrune(b) ==
    /\ root' = b
    /\ pending' = pending
    /\ syncHandle' = b
    /\ jobRunning' = TRUE

\* The state sync branch of process_commit_decision: the root becomes the
\* decision, the buffer is pruned up to it, and a new sync job replaces
\* (aborts) the previous one.
StartSync(b) ==
    /\ root' = b
    /\ pending' = RemoveBlocksForCommit(pending, b)
    /\ syncHandle' = b
    /\ jobRunning' = TRUE

\* process_commit_decision: a decision of the current epoch is attached to
\* its pending block if it can be; otherwise one that is ahead of the last
\* known block starts state sync; anything else is ignored.
ProcessCommitDecision(b) ==
    LET attached == Chain[b].epoch = epoch /\ PendingBlockReady(b)
    IN  \/ /\ attached
           /\ ProcessCommitDecisionForPendingBlock(b)
           /\ UNCHANGED <<epoch, root, payloads, sub, syncHandle, pc, jobVars,
                          db, reconfigEpoch, inflight, finalized, callback>>
        \/ /\ ~attached
           /\ SyncNeeded(b)
           /\ StartSync(b)
           /\ UNCHANGED <<epoch, payloads, sub, pc, notifications, execVars>>
        \/ /\ ~attached
           /\ ~SyncNeeded(b)
           /\ UNCHANGED <<observerVars, jobVars, execVars>>

\* process_direct_send_message: a message from a peer other than the
\* subscribed one is dropped (and an unsubscribe is fired at it).
ProcessDirectSendMessage(p, m) ==
    /\ pc = "loop"
    /\ CanSend(p, m)
    /\ sent' = AfterSend(p, m)
    /\ received' = IF sub = p /\ m.kind = "commit" THEN received \cup {m.block} ELSE received
    /\ \/ /\ sub = p
          /\ \/ m.kind = "ordered" /\ ProcessOrderedBlock(m.block)
             \/ m.kind = "commit" /\ ProcessCommitDecision(m.block)
             \/ m.kind = "payload" /\ ProcessBlockPayload(m.block)
       \/ /\ sub # p
          /\ UNCHANGED <<observerVars, jobVars, execVars>>

\* Mutant: drain the verified blocks but forget their commit decisions.
FinishSyncNoForward(P) ==
    LET drained == AllVerifiedPendingBlocks(P)
    IN  /\ pending' = P
        /\ syncHandle' = None
        /\ jobRunning' = FALSE
        /\ FinalizeOrderedBlock(drained)
        /\ UNCHANGED forwarded

\* The tail of process_sync_notification: drop the sync handle (aborting
\* its job) and finalize every verified pending block in key order,
\* forwarding the decisions attached to them.
FinishSync(P) ==
    LET drained == AllVerifiedPendingBlocks(P)
    IN  /\ pending' = P
        /\ syncHandle' = None
        /\ jobRunning' = FALSE
        /\ FinalizeOrderedBlock(drained)
        /\ ForwardCommitDecision({e.block : e \in {f \in P : f.verified /\ f.decided}})

\* Mutant: never end the epoch; drain as soon as the root matches.
ProcessSyncNotificationSameEpoch ==
    /\ pc = "loop"
    /\ notifications # <<>>
    /\ notifications' = Tail(notifications)
    /\ LET n == Head(notifications)
       IN  \/ /\ root # n
              /\ UNCHANGED <<observerVars, jobRunning, execVars>>
           \/ /\ root = n
              /\ FinishSync(pending)
              /\ UNCHANGED <<epoch, root, payloads, sub, pc, db, reconfigEpoch, callback>>
    /\ UNCHANGED peerVars

\* Mutant: compare the epochs with >= instead of >.
ProcessSyncNotificationGe ==
    /\ pc = "loop"
    /\ notifications # <<>>
    /\ notifications' = Tail(notifications)
    /\ LET n == Head(notifications)
       IN  \/ /\ root # n
              /\ UNCHANGED <<observerVars, jobRunning, execVars>>
           \/ /\ root = n
              /\ Chain[n].epoch >= epoch
              /\ inflight' = {}
              /\ forwarded' = {}
              /\ pc' = "waitEpoch"
              /\ UNCHANGED <<epoch, root, pending, payloads, sub, syncHandle, jobRunning,
                             db, reconfigEpoch, finalized, callback>>
           \/ /\ root = n
              /\ Chain[n].epoch < epoch
              /\ FinishSync(pending)
              /\ UNCHANGED <<epoch, root, payloads, sub, pc, db, reconfigEpoch, callback>>
    /\ UNCHANGED peerVars

\* Mutant: compare only the epoch of the notification with the root's.
CheckRootEpochAndRoundEpochOnly(n) == Info(root).epoch = Info(n).epoch

\* Mutant: compare the notification with the last known block, which
\* moves on as blocks are buffered during the sync.
CheckRootEpochAndRoundLastBlock(n) == Info(GetLastBlock) = Info(n)

\* check_root_epoch_and_round: the notification is for the root's
\* (epoch, round).
CheckRootEpochAndRound(n) == Info(root) = Info(n)

\* process_sync_notification: a notification that does not match the root
\* is stale and ignored; one for a later epoch ends the epoch and blocks in
\* wait_for_epoch_start; otherwise the buffered blocks are drained.
ProcessSyncNotification ==
    /\ pc = "loop"
    /\ notifications # <<>>
    /\ notifications' = Tail(notifications)
    /\ LET n == Head(notifications)
       IN  \/ /\ ~CheckRootEpochAndRound(n)
              /\ UNCHANGED <<observerVars, jobRunning, execVars>>
           \/ /\ CheckRootEpochAndRound(n)
              /\ Chain[n].epoch > epoch
              \* end_epoch: the execution pipeline drops what it holds
              /\ inflight' = {}
              /\ forwarded' = {}
              /\ pc' = "waitEpoch"
              /\ UNCHANGED <<epoch, root, pending, payloads, sub, syncHandle, jobRunning,
                             db, reconfigEpoch, finalized, callback>>
           \/ /\ CheckRootEpochAndRound(n)
              /\ Chain[n].epoch <= epoch
              /\ FinishSync(pending)
              /\ UNCHANGED <<epoch, root, payloads, sub, pc, db, reconfigEpoch, callback>>
    /\ UNCHANGED peerVars

\* Mutant: resume without waiting for the reconfiguration notification.
WaitForEpochStartNoWait ==
    /\ pc = "waitEpoch"
    /\ epoch' = reconfigEpoch
    /\ reconfigEpoch' = 0
    /\ pc' = "loop"
    /\ FinishSync(VerifyPendingBlocks(pending, reconfigEpoch))
    /\ UNCHANGED <<root, payloads, sub, notifications, db, callback, peerVars>>

\* Mutant: take the epoch after the current one, not the notified one.
ExtractOnChainConfigsNextEpoch == epoch + 1

\* extract_on_chain_configs: the epoch state of the delivered notification
\* (the consensus, execution and randomness configs are abstracted away).
ExtractOnChainConfigs == reconfigEpoch

\* wait_for_epoch_start resumes once a reconfiguration notification is
\* delivered: the epoch state is replaced, the pending blocks of the new
\* epoch are verified, and process_sync_notification finishes.
WaitForEpochStart ==
    /\ pc = "waitEpoch"
    /\ reconfigEpoch # 0
    /\ epoch' = ExtractOnChainConfigs
    /\ reconfigEpoch' = 0
    /\ pc' = "loop"
    /\ FinishSync(VerifyPendingBlocks(pending, ExtractOnChainConfigs))
    /\ UNCHANGED <<root, payloads, sub, notifications, db, callback, peerVars>>

\* sort_peers_for_subscription: the connected peers minus the previous
\* subscription's peer (ranking by distance and latency is abstracted: any
\* candidate may come first; the publisher's subscribers are not modelled).
SortPeersForSubscription(previous) == Peers \ {previous}

\* create_new_observer_subscription: the subscribe RPCs to the sorted peers
\* may each fail, so the result is any candidate, or no subscription.
CreateNewObserverSubscription(previous) ==
    sub' \in {None} \cup SortPeersForSubscription(previous)

\* check_progress: an unhealthy subscription (disconnected, timed out, no
\* DB progress, or suboptimal: check_active_subscription) is taken away and
\* unsubscribed, and a new one is created with that peer excluded.
CheckProgress ==
    /\ pc = "loop"
    /\ \/ /\ sub # None
          /\ CreateNewObserverSubscription(sub)
       \/ /\ sub = None
          /\ CreateNewObserverSubscription(None)
    /\ UNCHANGED <<epoch, root, pending, payloads, syncHandle, pc, jobVars, execVars, peerVars>>

-----------------------------------------------------------------------------
(* The spawned sync task and the execution pipeline.                       *)

\* The task of sync_to_commit_decision: sync_to resets the pipeline and, if
\* it succeeds, commits storage up to the target; the notification is sent
\* whether or not sync_to failed.
SyncToCommitDecision ==
    /\ jobRunning
    /\ \E ok \in IF SyncMayFail THEN BOOLEAN ELSE {TRUE} :
          IF ok THEN CommitToDb(syncHandle) ELSE UNCHANGED <<db, reconfigEpoch>>
    /\ inflight' = {}
    /\ forwarded' = {}
    /\ jobRunning' = FALSE
    /\ notifications' = Append(notifications, syncHandle)
    /\ UNCHANGED <<observerVars, finalized, callback, peerVars>>

\* The pipeline commits the blocks up to a forwarded decision and invokes
\* the commit callback, whose first half removes the committed payloads and
\* pending blocks before it takes the root lock.
CommitCallbackRemove(li) ==
    /\ callback = None
    /\ li \in forwarded \cap inflight
    /\ LET committed == {b \in inflight : b <= li}
       IN  /\ inflight' = inflight \ committed
           /\ payloads' = payloads \ committed
    /\ forwarded' = {c \in forwarded : c > li}
    /\ CommitToDb(li)
    /\ pending' = RemoveBlocksForCommit(pending, li)
    /\ callback' = li
    /\ UNCHANGED <<epoch, root, sub, syncHandle, pc, jobVars, finalized, peerVars>>

\* Mutant: overwrite the root with any ledger info of the same epoch.
CommitCallbackUpdateRootAnyRound ==
    /\ callback # None
    /\ root' = IF Info(callback).epoch = Info(root).epoch THEN callback ELSE root
    /\ callback' = None
    /\ UNCHANGED <<epoch, pending, payloads, sub, syncHandle, pc, jobVars,
                   db, reconfigEpoch, inflight, forwarded, finalized, peerVars>>

\* The second half of the commit callback, under the root lock: a ledger
\* info of another epoch is ignored, and the root only moves forward.
CommitCallbackUpdateRoot ==
    /\ callback # None
    /\ root' = IF Info(callback).epoch = Info(root).epoch
                  /\ Info(callback).round > Info(root).round
               THEN callback ELSE root
    /\ callback' = None
    /\ UNCHANGED <<epoch, pending, payloads, sub, syncHandle, pc, jobVars,
                   db, reconfigEpoch, inflight, forwarded, finalized, peerVars>>

-----------------------------------------------------------------------------

\* The select loop of start() and the tasks running beside it.
Next ==
    \/ \E p \in Peers, m \in Messages : ProcessDirectSendMessage(p, m)
    \/ ProcessSyncNotification
    \/ WaitForEpochStart
    \/ CheckProgress
    \/ SyncToCommitDecision
    \/ \E li \in Blocks : CommitCallbackRemove(li)
    \/ CommitCallbackUpdateRoot

Spec == Init /\ [][Next]_vars

\* The tokio runtime eventually resumes a task whose awaited notification
\* is ready, eventually runs a spawned task (the sync job), and the select
\* loop eventually takes a sync notification that stays ready.  Peers, the
\* progress tick and the pipeline get no fairness.
FairSpec ==
    /\ Spec
    /\ WF_vars(WaitForEpochStart)
    /\ WF_vars(SyncToCommitDecision)
    /\ WF_vars(ProcessSyncNotification)

-----------------------------------------------------------------------------
(* Properties.                                                             *)

\* I2: every buffered block is above the root.  The commit callback prunes
\* the buffer and moves the root in two steps, the second under the root
\* lock, while the observer task keeps inserting blocks and syncing.
PendingAboveRoot == \A e \in pending : e.block > root

VerifiedPendingFinalized ==
    (pc = "loop" /\ syncHandle = None) =>
        \A e \in pending : e.verified => e.block \in ToSet(finalized)

\* A commit decision is forwarded to the execution pipeline only for a
\* block that was handed to it: process_commit_decision_for_pending_block
\* must not forward during state sync, when the block is still buffered.
ForwardedOnlyFinalized == forwarded \subseteq ToSet(finalized)

\* I1 as the code keeps it: outside state sync the root is not in a later
\* epoch than the epoch state (the sync start moves the root to a future
\* epoch; process_sync_notification must install that epoch before the
\* handle is dropped).
SyncModeCoversEpoch == syncHandle = None => Info(root).epoch <= epoch

\* P1: the root never moves backwards in (epoch, round), whether moved by
\* the commit callback or by the start of state sync.
RootMonotonic == [][root' >= root]_root

\* P5: every block handed to finalize_order has its payload in the store at
\* the moment of the call.
PayloadBeforeFinalize ==
    [][\A i \in Len(finalized)+1..Len(finalized') : finalized'[i] \in payloads]_vars

\* Outside state sync, every commit decision attached to a pending block
\* that was handed to execution has been forwarded to the pipeline: live
\* in process_commit_decision_for_pending_block, or by the drain of
\* process_sync_notification for decisions attached during the sync, even
\* though the sync job and end_epoch reset what the pipeline held.
DecidedForwarded ==
    (pc = "loop" /\ syncHandle = None) =>
        \A e \in pending :
            (e.decided /\ e.block \in ToSet(finalized)) => e.block \in forwarded

\* Spec section 9 (late payload arrival): a commit decision given to
\* process_commit_decision for a verified pending block in the current epoch
\* is attached to it once the block's payload is stored.  The decision is
\* only tried when it arrives; nothing re-checks it when the payload comes.
ReceivedDecisionAttached ==
    \A e \in pending :
        (/\ e.block \in received
         /\ e.verified
         /\ Chain[e.block].epoch = epoch
         /\ e.block \in payloads) => e.decided

\* The abstract ledger of ObserverLedger, seen through the observer's state:
\* the shared root, the history of finalize_order calls, and storage.
Ledger == INSTANCE ObserverLedger WITH root <- root, handed <- finalized, ledger <- db

\* The observer implements ObserverLedger: the root only moves forward;
\* every run of blocks handed to execution (live in process_ordered_block,
\* or the drain of process_sync_notification) is above the root, in order,
\* and chained to the previous block or the root (P3); storage only
\* advances, to an executed block (commit callback) or to the root (the
\* sync job's target).
LedgerRefinement == Ledger!Spec

\* P8: process_sync_notification honours a notification (it matches the
\* root) only if it is that of the current sync job: sync mode is on and
\* the current job has finished.  A job aborted when its handle was
\* replaced may already have posted; its notification must be rejected,
\* and so must a second notification once sync mode has ended.
NotificationFromCurrentJob ==
    [][(/\ notifications # <<>>
        /\ notifications' = Tail(notifications)
        /\ Info(Head(notifications)) = Info(root))
       => syncHandle # None /\ ~jobRunning]_vars

\* Sync mode always ends: once process_commit_decision installs a sync
\* handle, the job's notification (or that of a job replacing it) is
\* eventually honoured by process_sync_notification and the handle is
\* dropped, despite aborted jobs' stale notifications and blocks buffered
\* meanwhile.
SyncEventuallyEnds == syncHandle # None ~> syncHandle = None

\* The observer task does not stay blocked in wait_for_epoch_start: after
\* a sync notification for a later epoch, a reconfiguration notification
\* eventually arrives and the select loop resumes.
SyncCompletes == pc = "waitEpoch" ~> pc = "loop"

====
