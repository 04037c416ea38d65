\* One honest upstream peer, three epochs, sync_to always succeeds: a
\* reconfiguration of an intermediate epoch may be queued when a sync
\* targets the last epoch, and the listener keeps only the latest one.
CONSTANTS
    Peers = {p1}
    None = None
    Chain <- MCChainLong
    SyncMayFail = FALSE
    FinalizeMayFail = FALSE
SPECIFICATION Spec
INVARIANT SyncModeCoversEpoch
PROPERTY LedgerRefinement
