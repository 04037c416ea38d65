\* One honest upstream peer; sync_to always succeeds.
CONSTANTS
    Peers = {p1}
    None = None
    Chain <- MCChain
    SyncMayFail = FALSE
    FinalizeMayFail = FALSE
SPECIFICATION FairSpec
PROPERTY SyncCompletes
PROPERTY SyncEventuallyEnds
\* The observer task can only stop blocked in wait_for_epoch_start, which
\* is what SyncCompletes states; deadlock is left to that property.
CHECK_DEADLOCK FALSE
