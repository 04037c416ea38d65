\* One honest upstream peer; sync_to may fail.
CONSTANTS
    Peers = {p1}
    None = None
    Chain <- MCChainShort
    SyncMayFail = TRUE
    FinalizeMayFail = FALSE
SPECIFICATION FairSpec
PROPERTY SyncCompletes
CHECK_DEADLOCK FALSE
