\* Two upstream peers; sync_to always succeeds.
CONSTANTS
    Peers = {p1, p2}
    None = None
    Chain <- MCChainShort
    SyncMayFail = FALSE
    FinalizeMayFail = FALSE
SPECIFICATION Spec
INVARIANT PendingAboveRoot
