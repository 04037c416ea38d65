\* Two upstream peers; the second may lag behind the first.
CONSTANTS
    Peers = {p1, p2}
    None = None
    Chain <- MCChainShort
    SyncMayFail = FALSE
    FinalizeMayFail = FALSE
SPECIFICATION Spec
PROPERTY RootMonotonic
