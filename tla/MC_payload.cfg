\* One honest upstream peer whose messages may be lost.
CONSTANTS
    Peers = {p1}
    None = None
    Chain <- MCChainShort
    SyncMayFail = FALSE
    FinalizeMayFail = FALSE
SPECIFICATION Spec
PROPERTY PayloadBeforeFinalize
