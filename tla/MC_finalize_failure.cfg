\* One honest upstream peer; finalize_order may return an error.
CONSTANTS
    Peers = {p1}
    None = None
    Chain <- MCChainShort
    SyncMayFail = FALSE
    FinalizeMayFail = TRUE
SPECIFICATION Spec
PROPERTY LedgerRefinement
