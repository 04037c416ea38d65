\* One honest upstream peer, three epochs, sync_to may fail: a failed sync
\* to epoch 3 while the reconfiguration to epoch 2 is still undelivered.
CONSTANTS
    Peers = {p1}
    None = None
    Chain <- MCChainThreeEpochs
    SyncMayFail = TRUE
    FinalizeMayFail = FALSE
SPECIFICATION Spec
INVARIANT SyncModeCoversEpoch
CHECK_DEADLOCK FALSE
