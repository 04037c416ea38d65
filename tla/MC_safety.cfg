\* One honest upstream peer, sync_to may fail.
CONSTANTS
    Peers = {p1}
    None = None
    Chain <- MCChain
    SyncMayFail = TRUE
    FinalizeMayFail = FALSE
SPECIFICATION Spec
INVARIANT TypeOK
INVARIANT PendingAboveRoot
 
INVARIANT VerifiedPendingFinalized
INVARIANT ForwardedOnlyFinalized
INVARIANT SyncModeCoversEpoch
INVARIANT DecidedForwarded
PROPERTY RootMonotonic
PROPERTY LedgerRefinement
PROPERTY NotificationFromCurrentJob
\* A failed sync_to followed by an epoch change blocks the observer task
\* for good (see run sync_failure_blocks): the system really stops there.
CHECK_DEADLOCK FALSE
