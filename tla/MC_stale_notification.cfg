\* Two upstream peers, the second lagging behind after a resubscription;
\* sync_to always succeeds.
CONSTANTS
    Peers = {p1, p2}
    None = None
    Chain <- MCChainShort
    SyncMayFail = FALSE
    FinalizeMayFail = FALSE
SPECIFICATION Spec
PROPERTY NotificationFromCurrentJob
