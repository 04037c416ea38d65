\* One honest upstream peer that may send a block's payload after its
\* commit decision; the execution client never fails.
CONSTANTS
    Peers = {p1}
    None = None
    Chain <- MCChainShort
    SyncMayFail = FALSE
    FinalizeMayFail = FALSE
SPECIFICATION Spec
INVARIANT ReceivedDecisionAttached
