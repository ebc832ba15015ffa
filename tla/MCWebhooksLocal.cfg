SPECIFICATION FairSpec
CONSTANTS
    s1 = s1
    s2 = s2
    Subs <- OneSub
    Scopes <- MCScopes
    Events <- MCEvents
    StatusSteps <- SdkSteps
    MultiSigTxs <- NoSubs
    HandshakeTries = 2
    NotificationTries = 2
    LocalTries = 2
    Store = "local"
    MaxFaults = 0
    MaxRestarts = 0
    MaxNonce = 0
INVARIANTS
    NoncesFollowStatus
    DoneOnlyAfterTerminal
PROPERTIES
    DeliverySettles
    ListenerReleased
    DeliveryRetries
CHECK_DEADLOCK FALSE
