SPECIFICATION Spec
CONSTANTS
    s1 = s1
    s2 = s2
    Subs <- OneSub
    Scopes <- MCScopes
    Events <- MCEvents
    StatusSteps <- RefusedSteps
    MultiSigTxs <- NoSubs
    HandshakeTries = 2
    NotificationTries = 2
    LocalTries = 10
    Store = "postgres"
    MaxFaults = 0
    MaxRestarts = 0
    MaxNonce = 0
INVARIANT
    NoncesUnique
CHECK_DEADLOCK FALSE
