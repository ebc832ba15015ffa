SPECIFICATION Spec
CONSTANTS
    s1 = s1
    s2 = s2
    Subs <- TwoSubs
    Scopes <- MCScopes
    Events <- MCEvents
    StatusSteps <- PendingSteps
    MultiSigTxs <- NoSubs
    HandshakeTries = 1
    NotificationTries = 1
    LocalTries = 10
    Store = "postgres"
    MaxFaults = 0
    MaxRestarts = 1
    MaxNonce = 0
INVARIANT
    ScopesIsolateTransactions
CHECK_DEADLOCK FALSE
