SPECIFICATION Spec
CONSTANTS
    s1 = s1
    s2 = s2
    Subs <- OneSub
    Scopes <- MCScopes
    Events <- MCEvents
    StatusSteps <- RefusedSteps
    MultiSigTxs <- OneSub
    HandshakeTries = 2
    NotificationTries = 2
    LocalTries = 10
    Store = "postgres"
    MaxFaults = 1
    MaxRestarts = 1
    MaxNonce = 0
INVARIANTS
    DeliverySingleFlight
    DeliveryBudget
    FinalStatusIsTrue
    NotifiedOnlyIfConfirmed
    NoncesAccountedFor
CHECK_DEADLOCK FALSE
