SPECIFICATION FairSubSpec
CONSTANTS
    Subs = {s1, s2}
    Scopes = {0}
    HandshakeTries = 3
    Store = "postgres"
    MaxFaults = 2
    MaxNonce = 1
INVARIANTS
    HandshakeSingleFlight
    HandshakeBudget
    ActiveOnlyIfConfirmed
PROPERTIES
    StatusMovesForward
    HandshakeSettles
    HandshakeRetries
CHECK_DEADLOCK FALSE
