SPECIFICATION FairSpec
CONSTANTS
    Txs = {t1}
    Others = {o1}
    MaxDeliveries = 2
    MaxTroubles = 1
INVARIANTS
    ReceiptIsHonoured
    AuditLogComplete
    OfflineTxIsTrue
PROPERTIES
    ReceiptIsSettled
    StagesInOrder
CHECK_DEADLOCK FALSE
