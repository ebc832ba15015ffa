SPECIFICATION Spec
CONSTANTS
  Txs = {t1, t2}
  Malformed = {t2}
INVARIANTS
  ReceiptMeansTakenOver
PROPERTIES
  LocalMessagesSettle
CHECK_DEADLOCK FALSE
