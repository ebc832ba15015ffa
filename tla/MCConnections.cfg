SPECIFICATION Spec
CONSTANTS
  Calls = {c1, c2, c3}
  AddressName = {"Requests"}
  MaxOutages = 1
  None = None
INVARIANTS
  SendersAreReused
  ShutdownClosesConnection
  FailsOnlyAfterOutage
PROPERTIES
  CallsEnd
CHECK_DEADLOCK FALSE
