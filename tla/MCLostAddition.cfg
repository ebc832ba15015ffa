SPECIFICATION Spec
CONSTANTS
  Reqs = {r1, r2}
  zero = zero
  one = one
  None = None
  Amounts <- AllAmounts
  Issuers = {"issuer"}
  Countries = {"ca"}
  Wishes <- SomeWishes
INVARIANTS
  AdditionsStay
CHECK_DEADLOCK FALSE
