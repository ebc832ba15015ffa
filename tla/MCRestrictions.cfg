SPECIFICATION Spec
CONSTANTS
  Reqs = {r1, r2}
  zero = zero
  one = one
  None = None
  Amounts <- AllAmounts
  Issuers = {"issuer"}
  Countries = {"ca"}
  Wishes <- SomeWishes
INVARIANTS
  DuplicatesAreExact
PROPERTIES
  AtomicUnlessOvertaken
CHECK_DEADLOCK FALSE
