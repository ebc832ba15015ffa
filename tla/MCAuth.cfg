SPECIFICATION Spec
CONSTANTS
  Reqs = {r1, r2, r3}
  Names <- SomeNames
  Secrets = {s1}
  API_KEYS = {env}
  Inherited = {inherited}
  MaxRestarts = 1
  NotAUser = NotAUser
  None = None
SYMMETRY Symmetry
INVARIANTS
  NamesAndKeysResolve
  KeyDecidesUser
  DeletedKeyIsDead
  CreatedKeyWorks
CHECK_DEADLOCK FALSE
