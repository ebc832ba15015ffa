SPECIFICATION Spec
CONSTANTS
  Routes <- AllRoutes
  Forms <- AllForms
INVARIANTS
  OneTransaction
  RunsOnlyWhenAsked
  ErrorsComeBeforeTheRun
  EntitiesAreLookedUp
  MissingIsNotFound
  ClientErrorsAreNotServerErrors
CHECK_DEADLOCK FALSE
PROPERTIES
  EveryRequestAnswered
