CONSTANTS
  MaxTurns = 2
  MaxSteps = 2
  MaxCalls = 2
  MaxParallel = 2
  MaxCrashes = 2
SPECIFICATION Spec
CHECK_DEADLOCK FALSE
INVARIANTS AnsweredInOrder NeverRetryWhatRan RequestsAreLogged RepairIsValid
