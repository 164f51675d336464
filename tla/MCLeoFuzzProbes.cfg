SPECIFICATION Spec
CONSTANTS
  Inputs    <- MCInputs
  CaseFiles <- MCCaseFiles
  Transform <- MCTransform
  LineSize  = 18
  NULL      = NULL
INVARIANTS NothingHeldAtExit OkIsEarned
CHECK_DEADLOCK FALSE
