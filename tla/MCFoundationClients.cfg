SPECIFICATION ClientsSpec
CONSTANTS
  String    = string
  Data      = data
  Places    <- MCPlaces
  Addresses = {a1, a2, a3}
  NULL      = NULL
  Inputs    <- MCInputs
  Strings   <- MCStrings
  LONG_MAX  <- MCLongMax
INVARIANT NothingHeldAtExit
CHECK_DEADLOCK FALSE
