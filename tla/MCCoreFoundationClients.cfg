SPECIFICATION ClientsSpec
CONSTANTS
  String        = string
  Data          = data
  InvalidString = invalidString
  Places        <- MCPlaces
  Addresses     = {a1, a2, a3, a4}
  NULL          = NULL
  Inputs        <- MCInputs
  Strings       <- MCStrings
  LONG_MAX      <- MCLongMax
INVARIANT NothingHeldAtExit
PROPERTIES LawfulClient EndsWithVerdict
CHECK_DEADLOCK FALSE
