SPECIFICATION Spec
CONSTANTS
  Places    = {v1, v2}
  Addresses = {a1, a2}
  NULL      = NULL
  Inputs    <- MCInputs
  Strings   <- MCStrings
  LONG_MAX  <- MCLongMax
INVARIANT InvalidBlamesCaller
