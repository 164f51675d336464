SPECIFICATION ClientsSpec
CONSTANTS
  Places       = {mappedText}
  Addresses    = {a1, a2, a3}
  NULL         = NULL
  Texts        <- MCTexts
  Malformed    <- MCMalformed
  TooLong      <- MCNone
  Oversized    <- MCNone
  Leftovers    <- MCLeftovers
  ResultLength <- MCResultLength
INVARIANT NothingHeldAtExit
PROPERTIES LawfulClient EndsWithVerdict
CHECK_DEADLOCK FALSE
