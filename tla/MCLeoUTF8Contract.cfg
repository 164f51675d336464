SPECIFICATION Spec
CONSTANTS
  Places       = {v1, v2}
  Addresses    = {a1, a2, a3}
  NULL         = NULL
  Empty = Empty
  Word = Word
  Stray = Stray
  Huge = Huge
  Endless = Endless
  Texts        <- MCTexts
  Malformed    <- MCMalformed
  TooLong      <- MCTooLong
  Oversized    <- MCOversized
  Leftovers    <- MCLeftovers
  ResultLength <- MCResultLength
INVARIANT FailureClearsOutputs
SYMMETRY Alike
