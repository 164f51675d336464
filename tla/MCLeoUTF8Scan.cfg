SPECIFICATION Spec
CONSTANTS
  Memory   <- MCMemory
  LONG_MAX <- MCLongMax
  NULL     = NULL
INVARIANTS TypeOK CursorBetweenCharacters RejectsAtFirstDefect
PROPERTY Promised
