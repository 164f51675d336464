SPECIFICATION Spec
CONSTANTS
  CombiningClassTable <- MCCombiningClassTable
  DecompTable         <- MCDecompTable
  CaseFoldTable       <- MCCaseFoldTable
  CombinationTable    <- MCCombinationTable
  Inputs              <- MCInputs
  MaxWords            <- MCMaxWords
INVARIANTS TypeOK WritesStayInAllocation SecondPassFillsBuffer OrderedBehind
           CompositionCachesFresh TextBehindReader AnswerIsStable
PROPERTY Promised
