SPECIFICATION ResearchSpec
CONSTANT FileSystems <- MCFileSystems
INVARIANTS MatchedMeansSameName SignatureMeansDecomposition NothingKeptAtExit
