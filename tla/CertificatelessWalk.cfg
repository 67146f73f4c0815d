SPECIFICATION Spec
CONSTANTS
  Words <- MCWords
  Keys <- MCKeys
  Sigs <- MCSigs
  ClauseLists <- MCClauseLists
  Times <- MCTimes
  CertCounts = {0, 1}
CHECK_DEADLOCK FALSE
PROPERTY
  EveryWalkEnds
