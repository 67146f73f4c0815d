SPECIFICATION FairSpec
CONSTANTS
  W = 10
  PollLimit = 2
  MaxQueries = 2
  MaxStep = 3
  MaxWait = 5
CHECK_DEADLOCK FALSE
INVARIANTS
  TypeOK
  QueryInv
  ReturnsThisAnswer
  WorkerWithinCall
PROPERTIES
  PatientUnlessClockSet
  CallEnds
  ImplementsQueryAnswer
