SPECIFICATION FairSpec
CONSTANTS
  MAX_READ = 3
  MAX_BUFF = 11
  EndLen = 2
  ResponseLens = {3, 6, 10}
  RequestLens = {2, 8, 10}
  MaxRequests = 3
CHECK_DEADLOCK FALSE
INVARIANTS
  TypeOK
  InBuffer
  OverrunBounded
  InStep
  ExtraAnswersPaid
PROPERTIES
  WholeRequestTaken
  GoneMeansEnded
