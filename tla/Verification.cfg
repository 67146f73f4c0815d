SPECIFICATION CheckSpec
CONSTANTS
  Words <- MCWords
  Keys <- MCKeys
  Sigs <- MCSigs
  ClauseLists <- MCClauseLists
  Times <- MCTimes
  CertCounts = {0, 1, 2}
  Clauses <- MCClauses
  Spelling <- MCSpelling
  KeyDigest <- MCKeyDigest
  OtherDigest = "rsa_0"
  UTCTime <- MCUTCTime
  OtherTime = 0
  PolicyText = "policy"
  MaxNow = 2
  Messages <- MCMessages
  Lettered <- MCLettered
CHECK_DEADLOCK FALSE
INVARIANTS
  WalkInv
  WithinTree
  WalkRecoversCredential
  CheckInv
  BinderFileInOrder
  BinderFileIsCredential
  OneBadSpoilsAll
  AcceptedInTime
  QueryIsRequest
  QueryIsFlat
PROPERTY
  WalkEnds
