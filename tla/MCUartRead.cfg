SPECIFICATION FairSpec
CONSTANTS
  FRAME_LEN = 4
  MAX_FAILS = 2
  MaxRequests = 2
  MaxLostBytes = 4
CHECK_DEADLOCK FALSE
INVARIANTS
  TypeOK
  TwoReadsSuffice
  OldAnswerOnlyAfterSilence
PROPERTY ReadLoopEnds
