SPECIFICATION FairSpec
CONSTANTS
  MAX_FAILS = 1
  Sampled = {"dust", "bmp"}
  MaxSamples = 1
  MaxTimeouts = 2
  MaxAborts = 1
INVARIANTS
  TypeOK
  SemaphoreNotLost
  MutualExclusion
  PublishedWhole
PROPERTIES
  PublicationsNeverGoBack
  ImplementsRegisters
  UpdateEnds
  SampleIsStored
