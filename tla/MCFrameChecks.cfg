SPECIFICATION Spec
CONSTANTS
  BYTE = 4
  PMS_LEN = 7
  MHZ_LEN = 6
  PMS_VALUES = 1
  MHZ_VALUE = 2
  MaxErrors = 2
CHECK_DEADLOCK FALSE
INVARIANTS
  TypeOK
  IntactFrameReported
  OneErrorNeverReported
