SPECIFICATION ReadingsSpec
CONSTANTS
  ChipIgnoresBit7 = TRUE
  TICK_MS = 10
  MaxFaults = 6
  RawValues = {524288, 703710}
  CalibWords = {65535}
INVARIANT StartupTimeIsWaited
