\* Among the raw values the bounds of the converter and the value after a
\* reset, 0x80000; among the words both sides of the sign.
SPECIFICATION ReadingsFairSpec
CONSTANTS
  ChipIgnoresBit7 = TRUE
  TICK_MS = 10
  MaxFaults = 6
  RawValues = {0, 1, 524288, 703710, 1048559, 1048560}
  CalibWords = {255, 32767, 32768, 65535}
INVARIANTS
  TypeOK
  SampledAsConfigured
  AsleepWhileConfigured
  ResetValueOnlyFirst
  ReadOutIsTheChips
PROPERTY SamplingGoesOn
