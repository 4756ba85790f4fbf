SPECIFICATION Spec
CONSTANT FieldValues = {0, 5}
INVARIANT AskedToSleepSleeps
