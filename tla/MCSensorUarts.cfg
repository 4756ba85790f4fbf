SPECIFICATION Spec
CONSTANT MaxReboots = 2
INVARIANT PortInUseWorks
PROPERTY FailuresOnlyDuringBoot
