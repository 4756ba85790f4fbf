SPECIFICATION Spec
CONSTANT MaxReboots = 2
INVARIANT RequestsOnOwnPort
