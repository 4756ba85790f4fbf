SPECIFICATION Spec
CONSTANT FieldValues = {0, 5}
INVARIANTS
  TypeOK
  ConfIsTheChips
  ModeOutlivesResets
