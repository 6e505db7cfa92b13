SPECIFICATION Spec
CHECK_DEADLOCK FALSE
CONSTANTS
  Kinds <- MCKinds
  MaxCalls = 3
INVARIANTS
  FieldsInTheirRegister
  ReadBack
PROPERTY
  UpdateAgreesWithWrite
