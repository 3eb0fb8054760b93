SPECIFICATION Spec
CONSTANT MaxErrors = 1
INVARIANTS
  LateEcIsFound
  OpensTheRightOne
  RegistersApart
CHECK_DEADLOCK FALSE
