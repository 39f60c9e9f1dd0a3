SPECIFICATION Spec
CONSTANTS
  MaxBytes = 7
  None = None
CHECK_DEADLOCK FALSE
INVARIANTS CutsDoNotMatter AllDataArrives
