CONSTANTS
  Paths = {A, B}
  NoPath = NoPath
SYMMETRY PathSymmetry
SPECIFICATION Spec
INVARIANTS
  ReceiversCanBeJoined
CHECK_DEADLOCK FALSE
