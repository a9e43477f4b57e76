CONSTANTS
  Paths = {A, B}
  NoPath = NoPath
SPECIFICATION Spec
INVARIANTS
  TypeOK
  FreedIsUnused
  RunsAsAsked
PROPERTIES
  StopEnds
CHECK_DEADLOCK FALSE
