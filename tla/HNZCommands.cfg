CONSTANTS
  Paths = {PathA, PathB}
  None = None
  Commands <- ThreeCommands
SPECIFICATION Spec
INVARIANTS
  TypeOK
  AwaitedWasSent
  AcknowledgedIsNotAwaited
PROPERTIES
  CommandsExpire
