CONSTANTS
  Paths = {A, B}
  NoPath = NoPath
SYMMETRY PathSymmetry
SPECIFICATION Spec
INVARIANTS
  TypeOK
  ActivePathAgrees
  StatesAgree
  NoIdlePassivePath
  ActiveMeansStarted
  ExtractorIsConnected
  AuditAgrees
  PendingTransitionIsSafe
PROPERTIES
  ActivePathIsSticky
  ImplementsActivePath
