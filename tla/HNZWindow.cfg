CONSTANTS
  Configurations <- AllSettings
  StartNumbers = {7}
  MaxMessages = 3
  ChannelBound = 2
SPECIFICATION Spec
INVARIANTS
  TypeOK
  WindowBound
  QueuedIsSendable
  NothingStranded
  NumberingConsistent
  DeliveredOnceInOrder
PROPERTIES
  AckedInStep
  EveryMessageLeaves
CONSTRAINT OneAnswerAtATime
