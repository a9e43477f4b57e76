CONSTANTS
  Windows = {1, 2}
  StartNumbers = {7}
  MaxSarm = 2
  MaxRepeat = 1
  MaxMessages = 2
  MaxFaults = 2
  ChannelBound = 2
SPECIFICATION Spec
INVARIANTS
  TypeOK
  AckedWasHandled
  SarmsAreBounded

PROPERTY ComesTogether
