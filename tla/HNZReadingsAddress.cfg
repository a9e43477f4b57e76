CONSTANTS
  Absent = Absent
  Wrong = Wrong
  Stacks <- AllStacks
  Datas <- AllDatas
  InitialStack <- Stack
  InitialData <- Data
  TSAddresses <- TSCGFrames
  TSStates <- Patterns
  TMStates <- TMPatterns
  TMAddresses = {20, 22}
  Orders <- AllOrders
  ReceivedBound = 2
SPECIFICATION Spec
INVARIANTS
  AddressIsOnSixBits
