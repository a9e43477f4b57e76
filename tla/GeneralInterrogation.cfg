CONSTANTS
  Answer <- TwoFrames
  LastTS = 3
  m_gi_repeat_count_max = 2
  WaitingBound = 1
  ComingBound = 3
  ReceivedBound = 4
SPECIFICATION Spec
INVARIANTS
  TypeOK
  OutstandingIsReported
  LostPathStopsGI
PROPERTIES
  RepetitionsEnd
