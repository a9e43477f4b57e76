CONSTANTS
  UseUtc = {FALSE}
  UtcOffset = 60
  StartTimes <- AroundMidnights
  Step = 5
  MaxDuration = 35
  MaxDelay = 0
  MaxAdvance = 0
  Lags = {0}
  ChannelBound = 3
SPECIFICATION Spec
INVARIANTS
  AlwaysUTC
