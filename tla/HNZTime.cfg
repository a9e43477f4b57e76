CONSTANTS
  UseUtc = {TRUE, FALSE}
  UtcOffset = 60
  StartTimes <- AroundMidnights
  Step = 5
  MaxDuration = 35
  MaxDelay = 5
  MaxAdvance = 5
  Lags = {0, 20}
  ChannelBound = 3
SPECIFICATION Spec
INVARIANTS
  TypeOK
  DateIsRight
