CONSTANTS
  c1 = c1
  c2 = c2
  c3 = c3
  rate = rate
  NoTimer = NoTimer
  Timers <- DeepTimers
  Period <- DeepPeriod
  TQ_RESOLUTION = 1
  InitSize = 6
  IncreaseStep = 0
  MaxTime = 1
  MaxLost = 1
ACTION_CONSTRAINT FillFirst
SPECIFICATION Spec
INVARIANTS HeapOrdered
CHECK_DEADLOCK FALSE
