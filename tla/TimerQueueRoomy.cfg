CONSTANTS
  c1 = c1
  c2 = c2
  c3 = c3
  rate = rate
  NoTimer = NoTimer
  Timers <- RoomyTimers
  Period <- RoomyPeriod
  TQ_RESOLUTION = 1
  InitSize = 4
  IncreaseStep = 2
  MaxTime = 1
  MaxLost = 1
SYMMETRY Clients
SPECIFICATION Spec
INVARIANTS TypeOK IdsInTable IdsUnique NoIdLost HnodesAccounted
PROPERTY ServiceSpec
CHECK_DEADLOCK FALSE
