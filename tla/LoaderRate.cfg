CONSTANTS
  client_num_max = 3
  client_num_start = 0
  clients_rampup_inc = 2
  req_rate = 2
  InvsPerSec = 2
  cycles_num = 2
  urls_num = 2
  DontCycle <- NoUrls
  Probable <- NoUrls
  Sleeps <- Maybe
  Timeouts <- Never
  ErrorRecovery = TRUE
  RunTime = FALSE
  SelectRounds = 0
  Keys <- AddKeys
  MaxKeys = 1
  MaxFailures = 1
SPECIFICATION Spec
INVARIANTS CountsExact FreeListSound RoomOnFreeList RampRespected
CHECK_DEADLOCK FALSE
