CONSTANTS
  client_num_max = 2
  client_num_start = 0
  clients_rampup_inc = 0
  req_rate = 0
  InvsPerSec = 5
  cycles_num = 2
  urls_num = 1
  DontCycle <- NoUrls
  Probable <- NoUrls
  Sleeps <- Maybe
  Timeouts <- Maybe
  ErrorRecovery = TRUE
  RunTime = FALSE
  SelectRounds = 0
  Keys <- NoKeys
  MaxKeys = 0
  MaxFailures = 0
SPECIFICATION Spec
INVARIANTS AllCyclesDone
CHECK_DEADLOCK FALSE
