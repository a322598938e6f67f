CONSTANTS
  client_num_max = 2
  client_num_start = 0
  clients_rampup_inc = 0
  req_rate = 0
  InvsPerSec = 5
  cycles_num = 2
  urls_num = 3
  DontCycle <- LoginLogoff
  Probable <- LastTwo
  Sleeps <- Maybe
  Timeouts <- AllButFirst
  ErrorRecovery = TRUE
  RunTime = TRUE
  SelectRounds = 0
  Keys <- NoKeys
  MaxKeys = 0
  MaxFailures = 1
SPECIFICATION Spec
INVARIANTS TypeOK CountsExact TimersExclusive TransfersGuarded CyclesLeft LogoffLast
CHECK_DEADLOCK FALSE
