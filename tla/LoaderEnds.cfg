CONSTANTS
  client_num_max = 2
  client_num_start = 0
  clients_rampup_inc = 1
  req_rate = 0
  InvsPerSec = 5
  cycles_num = 2
  urls_num = 2
  DontCycle <- NoUrls
  Probable <- NoUrls
  Sleeps <- Maybe
  Timeouts <- Always
  ErrorRecovery = TRUE
  RunTime = FALSE
  SelectRounds = 1
  Keys <- AllKeys
  MaxKeys = 2
  MaxFailures = 1
SPECIFICATION FairSpec
INVARIANTS NoClientLost QuiescentExit ErrorsRecovered TimersExclusive CountsExact
PROPERTY Terminates
CHECK_DEADLOCK FALSE
