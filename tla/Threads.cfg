SPECIFICATION Spec
CONSTANTS
  BATCHES_MAX_NUM = 4
  ThreadNums = {0, 2, 3, 5}
  Configs <- MCConfigs
  LastAddress = 6
  Batches <- MCBatches
  Statuses = {100, 302, 404}
  LoadedConfigs <- MCLoaded
  MaxRequests <- MCMaxRequests
CONSTRAINT Bounds
CHECK_DEADLOCK FALSE
INVARIANTS TypeOK RunningEquipped AddressesDedicated AddressesAdded NoneInvented RequestsCounted ResponsesCounted Conserved
