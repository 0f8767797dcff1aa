CONSTANTS
  MMIO_COUNT = 3
  Machines <- MCMachines
  DMA_POOL_SIZE = 5
  Requests = {1, 3}
SPECIFICATION Spec
\* a machine that is off stops
CHECK_DEADLOCK FALSE
INVARIANTS
  KeyboardFound
