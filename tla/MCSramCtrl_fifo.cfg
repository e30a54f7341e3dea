SPECIFICATION Spec
CONSTANTS
  CONFIG_START_P = 0
  CONFIG_MAXEND_P = 1
  CMD_START_P = 1
  CMD_MAXEND_P = 1
  MIN_FIFO_I_PTR = 2
  MAX_FIFO_I_PTR = 3
  MIN_FIFO_O_PTR = 4
  MAX_FIFO_O_PTR = 5
  ADDR_SPACE = 7
  Word = {a, b}
  RequestSets <- FifoRequests
  Starts = {FALSE}
  Rollbacks = {FALSE}
INVARIANTS TypeOK FlagsTrueWhenArbitrating CountsInBounds
  FifoIConsistent  WritesInOwnRegion
PROPERTY ImplementsFifos
