SPECIFICATION FairLinkSpec
CONSTANTS
  CONFIG_START_P = 0
  CONFIG_MAXEND_P = 1
  CMD_START_P = 1
  CMD_MAXEND_P = 1
  MIN_FIFO_I_PTR = 2
  MAX_FIFO_I_PTR = 2
  MIN_FIFO_O_PTR = 3
  MAX_FIFO_O_PTR = 7
  ADDR_SPACE = 9
  Word <- AllWords
  Byte <- AllBytes
  RequestSets <- AllRequests
  Starts = {TRUE, FALSE}
  Rollbacks = {TRUE, FALSE}
  ByteGap = 40
  HalfSclk = 2
  Frames <- None
  Commands <- None
  Configs <- None
  MaxMessages = 0
  Packets <- ShortPackets
  MaxPackets = 2
  Rssi = 77
  BadCrc = {TRUE, FALSE}
  Fetches = {FALSE}
  FULL_I_THRESHOLD = 0
  FULL_O_THRESHOLD = 3
INVARIANTS ReceivedInOrder NeverBlocked
PROPERTY PacketsDelivered
