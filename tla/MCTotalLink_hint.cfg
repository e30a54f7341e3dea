SPECIFICATION LinkSpec
CONSTANTS
  CONFIG_START_P = 0
  CONFIG_MAXEND_P = 1
  CMD_START_P = 1
  CMD_MAXEND_P = 1
  MIN_FIFO_I_PTR = 2
  MAX_FIFO_I_PTR = 6
  MIN_FIFO_O_PTR = 7
  MAX_FIFO_O_PTR = 12
  ADDR_SPACE = 14
  Word <- AllWords
  Byte <- AllBytes
  RequestSets <- AllRequests
  Starts = {TRUE, FALSE}
  Rollbacks = {TRUE, FALSE}
  ByteGap = 40
  HalfSclk = 2
  Frames <- ShortFrames
  Commands <- None
  Configs <- None
  MaxMessages = 1
  Packets <- ShortPackets
  MaxPackets = 1
  Rssi = 77
  BadCrc = {FALSE}
  Fetches = {FALSE}
  FULL_I_THRESHOLD = 2
  FULL_O_THRESHOLD = 2
INVARIANT WordStored
