SPECIFICATION LinkSpec
CONSTANTS
  CONFIG_START_P = 0
  CONFIG_MAXEND_P = 3
  CMD_START_P = 3
  CMD_MAXEND_P = 5
  MIN_FIFO_I_PTR = 6
  MAX_FIFO_I_PTR = 11
  MIN_FIFO_O_PTR = 12
  MAX_FIFO_O_PTR = 12
  ADDR_SPACE = 14
  Word <- AllWords
  Byte <- AllBytes
  RequestSets <- AllRequests
  Starts = {TRUE, FALSE}
  Rollbacks = {TRUE, FALSE}
  ByteGap = 40
  HalfSclk = 2
  Frames <- ShortFrames
  Commands <- ShortCommands
  Configs <- None
  MaxMessages = 2
  Packets <- None
  MaxPackets = 0
  Rssi = 77
  BadCrc = {TRUE, FALSE}
  Fetches = {TRUE}
  FULL_I_THRESHOLD = 1
  FULL_O_THRESHOLD = 0
INVARIANTS FramesReachRadio  CommandStored
