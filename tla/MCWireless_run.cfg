SPECIFICATION WirelessSpec
CONSTANTS
  RX_THRESHOLD = 4
  TX_THRESHOLD = 2
  MAX_FIFO_SIZE = 6
  PacketLengths = {1, 7}
  FrameLengths = {5, 6, 9}
  QueueWords = 7
  EmptyCommands = {FALSE}
  LongFrames = FALSE
INVARIANTS DoneTaken FifosFit FrameInStep TxDoneOwn RefillSeen
PROPERTIES  RollbackJustified
