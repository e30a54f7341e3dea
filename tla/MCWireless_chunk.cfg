SPECIFICATION WirelessSpec
CONSTANTS
  RX_THRESHOLD = 4
  TX_THRESHOLD = 2
  MAX_FIFO_SIZE = 6
  PacketLengths = {6}
  FrameLengths = {}
  QueueWords = 0
  EmptyCommands = {}
  LongFrames = FALSE
INVARIANT LastPartNotEmpty
