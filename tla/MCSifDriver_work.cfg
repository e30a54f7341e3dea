SPECIFICATION FairDriverSpec
CONSTANTS
  SpeedWriters = {}
  PowerWriters = {}
  Lengths = {"fits", "long"}
  RamFull = {TRUE, FALSE}
  MaxFrames = 4
  MaxPackets = 4
  MaxWrites = 0
  MaxOpens = 1
INVARIANTS OneWaker ExchangeWhole PacketsInTurn
PROPERTIES QueueWoken PacketsServed
CHECK_DEADLOCK FALSE
