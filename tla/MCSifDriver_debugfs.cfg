SPECIFICATION DriverSpec
CONSTANTS
  SpeedWriters = {"s1", "s2"}
  PowerWriters = {"p1"}
  Lengths = {"fits"}
  RamFull = {FALSE}
  MaxFrames = 2
  MaxPackets = 2
  MaxWrites = 2
  MaxOpens = 2
INVARIANTS EdgeKept FramesInTurn
CHECK_DEADLOCK FALSE
