SPECIFICATION HostProgramsSpec
CHECK_DEADLOCK FALSE
CONSTANTS
  Radios <- OneRadio
  LastN = 2
  Base = 2
  MaxClock = 4
  MaxSn = 4
  MaxStarts = 2
  MaxAir = 1
  Node1 = "n1"
  Node2 = "n2"
  Skipped = 2
  MaxTime = 2
  MaxLines1 = 5
  MaxLines2 = 5
  Places = {0, 1}
  Files <- SomeFiles
  Page = 2
  Rows = 2
  MaxRuns = 3
  Points = {0, 1, 2, 4}
  Grain = 2
  MaxFeatures = 2
  MaxPoints = 3
  Takers = {"irqwork"}
  RBUF_MAXSIZE = 3
INVARIANTS PacketTimeNotAhead LossesHonest    FileInFlash MapFaithful 
