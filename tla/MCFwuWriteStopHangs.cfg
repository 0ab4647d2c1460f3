CONSTANTS
  a = a
  b = b
  c = c
  FF = FF
  Garbage = Garbage
  Zero = Zero
  Images <- WithCrc
  FwLength <- WithCrcRows
  Infos <- Announced
  Block = 2
  FlashSize = 4
  RxCap = 2
  TxCap = 2
  HwBuffers = 1
  MaxFaults = 0
  NumBufs = 2
  Timeouts = FALSE
  MaxSessions = 1
  MaxAborts = 1
  MaxKills = 0
SPECIFICATION WriteFairSpec
PROPERTY StopEnds
CHECK_DEADLOCK FALSE
