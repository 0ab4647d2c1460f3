CONSTANTS
  a = a
  b = b
  c = c
  FF = FF
  Garbage = Garbage
  Zero = Zero
  Images <- AnyImage
  FwLength <- AnyRows
  Infos <- Announced
  Block = 2
  FlashSize = 4
  RxCap = 2
  TxCap = 2
  HwBuffers = 1
  MaxFaults = 0
  NumBufs = 2
  Timeouts = FALSE
  MaxSessions = 2
  MaxAborts = 1
  MaxKills = 0
SPECIFICATION WriteFairSpec
INVARIANT StreamInOrder
PROPERTY WriteSucceeds
CHECK_DEADLOCK FALSE
PROPERTY JoinEnds
