CONSTANTS
  a = a
  b = b
  c = c
  FF = FF
  Garbage = Garbage
  Zero = Zero
  Images <- WithCrc
  FwLength <- WithCrcRows
  Infos <- Announced
  Block = 2
  FlashSize = 4
  RxCap = 2
  TxCap = 2
  HwBuffers = 1
  MaxFaults = 1
  NumBufs = 2
  Timeouts = TRUE
  MaxSessions = 2
  MaxAborts = 1
  MaxKills = 1
SPECIFICATION WriteSpec
CHECK_DEADLOCK FALSE
INVARIANT WriteTypeOK
INVARIANT DoneIsWritten
INVARIANT WritesErasedFlash
INVARIANT RunningIsImage
PROPERTY IntactUntilErased
PROPERTY RdyStarts
