CONSTANTS
  a = a
  FF = FF
  Garbage = Garbage
  Zero = Zero
  Images <- OneImage
  FwLength <- OneImageRows
  Infos <- AnyInfo
  Block = 1
  FlashSize = 1
  RxCap = 1
  TxCap = 1
  HwBuffers = 1
  MaxFaults = 1
SPECIFICATION FairSpec
INVARIANT TypeOK
INVARIANT RunningIsIntact
PROPERTY AlwaysReturns
