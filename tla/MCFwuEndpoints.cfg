CONSTANTS
  NumEntries = 4
  Words = 3
  HwBuffers = 2
  MaxPackets = 10
  Requests <- MCRequests
  MaxPacket0 = 64
  None = None
  Blocks = 3
  ChkBreak = 3
  AppHwBuffers = 2
SPECIFICATION MCSpec
INVARIANT TypeOK
INVARIANT InOrder
INVARIANT AnswerIsForRequest
INVARIANT OkIsExecuted
INVARIANT BlocksConserved
PROPERTY AbortEnds
PROPERTY IsAChannel
PROPERTY Delivered
CHECK_DEADLOCK FALSE
