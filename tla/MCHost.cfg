\* The host program, one part at a time.
SPECIFICATION MCSpec
CONSTANTS
  Lines <- MCLines
  MaxLines = 4
  Modulus = 19
  LinearUnit = 16
  SegmentUnit = 2
  Buffers = {b1, b2}
  Stack = s
  MaxErrorCount = 1
  MaxDepth = 2
  MaxPlugs = 1
  Uses <- MCUses
  Texts = {t1, t2, t3, t4, t5}
  MaxItems = 4
  Radix = 3
INVARIANTS
  ImageIsTheFile
  IdleWhenStopped
  SessionCleansUp
  HistorySurvives
\* The program ends, and stays ended, when no Start button may be used any more.
CHECK_DEADLOCK FALSE
