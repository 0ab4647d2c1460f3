\* The Start button of the regular operation, clicked twice.
SPECIFICATION MCSpec
CONSTANTS
  Lines <- MCLines
  MaxLines = 4
  Modulus = 64
  LinearUnit = 16
  SegmentUnit = 2
  Buffers = {b1, b2}
  Stack = s
  MaxErrorCount = 1
  MaxDepth = 2
  MaxPlugs = 1
  Uses <- MCUses
  Texts = {t1, t2, t3, t4, t5}
  MaxItems = 4
  Radix = 3
INVARIANT FreedIsIdle
CHECK_DEADLOCK FALSE
