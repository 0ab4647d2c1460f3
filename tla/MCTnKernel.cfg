SPECIFICATION Spec
CONSTANTS
  t1 = t1
  t2 = t2
  t3 = t3
  idle = idle
  Idle = idle
  Task = {t1, t2, t3, idle}
  Base <- MCBase
  NumPrio = 3
  WaitQ = {}
  Mutex = {}
  Ceil <- NoCeil
  Forever = Forever
  Wild = Wild
  Null = Null
  Elem = {}
  Flag = {}
  Slices <- SliceAt2
  Timeouts = {2}
  Programs <- MCPrograms
INVARIANT TypeOK
INVARIANT ReadyListsHold
INVARIANT HighestRuns
INVARIANT TimeoutListHolds
