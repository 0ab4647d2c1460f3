SPECIFICATION OSpec
CONSTANTS
  t1 = t1
  t2 = t2
  t3 = t3
  idle = idle
  Idle = idle
  Task = {t1, t2, t3, idle}
  Base <- MCBase
  NumPrio = 3
  WaitQ = {"sem", "send", "receive", "event", "mem", m1, m2}
  Mutex = {m1, m2}
  Ceil <- MCCeil
  Forever = Forever
  Wild = Wild
  Null = Null
  Elem <- MCElem
  Flag = {f1, f2}
  Slices <- NoSlices
  Timeouts = {2}
  Programs <- CeilingPrograms
  m1 = m1
  m2 = m2
  e1 = e1
  e2 = e2
  f1 = f1
  f2 = f2
  StartValue = 0
  MaxVal = 2
  SemTimeouts = {Forever}
  Capacities = {0, 3}
  Data = {e1, e2}
  QueueTimeouts = {Forever}
  EventAttrs <- MCEventAttrs
  Waits <- MCWaits
  EventTimeouts = {Forever}
  NumBlocks = 2
  MemTimeouts = {Forever}
  MutexTimeouts = {Forever}
INVARIANT CeilingNoDeadlock
