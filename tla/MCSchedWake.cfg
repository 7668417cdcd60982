\* One CPU runs two user threads of one process and a kernel thread that
\* yield, block, wake each other and exit.
CONSTANTS
  CPUs = {c1}
  BSP = c1
  w1 = w1
  w2 = w2
  w3 = w3
  p1 = p1
  Workers <- MCWorkers
  Procs = {p1}
  ProcOf <- MCProcOf
  NoProc = NoProc
  NoThread = NoThread
  IDT_SIZE = 8
  CLASS = 2
  PREEMPT = 1
  Exceptions <- MCExceptions
  BootTaken <- MCBootTaken
  NoHandler = NoHandler
  SchedEntry = SchedEntry
  Device = Device
  ExceptionUnhandled = ExceptionUnhandled
  CanUnblock = TRUE

SPECIFICATION Spec
PROPERTIES QueuedThreadRuns
