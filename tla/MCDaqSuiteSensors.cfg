CONSTANTS
  t1 = t1
  t2 = t2
  t3 = t3
  Threads = {t1, t2, t3}
  None = None
  Data <- MCData
  Masks <- MCMasks
  AcquireTime = 2
  LiveTimes = {0, 1}
  MaxFaults = 1
  Scenarios <- MCScenarios
  Tables <- MCTables
  Regs = 2
  Resets = 2
  FwReads = 2
  MaxCalls = 1
  Jobs <- MCJobs
  NOH = 2
SPECIFICATION Spec
INVARIANT
  SensorsAccepted
CHECK_DEADLOCK FALSE
