\* Handled signals only: no SIGKILL, no bus error.
CONSTANTS
  Procs = {p1, p2}
  Values = {v1}
  Words = 1
  MaxSignals = 1
  MaxKills = 0
  BusFaults = FALSE
SPECIFICATION Spec
INVARIANT PermitUndone
CHECK_DEADLOCK FALSE
