CONSTANTS
  Procs = {p1, p2}
  Values = {v1, v2}
  Words = 2
  MaxSignals = 2
  MaxKills = 1
  BusFaults = TRUE
SPECIFICATION FairSpec
INVARIANTS
  TypeOK
  PermitConserved
  ReadUntorn
  WriteEffective
PROPERTIES
  BusProgress
  RegisterGuarded
  BusTransactions
CHECK_DEADLOCK FALSE
