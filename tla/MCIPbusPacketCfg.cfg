CONSTANTS
  WordMod <- MCWordMod
  AddrOffset = 32
  MemStart = 32
  MemEnd = 44
  ReadOnly = {40}
  BusFaults = FALSE
  InitMem = {3}
  BitAnd <- AndWords
  BitOr <- OrWords
  Packets <- MCCfgPackets
  OtherWrites <- MCNoOtherWrites
SPECIFICATION Spec
INVARIANT CfgWriteIgnored
CHECK_DEADLOCK FALSE
