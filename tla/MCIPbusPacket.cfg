CONSTANTS
  WordMod <- MCWordMod
  AddrOffset = 32
  MemStart = 32
  MemEnd = 44
  ReadOnly = {40}
  BusFaults = TRUE
  InitMem = {3}
  BitAnd <- AndWords
  BitOr <- OrWords
  Packets <- MCPackets
  OtherWrites <- MCOtherWrites
SPECIFICATION Spec
INVARIANTS
  RepliesMatch
  TornWriteLost
PROPERTIES
  WritesNamed
  PacketEnds
CHECK_DEADLOCK FALSE
