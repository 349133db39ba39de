CONSTANTS
  Ranges <- MCRanges
  Start <- MCStart
  End <- MCEnd
  ReadOnly = {"ro"}
  Bridged = {"bridged"}
  Configs <- MCConfigs
  Addrs <- MCAddrs
  Counts = {0, 1, 2, 15}
  AddrMod = 64
  PageSize = 8
  Fns = {"getReg", "putReg"}
SPECIFICATION ProgramSpec
INVARIANTS
  TypeOK
  RangesKept
  ResourcesOwned
  AccessInside
PROPERTIES
  ValueFromBus
  GetRegRecovers
