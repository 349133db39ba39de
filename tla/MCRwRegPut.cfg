CONSTANTS
  Ranges <- MCRanges
  Start <- MCStart
  End <- MCEnd
  ReadOnly = {"ro"}
  Bridged = {"bridged"}
  Configs <- MCGoodConfig
  Addrs = {8, 20, 24}
  Counts = {1}
  AddrMod = 64
  PageSize = 8
  Fns = {"putReg"}
SPECIFICATION RwSpec
PROPERTY PutRegRecovers
