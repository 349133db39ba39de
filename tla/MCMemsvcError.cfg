CONSTANTS
  Ranges <- MCRanges
  Start <- MCStart
  End <- MCEnd
  ReadOnly = {"ro"}
  Bridged = {"bridged"}
  Configs <- MCGoodConfig
  Addrs <- MCAddrs
  Counts = {1}
  AddrMod = 64
  PageSize = 8
SPECIFICATION Spec
INVARIANT ErrorReported
