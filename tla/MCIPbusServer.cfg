CONSTANTS
  Conns = {1, 2}
  FrameLen <- MCFrameLen
  MaxFrames <- MCMaxFrames
  ReplyLen = 1
  RecvMax = 3
  SendRoom = 2
  MAX_CLIENTS = 2
  MAX_OBUF = 3
SPECIFICATION Spec
INVARIANTS
  TypeOK
  ClientsAreConnections
  FramesInOrder
  RepliesIntact
PROPERTIES
  ReplyArrives
CHECK_DEADLOCK FALSE
