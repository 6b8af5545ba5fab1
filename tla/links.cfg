SPECIFICATION LinksSpec
CONSTANTS
  Letters = {P}
  Others = {z}
  FrameLen = 3
  FifoDepth = 6
  BufLen = 3
  JtagDepth = 2
  WriteThreshold = 1
  MaxCall = 2
  Numbers = 3
  IntMax = 4
  Timeouts = {2}
  Uses = {"read", "write"}
  Unread = 1
INVARIANTS
  FramesHold
  NoLostWakeup
PROPERTIES
  ImplementsChannel
  ImplementsPipes
  CallsReturn
CHECK_DEADLOCK FALSE
