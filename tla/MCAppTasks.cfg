SPECIFICATION Spec
CONSTANTS
  v1 = v1
  v2 = v2
  Version <- MCVersion
  CmdQueueLength = 2
  DataQueueLength = 1
  FrameLen = 2
  MaxFrames = 3
  MaxBoots = 1
INVARIANTS TypeOK WakeFindsRequest AnswerIsWhole RepliesAreWhole
PROPERTIES AnnouncementServed
CHECK_DEADLOCK FALSE
