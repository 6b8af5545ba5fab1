SPECIFICATION AppSpec
CONSTANTS
  MaxEvents = 4
  Gestures <- Lines
  MaxTimers = 1
  Flaky = TRUE
  MaxThreads = 2
  MaxConnects = 2
  MaxBytes = 3
  Talking = {1}
  FrameLen = 2
INVARIANTS
  MailboxHolds
  NeverSendsNone
  SentOnceInOrder
  TimerSurvives
  SocketsKept
  FramesWhole
PROPERTIES
  NothingWaits
CHECK_DEADLOCK FALSE
