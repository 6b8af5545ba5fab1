SPECIFICATION Spec
CONSTANTS
  MaxEvents = 3
  Gestures <- Lines
  MaxTimers = 1
  Flaky = FALSE
INVARIANTS
  LastPostedIsSent
CHECK_DEADLOCK FALSE
