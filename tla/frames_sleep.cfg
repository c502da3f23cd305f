CONSTANTS
  N = 3
  MaxFrames = 5
SPECIFICATION Spec
INVARIANT NoSleepOnNewFrame
CHECK_DEADLOCK FALSE
