CONSTANTS
  N = 3
  MaxFrames = 5
SPECIFICATION Spec
INVARIANTS
  TypeOK
  BuffersConserved
  StartFindsBuffers
  ResendFindsBuffer
  PortKeepsItsBuffers
  TearBound
  OneCallPerFrame
  StopTakesEffect
CHECK_DEADLOCK FALSE
