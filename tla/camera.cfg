CONSTANTS
  CamThreads = {c1, c2}
  RecThreads = {r1, r2}
  NoCam = NoCam
SYMMETRY Symmetry
SPECIFICATION Spec
INVARIANTS
  TypeOK
  NoDanglingCam
  AutoLeavesCamera
  PacedExclusiveCamera
  PacedCallsOwnCamera
  PacedNoOrphan
  PacedRecordingFlag
PROPERTY
  ImplementsMatch
