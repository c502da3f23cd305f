CONSTANTS
  CamThreads = {c1, c2}
  RecThreads = {r1}
  NoCam = NoCam
SPECIFICATION Spec
PROPERTY
  RestartIsNotShutDown
