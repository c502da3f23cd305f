CONSTANTS
  CamThreads = {c1, c2}
  RecThreads = {r1}
  NoCam = NoCam
SPECIFICATION FairSpec
PROPERTIES
  TeleopEndsInPowerOff
  RecordingEndsInPowerOff
