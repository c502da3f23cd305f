CONSTANTS
  Timeout = 3
  Pause = 50
  MaxCount = 2
SPECIFICATION FairSpec
INVARIANTS
  TypeOK
  TimeoutSparesOpenStream
PROPERTIES
  ImplementsTally
  GoneClientDropped
