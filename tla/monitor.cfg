CONSTANTS
  MaxImages = 4
  MaxChunks = 2
  NoThread = NoThread
SPECIFICATION FairSpec
INVARIANTS
  TypeOK
  NoSleepOnImage
  OneTransferDecoded
PROPERTIES
  ImplementsMailbox
  AutoIsAnswered
