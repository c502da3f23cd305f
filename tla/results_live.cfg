CONSTANTS
  Producers = {p1}
  Sender = sender
  Saver = saver
  Web = web
  Frames = {f1, f2}
  Nothing = Nothing
  NoThread = NoThread
SPECIFICATION FairSpec
PROPERTIES
  SenderKeepsSending
  FramesKeepFlowing
  GetsAnswered
