CONSTANTS
  Producers = {p1, p2}
  Sender = sender
  Saver = saver
  Web = web
  Frames = {f1, f2}
  Nothing = Nothing
  NoThread = NoThread
SYMMETRY Symmetry
SPECIFICATION Spec
INVARIANTS
  TypeOK
  PicturesWhole
  ServesSomething
  DatagramsWhole
PROPERTY
  ImplementsBoard
