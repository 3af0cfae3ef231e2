SPECIFICATION FairSpec
CONSTANTS
  NumSlots = 2
  ImgStart = 1
  MaxVersion = 3
  Versions <- MCVersions
  Size <- MCSize
  PieceCap = 2
  SlotCap = 2
  NumSecs = 2
  SecOf <- MCSecOf
  MaxTries = 2
  TornWrites = TRUE
  MaxHurt = 1
INVARIANTS TypeOK ImageWhole BitmapTrue MissingIsTail AsksForMissing OneDownload
PROPERTIES ProgressKept NewestKept ImplementsRegister Delivered
