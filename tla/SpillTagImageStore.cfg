SPECIFICATION FairSpec
CONSTANTS
  NumSlots = 2
  ImgStart = 1
  MaxVersion = 3
  Versions <- MCVersions
  Size <- MCSpillSize
  PieceCap = 3
  SlotCap = 1
  NumSecs = 2
  SecOf <- MCSpillSecOf
  MaxTries = 2
  TornWrites = TRUE
  MaxHurt = 2
INVARIANTS MissingIsTail OneDownload
PROPERTIES Delivered
