SPECIFICATION Spec
CONSTANTS
  NumSlots = 3
  ImgStart = 1
  MaxVersion = 3
  Versions <- MCVersions
  Size <- MCSize
  PieceCap = 2
  SlotCap = 2
  NumSecs = 2
  SecOf <- MCSecOf
  MaxTries = 3
  TornWrites = FALSE
  MaxHurt = 1
PROPERTIES DoneWhenMarked
