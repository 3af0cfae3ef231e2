SPECIFICATION FairSpec
CONSTANTS
  NumPages = 2
  SectorsPerPage = 3
  Bits <- MCBits
  FatHeads <- MCFatHeads
  FreshHead = {}
INVARIANTS TypeOK
PROPERTIES ImplementsDisk Synced
