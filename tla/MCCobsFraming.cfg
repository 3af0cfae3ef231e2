SPECIFICATION FairSpec
CONSTANTS
  MaxByte = 5
  Messages <- MCMessages
  Crc <- MCCrc
  CrcLen = 1
  BufSize = 9
INVARIANTS TypeOK
PROPERTIES ImplementsLink Recovers
