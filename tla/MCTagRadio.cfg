SPECIFICATION Spec
CONSTANTS
  Packets <- MCPackets
  Noise <- MCNoise
  Length <- MCLength
  RingSize = 3
  None = "none"
INVARIANTS TypeOK NeverDeaf
PROPERTIES ImplementsQueue
