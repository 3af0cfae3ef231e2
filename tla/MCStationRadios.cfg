SPECIFICATION FairSpec
CONSTANTS
  Mine <- MCMine
  Others = {"o"}
  WantAck = {"mAck"}
  Seqs <- MCSeqs
  MaxRx = 2
  MaxTries = 2
  None = "none"
INVARIANTS TypeOK NrfListens TiListens
PROPERTIES ImplementsQueues 
