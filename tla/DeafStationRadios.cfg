SPECIFICATION Spec
CONSTANTS
  Mine <- MCMine
  Others <- MCOthers
  WantAck = {"mAck", "oAck"}
  Seqs <- MCSeqs
  MaxRx = 2
  MaxTries = 2
  None = "none"
INVARIANTS TiListens
