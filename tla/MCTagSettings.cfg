SPECIFICATION Spec
CONSTANTS
  NumPages = 3
  PerPage = 2
  Values <- MCValues
  Default = "a"
  MaxRevision = 9
  TornWrites = TRUE
INVARIANTS TypeOK RevisionsDiffer
PROPERTIES SleepsSaved ImplementsRegister
