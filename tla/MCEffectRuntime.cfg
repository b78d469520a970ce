CONSTANTS
  A = A
  B = B
  Effects = {A, B}
  Depth = 2
  MaxTries = 2
  MaxPerforms = 2
  MaxResumes = 3
  Programs <- MCPrograms
SPECIFICATION FairSpec
INVARIANTS
  TypeOK
  InnermostHandles
  StackMatchesTrys
PROPERTIES
  TrysReturn
CHECK_DEADLOCK FALSE
