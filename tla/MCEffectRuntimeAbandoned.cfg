CONSTANTS
  A = A
  B = B
  Effects = {A, B}
  Depth = 2
  MaxTries = 2
  MaxPerforms = 1
  MaxResumes = 1
  Programs <- AbortingPrograms
SPECIFICATION Spec
INVARIANT
  AbandonedMeansStopped
CHECK_DEADLOCK FALSE
