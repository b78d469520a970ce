\* Files of three functions and main, with one effect: every call graph, and
\* every way to write two calls and a perform.
SPECIFICATION FairSpec
CONSTANTS
  n1 = n1
  n2 = n2
  n3 = n3
  e1 = e1
  Files = {n1}
  Names = {n1, n2, n3}
  Effects = {e1}
  Text <- MCText
  Sources <- MCSources
INVARIANTS
  TypeOK
  FoundIsLeast
  UsersHaveContext
  DaemonAgrees
PROPERTIES
  AnalysisEnds
CHECK_DEADLOCK FALSE
