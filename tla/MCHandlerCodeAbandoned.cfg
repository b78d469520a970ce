\* The documented reading of a handler case that does not resume.
SPECIFICATION FairSpec
CONSTANTS
  e1 = e1
  Effects = {e1}
  MaxTasks = 2
  MaxPerforms = 1
PROPERTIES
  AbandonedIsLeft
CHECK_DEADLOCK FALSE
