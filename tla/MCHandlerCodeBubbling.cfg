\* The documented search of the handlers: a handle without a case in another.
SPECIFICATION Spec
CONSTANTS
  e1 = e1
  Effects = {e1}
  MaxTasks = 3
  MaxPerforms = 1
INVARIANTS
  BubblesUpToACase
CHECK_DEADLOCK FALSE
