\* The generated goroutines of small programs, tame or not.
SPECIFICATION FairSpec
CONSTANTS
  e1 = e1
  Effects = {e1}
  MaxTasks = 4
  MaxPerforms = 3
INVARIANTS
  TypeOK
  InnermostCaseAnswers
  AnswersOwnRequest
  HandleOutlivesPerform
PROPERTIES
  TameProgramEnds
CHECK_DEADLOCK FALSE
