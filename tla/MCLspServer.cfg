CONSTANTS
  d1 = d1
  Docs = {d1}
  PipeSize = 2
  MaxMessages = 4
SPECIFICATION FairSpec
INVARIANTS
  TypeOK
  PendingIsAwaited
  GoplsAgreesWithEditor
  GoplsProtocol
  AnswersAreUpToDate
PROPERTIES
  AnswersOnceInOrder
  DiagnosticsMoveForward
  ExitTerminates
  ReadLoopProceeds
