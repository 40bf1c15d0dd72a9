SPECIFICATION Spec
CONSTANTS
  Client = {"one", "two"}
  Lines <- MCLines
  Troubled = {"logger"}
  QueueMsgSize = 3
  MaxStarts = 3
INVARIANTS
  ClientTypeOK
  LoopsApart
PROPERTIES
  LateSelectionIsLost
  SigintCloses
  KilledOnlyInHandler
  MissingQueueTells
CHECK_DEADLOCK FALSE
