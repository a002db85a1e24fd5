SPECIFICATION Spec
CONSTANTS
  Writes = {"ABT"}
  Reads = {"STATUS"}
  Parts = 1
  Retry = 2
  Timeout = 3
  RecvTimeout = 1
  JoinTimeout = 6
  RequestDelay = 0
  AnswerDelay = 2
  Lossy = TRUE
  Refusals = TRUE
  ThreadMayDie = TRUE
  MaxBacklog = 1
PROPERTIES
  CallsReturn
INVARIANTS
  ThreadEndsBeforeSocket
