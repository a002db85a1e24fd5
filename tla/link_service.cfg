SPECIFICATION Spec
CONSTANTS
  Writes = {"ABT", "CLS"}
  Reads = {"STATUS"}
  Parts = 2
  Retry = 3
  Timeout = 8
  RecvTimeout = 4
  JoinTimeout = 16
  RequestDelay = 1
  AnswerDelay = 2
  Lossy = TRUE
  Refusals = TRUE
  ThreadMayDie = FALSE
  MaxBacklog = 2
INVARIANTS
  TypeOK
  OkMeansExecuted
  RawAnswerIsOwn
  NothingPending
  TimeoutMeansLoss
PROPERTIES
  ImplementsService
