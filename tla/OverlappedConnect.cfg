SPECIFICATION FairSpec
CONSTANTS
  Threads = {t1, t2}
  PIPE_NAME_ATTEMPTS = 2
  ForeignNames = {0, 2, 3}
  CallsMayFail = TRUE
INVARIANTS MemoryOutlivesConnect AllOrNothing
PROPERTY CreationReturns
