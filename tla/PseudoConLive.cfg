SPECIFICATION FairSpec
CONSTANTS
  Controllers = {c1}
  ReleaseExports = {TRUE, FALSE}
  EarlySplit = FALSE
  EofOnRootExit = TRUE
  SpawnMayFail = TRUE
  WorkerMayDie = FALSE
  c1 = c1
PROPERTIES EofAfterRootExit InputCloseEndsSession EnteredCloseReturns LastDropFrees
