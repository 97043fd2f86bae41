SPECIFICATION Spec
CONSTANTS
  c1 = c1
  Controllers = {c1}
  ReleaseExports = {TRUE, FALSE}
  EarlySplit = FALSE
  EofOnRootExit = TRUE
  SpawnMayFail = TRUE
  WorkerMayDie = FALSE
INVARIANT ReleasedStartsNoWatcher
