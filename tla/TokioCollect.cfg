SPECIFICATION FairSpec
CONSTANTS
  ReleaseModes = {TRUE, FALSE}
  PipeSize = 1
  MaxOutput = 2
  TerminateMayFail = TRUE
  WorkerMayFail = TRUE
  ReadMayFail = TRUE
  WaitMayFail = TRUE
  MayCancel = TRUE
INVARIANTS SuccessIsWhole NothingLeftBehind InputOutlivesRoot
PROPERTY CollectionReturns
