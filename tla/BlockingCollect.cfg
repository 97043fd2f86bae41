SPECIFICATION FairSpec
CONSTANTS
  ReleaseModes = {TRUE, FALSE}
  PipeSize = 1
  MaxOutput = 2
  TerminateMayFail = TRUE
  WorkerMayFail = TRUE
  ReaderMayFail = TRUE
  WaitMayFail = TRUE
INVARIANTS SuccessIsWhole NothingLeftBehind
PROPERTY CollectionReturns
