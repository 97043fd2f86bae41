SPECIFICATION FairSpec
CONSTANTS
  Tasks = {t1, t2}
  NoTask = NoTask
  UnregisterMayFail = TRUE
INVARIANT NoWakerUnderBlockingDrop
PROPERTIES ImplementsCallbackContext ExitReachesWaiter DropReclaims
