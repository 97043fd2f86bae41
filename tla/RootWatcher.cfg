SPECIFICATION FairSpec
CONSTANTS
  LegacyModes = {TRUE, FALSE}
  WorkerSpawnMayFail = TRUE
  TerminateMayFail = TRUE
  UnregisterMayFail = TRUE
PROPERTIES ImplementsCallbackContext ContextReclaimed RootExitActs
