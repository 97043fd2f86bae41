SPECIFICATION Spec
CONSTANTS
  LegacyModes = {TRUE, FALSE}
  WorkerSpawnMayFail = TRUE
  TerminateMayFail = TRUE
  UnregisterMayFail = TRUE
INVARIANT RegistrarSeesLiveContext
