SPECIFICATION Spec
CONSTANTS
  c1 = c1
  c2 = c2
  Controllers = {c1, c2}
  ReleaseExports = {TRUE, FALSE}
  EarlySplit = TRUE
  EofOnRootExit = TRUE
  SpawnMayFail = TRUE
  WorkerMayDie = TRUE
SYMMETRY Symmetry
INVARIANTS NoStrandedClaim BorrowedIsLive ClosesAreServed
PROPERTY ImplementsCloseOnce
