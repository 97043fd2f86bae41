SPECIFICATION Spec
CONSTANT Spawners = {s1, s2, s3}
INVARIANTS OneRootPerSession NoOrphanedSession
PROPERTY HalvesClose
CHECK_DEADLOCK FALSE
