SPECIFICATION FairSpec
CONSTANTS
  Threads = {t1, t2}
  Inners = {i1, i2, i3}
  None = None
  MaxDeployments = 1
  MaxFaults = 1
INVARIANTS SingleDefault DetectedOnce CodeStaysMapped ReferencesBalance
PROPERTY AutoServes
