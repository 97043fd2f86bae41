SPECIFICATION Spec
CONSTANTS
  Versions = {v1, v2}
  Loaders = {l1, l2}
  Emulated = {l1, l2}
  Unanswered = {l2}
  Native = x64
  Foreign = x86
  None = None
  Empty = Empty
  Bad = Bad
  Components = 2
  MaxValue = 1
  Labels = {"a"}
  MaxFields = 3
  Digests = {d1, d2}
  Commits = {k1, k2}
  Targets = {"crate", "sbom"}
  Crate = "crate"
  Stranger = "stranger"
  Tags = {"v1", "v2"}
  OddTag = "odd"
  MaxNesting = 1
  MaxLines = 3
  MaxSteps = 2
  MaxDepth = 4
  MaxNodes = 5
INVARIANTS HostMatchesMapped OnlyVerifiedInstalled PairIsProven EvidenceAgrees  ReportsForbidden
PROPERTY FetchRecovers
