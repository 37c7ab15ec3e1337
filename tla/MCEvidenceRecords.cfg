CONSTANTS
  Paths = {p1, p2}
  Reviewers = {r1, r2}
  MaxAttests = 2
  MaxEdits = 1
  Offered <- TwoItems
  Altered = altered
  MaxClock = 3
  MaxChanges = 2
  Artifacts = {a1, a2}
  MaxLinks = 2
  MaxCalls = 2
  MaxSwaps = 1
  Signers <- TwoSigners
  Sayings = {"yes", "no"}
  Leaves = {1, 2, 3}
  MaxLeaves = 5
  MaxSigns = 3
  MaxTouches = 2
  Repos = {"a", "b"}
  Verifiers = {v1, v2}
  Texts <- ExternalTexts
  NewTexts <- SomeNewTexts
  Requests <- SomeRequests
  MaxRewrites = 1
  MaxCrashes = 1
SPECIFICATION MCSpec
SYMMETRY EvidenceSymmetry
INVARIANTS
  ReviewIsEarned
  ChainIsRight
  TruthIsApproved
  SealsAreRight
  RootNamesLeaves
  PassedIsAdmissible
  NoClaimHides
  NamesTellTheText
PROPERTY UnfinishedStays
CHECK_DEADLOCK FALSE
