CONSTANTS
  Paths = {"a", "b"}
  Texts <- FabricTexts
  Plans <- FabricPlans
  Supplements <- FabricSupplements
  MaxEdits = 1
  MaxSupplements = 2
  Manifests <- FabricManifests
  MaxClaims = 2
SPECIFICATION MCFabricSpec
INVARIANTS
  FormalLevelHasKernel
  OneArtifactPerClaim
  JudgeIsSober
PROPERTIES
  RefusalIsFinal
  SupportNeverLowers
CHECK_DEADLOCK FALSE
