SPECIFICATION Spec
CONSTANTS
  a1 = a1
  a2 = a2
  a3 = a3
  s1 = s1
  s2 = s2
  None = None
  Apps = {a1}
  Sources = {s1, s2}
  Definitions <- ServerDefinitions
  PlanInputs = {"draft"}
  BuildSlots = 2
  GenSlots = 2
  MaxAttempts = 2
  Retained = 2
  MaxRevision = 3
  MaxJobs = 3
  MaxReleases = 0
  MaxRestarts = 0
INVARIANTS
  CancelLeavesArtifact
