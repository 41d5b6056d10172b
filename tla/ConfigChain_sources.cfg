SPECIFICATION Spec
CONSTANTS
  Values <- MCValues
  Profiles <- MCProfiles
  Dirs <- MCDirs
  Deployments <- MCThree
  Ours <- MCTwo
  MaxEdits = 3
INVARIANTS
  InferredIsBound
  EvidenceManufacturesNothing
CHECK_DEADLOCK FALSE
