SPECIFICATION Spec
CONSTANTS
  Certificate <- MCCertificate
  Declarations <- MCDeclarations
  Plans <- PlansOfTwoSources
  Estates <- EstatesWithSources
  Files <- MCFiles
  NoFile = "none"
  Recordings <- MCRecordings
  Sites <- MCSites
  MaxChanges = 1
  MaxFailures = 1
INVARIANTS
  SitesAreNotMerged
CHECK_DEADLOCK FALSE
