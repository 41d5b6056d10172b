SPECIFICATION Spec
CONSTANTS
  Certificate <- MCCertificate
  Declarations <- MCDeclarations
  Plans <- MCPlans
  Estates <- MCEstates
  Files <- MCFiles
  NoFile = "none"
  Recordings <- MCRecordings
  Sites <- MCSites
  MaxChanges = 1
  MaxFailures = 1
INVARIANTS
  EdgesAreOneCertificate
  CertificatesAreAccounted
  CertificateRowsAgree
PROPERTIES
  MoreEvidenceIsNoMoreCertainty
CHECK_DEADLOCK FALSE
