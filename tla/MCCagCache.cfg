SPECIFICATION Spec
CONSTANTS
  j1 = j1
  j2 = j2
  Jobs <- MCJobs
  Docs <- MCDocs
  MaxUploads = 3
  MaxFailures = 1
SYMMETRY JobSymmetry
INVARIANTS
  TypeOK
  StaleOnlyAfterRace
  DeletedNotServed
  NothingMissing
  ReloadHeals
PROPERTIES
  ReadYourIngest
