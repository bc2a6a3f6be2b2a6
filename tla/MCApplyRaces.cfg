SPECIFICATION Spec
CONSTANTS
  r1 = r1  r2 = r2  r3 = r3  a1 = a1  a2 = a2  v1 = v1  v2 = v2
  f1 = f1  f2 = f2  e1 = e1  e2 = e2  None = None
  Requests = {r1, r2, r3}
  Applies = {a1}
  ApplyOf <- Triple
  Vaults = {v1}
  Files = {f1, f2}
  VaultOf <- OneVault
  Ops <- OneOps
  OpApply <- OneOpApply
  OpFile <- OneOpFile
  Rank <- OneRank
  Edits = {e1, e2}
  EditFile <- EditEach
  Breaks <- EditBreaks
  Existing = {f1}
  LockCanExpire = TRUE
  RecordCanExpire = TRUE
  CanCrash = TRUE
  DiskCanFail = FALSE
  GitCanFail = FALSE
CHECK_DEADLOCK FALSE
SYMMETRY AnyOrder3
INVARIANTS TypeOK UpdateAppliedOnce BatchIsAtomic NoLostEdit PreImageInHistory
PROPERTY ImplementsReviewedFiles
