SPECIFICATION FairSpec
CONSTANTS
  r1 = r1  r2 = r2  r3 = r3  a1 = a1  a2 = a2  v1 = v1  v2 = v2
  f1 = f1  f2 = f2  e1 = e1  e2 = e2  None = None
  Requests = {r1, r2, r3}
  Applies = {a1, a2}
  ApplyOf <- ChatsAndRetry
  Vaults = {v1}
  Files = {f1, f2}
  VaultOf <- OneVault
  Ops <- TwoOps
  OpApply <- TwoOpApply
  OpFile <- TwoOpFile
  Rank <- TwoRank
  Edits = {}
  EditFile <- NoEdit
  Breaks <- TwoBreaks
  Existing = {f1, f2}
  LockCanExpire = FALSE
  RecordCanExpire = FALSE
  CanCrash = TRUE
  DiskCanFail = TRUE
  GitCanFail = TRUE
CHECK_DEADLOCK FALSE
INVARIANTS UncommittedIsReported AppliedIsCommitted
PROPERTIES NoLostChange RequestEnds
