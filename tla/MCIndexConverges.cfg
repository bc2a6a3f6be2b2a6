SPECIFICATION FairSpec
CONSTANTS
  f1 = f1  f2 = f2  d1 = d1  d2 = d2  k1 = k1  k2 = k2
  NoFile = NoFile  NoDoc = NoDoc  NoRow = NoRow  NoEntry = NoEntry
  Files = {f1}
  AutoIndexed = {f1}
  MaxText = 3
  MaxChars = 4  Soft = 3  SearchWindow = 1  MinSentences = 2  WordLen = 6
  Size <- Shrinking
  MaxMtime = 0
  Docs = {d1, d2}
  Tasks = {k1, k2}
  Requests <- Users
  MaxActs = 3
  Missing = FALSE
  Reverts = FALSE
  Overlap = FALSE
  Cancels = TRUE
  MaxCrashes = 1
  Faults = FALSE
CHECK_DEADLOCK FALSE
INVARIANTS IndexedIsCurrent CacheIsHonest
PROPERTY Converges
