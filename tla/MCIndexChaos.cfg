SPECIFICATION FairSpec
CONSTANTS
  f1 = f1  f2 = f2  d1 = d1  d2 = d2  k1 = k1  k2 = k2
  NoFile = NoFile  NoDoc = NoDoc  NoRow = NoRow  NoEntry = NoEntry
  Files = {f1}
  AutoIndexed = {}
  MaxText = 2
  MaxChars = 4  Soft = 3  SearchWindow = 1  MinSentences = 2  WordLen = 6
  Size <- Emptied
  MaxMtime = 1
  Docs = {d1, d2}
  Tasks = {k1, k2}
  Requests <- Applier
  MaxActs = 2
  Missing = TRUE
  Reverts = TRUE
  Overlap = TRUE
  Cancels = TRUE
  MaxCrashes = 0
  Faults = TRUE
CHECK_DEADLOCK FALSE
INVARIANT TypeOK
PROPERTY TasksEnd
