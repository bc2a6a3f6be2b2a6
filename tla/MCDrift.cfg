SPECIFICATION FairSpec
CONSTANTS
  NCtx = 16  MaxOutput = 6  Margin = 2  Marker = 1  System = 3  Header = 1  Reply = 2
  Turn = {"t1"}
  Slots = 2
  User = {1, 2}
  Hint = {"h1", "h2"}
  Flags = {{"detect"}, {"draft", "detect"}}
  History = 1
  KeepLast = 1
  Chunk = 1
  MaxDraft = 2
  Loads <- TasksOrDrafts
CHECK_DEADLOCK FALSE
INVARIANTS TypeOK RecapIsExact AcceptedIsWithdrawn SpinnerStops
PROPERTY DirtyIsRescanned
