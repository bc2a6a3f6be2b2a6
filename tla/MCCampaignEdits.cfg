SPECIFICATION Spec
CONSTANTS
  c1 = c1
  c2 = c2
  goal = goal
  npcs = npcs
  d1 = d1
  a1 = a1
  e1 = e1
  s1 = s1
  Admin = {a1}
  Editor = {e1}
  Session = {s1}
  Drafter = {}
  Key = {goal, npcs}
  ListKey = {npcs}
  Doc = {}
  ReviewedOps = {"add", "remove"}
  Suggestible = {}
  Configured = {goal, npcs}
  MaxField = 2
  MaxVersion = 4
  MaxConfig = 3
  MaxItem = 2
  MaxContent = 2
INVARIANTS TypeOK RowsAreKeyed
PROPERTY PatchOnSeenRows
CHECK_DEADLOCK FALSE
