SPECIFICATION Spec
CONSTANTS
  c1 = c1
  c2 = c2
  goal = goal
  npcs = npcs
  d1 = d1
  a1 = a1
  e1 = e1
  s1 = s1
  Admin = {a1}
  Editor = {}
  Session = {s1}
  Drafter = {c1, c2}
  Key = {goal}
  ListKey = {}
  Doc = {d1}
  ReviewedOps = {"replace"}
  Suggestible = {goal}
  Configured = {}
  MaxField = 2
  MaxVersion = 2
  MaxConfig = 2
  MaxItem = 2
  MaxContent = 2
SYMMETRY Symmetric
INVARIANTS InitialOnce NoOrphanFields
PROPERTY InitialReadsCurrent
CHECK_DEADLOCK FALSE
