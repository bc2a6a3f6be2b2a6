SPECIFICATION Spec
CONSTANTS
  Req = {r1, r2}
  Step <- Steps
  Kind <- Kinds
  After <- Afters
  MaxTurns = 2
  MaxToken = 3
CHECK_DEADLOCK FALSE
INVARIANT ResultsSurvive
