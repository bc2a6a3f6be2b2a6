SPECIFICATION Spec
CONSTANTS
  Req = {r1, r2}
  Step <- Steps
  Kind <- Kinds
  After <- Afters
  MaxTurns = 2
  MaxToken = 4
CHECK_DEADLOCK FALSE
SYMMETRY Symmetry
INVARIANTS TypeOK ChainIsOrdered NothingIsSkipped TakenOutStaysOut
