SPECIFICATION Spec
CONSTANTS
  NoSession = NoSession  None = None
  Files = {"f1"}
  StateOps = {"o1"}
  TextOps = {}
  Schema = {"c1"}
  Creates = {"c1"}
  Keys = {"k1", "k2"}
  KeyOf <- MCKeyOf
  Configured = {"k2"}
  Proposals <- FilesMayFail
  Decisions <- TwoDecisions
  Requests = {"s1", "p1", "v1", "v2", "a1", "a3"}
  Kind <- MCKind
  Given <- SameId
  ClientIds = {"c"}
  MaxUserMoves = 0
  Faults = FALSE
  CanExpire = TRUE
CHECK_DEADLOCK FALSE
INVARIANTS TypeOK NothingUnreviewed OneApplyPerSession
PROPERTY ImplementsReviewSession
