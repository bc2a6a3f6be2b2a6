SPECIFICATION FairSpec
CONSTANTS
  NoSession = NoSession  None = None
  Files = {"f1"}
  StateOps = {"o1"}
  TextOps = {"o1"}
  Schema = {"c1", "u1"}
  Creates = {"c1"}
  Keys = {"k1", "k2"}
  KeyOf <- MCKeyOf
  Configured = {"k2"}
  Proposals <- AllOffered
  Decisions <- AcceptAll
  Requests = {"s1", "v1", "a1", "a2", "x1"}
  Kind <- MCKind
  Given <- SameId
  ClientIds = {"c"}
  MaxUserMoves = 1
  Faults = TRUE
  CanExpire = TRUE
CHECK_DEADLOCK FALSE
INVARIANT FailedSchemaAborts
PROPERTY RequestsEnd
