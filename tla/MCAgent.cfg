SPECIFICATION FairSpec
CONSTANTS
  Doc <- Docs
  Tag = {"t1", "t2"}
  Vault <- Vaults
  Query = {"q1", "q2"}
  Labelled <- LabelledDocs
  VaultOf <- VaultOfDoc
  Similar <- SimilarDocs
  Place <- SimilarPlace
  Own = {"t1"}
  Mentions <- MentionedDocs
  Size <- Sizes
  TopK = 2
  MaxRounds = 2
  MaxCalls = 2
  MaxAttempts = 2
  Budget = 4
  MaxChanges = 2
INVARIANT TypeOK
INVARIANT SearchStaysInScope
INVARIANT CallsAreAnswered
PROPERTY TurnEnds
CHECK_DEADLOCK FALSE
