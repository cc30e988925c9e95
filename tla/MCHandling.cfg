SPECIFICATION Spec
CONSTANTS
  None = None
  Ids = {"a", "b"}
  Methods = {"ping", "health", "umlaut"}
  NonAscii = {"umlaut"}
  Configs <- MCConfigs
  Tokens <- MCTokens
  Foreign <- MCForeign
  ForeignReplies <- MCForeignReplies
  MaxTime = 2
  MaxSends = 3
INVARIANTS OutcomeIsOwn RefusalIsTrue
PROPERTY OnlyAuthorised
CHECK_DEADLOCK FALSE
