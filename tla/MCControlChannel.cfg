SPECIFICATION FairSpec
CONSTANTS PktWords = 2 H2FDepth = 3 F2HDepth = 4 Window = 2 MaxCmds = 3 MaxSessions = 2
  Kinds = {"polite", "abrupt", "slow"}
INVARIANTS AnswerMatches
PROPERTIES RequestsReplied
CHECK_DEADLOCK FALSE
