SPECIFICATION Spec
CONSTANTS
  MODES <- MCModes
  SimpleCmds <- MCCmds
  FAILURES = {"signature"}
  MXIM_HSM = FALSE
  TR_MOD = 3
  MaxLines = 3
  MaxChunks = 2
  MaxLost = 1
INVARIANT TypeOK
INVARIANT SentIsPrefix
INVARIANT ClosedIsComplete
PROPERTY IsConversation
