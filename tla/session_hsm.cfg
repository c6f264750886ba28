SPECIFICATION Spec
CONSTANTS
  MODES <- Modes
  SimpleCmds <- MCCmds
  FAILURES = {"signature", "extension"}
  MXIM_HSM = TRUE
  TR_MOD = 3
  MaxLines = 3
  MaxChunks = 2
  MaxLost = 0
INVARIANT WritesFollowScript
INVARIANT PublishedIsWhole
