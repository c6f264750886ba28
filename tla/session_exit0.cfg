SPECIFICATION Spec
CONSTANTS
  MODES = {"SCP_ANGELA_ECDSA"}
  SimpleCmds <- MCCmds
  FAILURES = {"signature"}
  MXIM_HSM = FALSE
  TR_MOD = 3
  MaxLines = 2
  MaxChunks = 2
  MaxLost = 0
INVARIANT SuccessIsComplete
