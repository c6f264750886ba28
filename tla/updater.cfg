SPECIFICATION Spec
CONSTANTS
  OneTime = {"write_crk", "write_timeout"}
  MaxLost = 1
  Sessions = {}
  CommandLines = {}
  PORT_RESULTS = {"opened", "undetected", "unavailable"}
  SessionOfStage <- MCSessionOfStage
  Strays <- MCStrays
  SCP_FIRST_TRY = 3
INVARIANTS
  UpdatedIsFlashed
PROPERTIES
  NoStageAfterFailure
  UpdateEnds
CHECK_DEADLOCK FALSE
