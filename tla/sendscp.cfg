SPECIFICATION Spec
CONSTANTS
  OneTime = {"write_crk"}
  MaxLost = 1
  Sessions <- KeySession
  CommandLines <- NoCommandLine
  PORT_RESULTS = {"opened", "unavailable"}
  MAX_RETRY_TIMES = 3
  DEFAULT_FIRST_RETRY = 2
  GIVEN_FIRST_TRIES = {0, 3}
INVARIANTS
  ShellTypeOK
  ExitZeroIsFlashed
PROPERTIES
  NeverReplaysPart
  ScriptEnds
CHECK_DEADLOCK FALSE
