SPECIFICATION DetectSpec
CONSTANTS
  OneTime = {"write_crk"}
  MaxLost = 2
  Sessions <- MCSessions
  CommandLines <- MCCommandLines
  PORT_RESULTS = {}
  Bootloader = "bootloader"
  Lookalikes = {"lookalike"}
  Nameless = {"nameless"}
  DETECT_TICKS = 2
INVARIANTS
  DetectTypeOK
  LockStep
  SuccessIsBootloader
PROPERTIES
  IsReplay
  Termination
CHECK_DEADLOCK FALSE
