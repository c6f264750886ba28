SPECIFICATION Spec
CONSTANTS
  LIBRARIES = {"ucl", "mxim_hsm", "safenet"}
  IniLines <- MCIniLines
  Args <- MCArgs
  ScriptLines <- MCScriptLines
  MaxIni = 2
  MaxArgs = 2
  MaxLines = 2
  GARBAGE <- MCGarbage
INVARIANTS
  TypeOK
  CommandLineWins
  ReadyToSign
  ChunkFitsMode
  ReadsDoNotWrite
  LengthsAnnounced
