SPECIFICATION Spec
CONSTANTS
  Libraries = {"UCL"}
  Configs <- MCConfigs
  SIGNATURE_LEN <- MCSignatureLen
  Cuts = {0, 37}
  Keys = {"k1", "k2"}
  Binaries <- MCBinaries
  ROMVersions <- MCVersions
  PACKET = 40
  MaxBuilds = 2
INVARIANTS
  TypeOK
  AcceptedIsSigned
  SignedIsAccepted
  CleanBuildDelivers
