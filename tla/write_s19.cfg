SPECIFICATION Spec
CONSTANTS
  Scripts <- MCScripts
  Format = "s19"
  session_mode = "SCP_FLORA_RSA"
  chunk_size = 290
  max_data_size = 24
  WORD = 4096
  Relocate <- MCOffset
INVARIANT TypeOK
INVARIANT WritesAreImage
INVARIANT ErasureCoversWrites
INVARIANT ErasesItsFileOnly
INVARIANT PacketFits
