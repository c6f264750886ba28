SPECIFICATION Spec
CONSTANTS
  Scripts <- MCLongRecord
  Format = "s20"
  session_mode = "SCP_FLORA_RSA"
  chunk_size = 290
  max_data_size = 300
  WORD = 4096
  Relocate <- MCIdentity
INVARIANT ErasureCoversWrites
