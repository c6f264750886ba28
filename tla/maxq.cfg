SPECIFICATION Spec
CONSTANTS
  Libraries = {"UCL", "MXIM_HSM", "SAFENET_HSM"}
  Simple = {"erase_all_flash_areas", "load_data", "load_customer_key"}
  DataLengths = {180, 181}
  Files <- MCFiles
  chunk_size = 4
  LOC_SIZE = 16
  PAGE = 8
  SEQ_MOD = 4
  MaxLines = 3
INVARIANTS
  TypeOK
  AnnouncedIsSent
  LoadFileIsImage
  VerifyFollowsLoad
PROPERTIES
  IsMaxqConversation
