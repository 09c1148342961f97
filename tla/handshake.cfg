SPECIFICATION FairSpec
CONSTANTS
  NameLens = {0, 4, 7}
  NFC_PROTOCOL_VERSION = 11
  AioBufferSize = 65536
  NFC_SECTOR_SIZE = 512
  Versions = {2, 3, 11}
  FileReplies <- MCFileReplies
INVARIANTS
  TypeOK
  Conversing
  OpensInStep
  OpenJustified
PROPERTIES
  ConversationEnds
CHECK_DEADLOCK FALSE
