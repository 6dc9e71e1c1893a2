SPECIFICATION TvdFairSpec
CONSTANTS
  short = short
  oversize = oversize
  empty = empty
  Short = short
  Oversize = oversize
  Empty <- NoEmpty
  Service <- MCService
  Cmd <- Conversation
  Pdu <- ConversationPdu
  NtfOpcode <- VendorNtf
  DtvStatus <- VendorStatus
  HalFails = TRUE
  UninitFails = FALSE
  SockCap = 1
  MaxOutstanding = 3
  Faults <- QuietFaults
INVARIANT SilentAfterUnregister
PROPERTIES
  ProtocolSpec
  RequestsMove
CHECK_DEADLOCK FALSE
