SPECIFICATION TvdSpec
CONSTANTS
  short = short
  oversize = oversize
  empty = empty
  Short = short
  Oversize = oversize
  Empty <- NoEmpty
  Service <- MCService
  Cmd <- Conversation
  Pdu <- ConversationPdu
  NtfOpcode <- StubNtf
  DtvStatus <- StubStatus
  HalFails = FALSE
  UninitFails = FALSE
  SockCap = 1
  MaxOutstanding = 2
  Faults <- NoFaults
INVARIANT UninitCleansUp
CHECK_DEADLOCK FALSE
