SPECIFICATION TvdSpec
CONSTANTS
  short = short
  oversize = oversize
  empty = empty
  Short = short
  Oversize = oversize
  Empty <- OneEmpty
  Service <- MCService
  Cmd <- EveryBranch
  Pdu <- EveryBranchPdu
  NtfOpcode <- VendorNtf
  DtvStatus <- VendorStatus
  HalFails = TRUE
  UninitFails = TRUE
  SockCap = 1
  MaxOutstanding = 2
  Faults <- AllFaults
INVARIANTS
  TvdTypeOK
  DispatchReady
CHECK_DEADLOCK FALSE
