SPECIFICATION IoSpec
CONSTANTS
  cmd = cmd
  short = short
  oversize = oversize
  empty = empty
  w1 = w1
  w2 = w2
  Cmd <- MCCmd
  Short = short
  Oversize = oversize
  Empty <- OneEmpty
  Pdu <- MCPdu
  SockCap = 2
  MaxOutstanding = 4
  Faults <- AllFaults
INVARIANTS
  TypeOK
  CallbacksFindTheirState
  ClosedOnce
CHECK_DEADLOCK FALSE
