SPECIFICATION IoReaderSpec
CONSTANTS
  cmd = cmd
  short = short
  oversize = oversize
  empty = empty
  w1 = w1
  w2 = w2
  Cmd <- MCCmd
  Short = short
  Oversize = oversize
  Empty <- NoEmpty
  Pdu <- MCPdu
  SockCap = 1
  MaxOutstanding = 3
  Faults <- QuietFaults
INVARIANTS
  NoLostWakeup
  InputWatched
PROPERTIES
  OutboxSpec
  QueueMoves
  HalfCloseServed
  HangupEndsDaemon
CHECK_DEADLOCK FALSE
