SPECIFICATION DtvSpec
CONSTANTS
  Tuner <- MCTuner
  NonTuner <- NoDevice
  Stream <- MCStream
  StreamsOf <- TunerStreamsOf
  UINT_RANGE = 64
  MAX_DEVICE_NUM = 1
  HotPlug = TRUE
  OpenFails <- MCTuner
  HalFaults <- AllFaults
  Opcode <- MCOpcode
  TunerArg <- TunerArgs
  Handle <- MCHandle
  ChannelNum <- MCChannelNum
  Programs <- MCPrograms
  DtvStatus <- VendorStatus
  MemoryFails = TRUE
INVARIANTS
  DtvTypeOK
  HandlersKeepContract
  FitsBuffer
CHECK_DEADLOCK FALSE
