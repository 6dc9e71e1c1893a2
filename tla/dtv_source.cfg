SPECIFICATION DtvSpec
CONSTANTS
  Tuner <- OneTuner
  NonTuner <- NoDevice
  Stream <- OneStream
  StreamsOf <- OneStreamsOf
  UINT_RANGE = 64
  MAX_DEVICE_NUM = 2
  HotPlug = FALSE
  OpenFails <- NoDevice
  HalFaults <- NoFaults
  Opcode <- SourceOpcode
  TunerArg <- OneTunerArg
  Handle <- OneHandle
  ChannelNum <- NoDevice
  Programs <- NoPrograms
  DtvStatus <- StubStatus
  MemoryFails = FALSE
INVARIANT SourcePassedBack
CHECK_DEADLOCK FALSE
