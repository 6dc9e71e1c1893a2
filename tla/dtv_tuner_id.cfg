SPECIFICATION DtvSpec
CONSTANTS
  Tuner <- LateTuner
  NonTuner <- NoDevice
  Stream <- OneStream
  StreamsOf <- LateStreamsOf
  UINT_RANGE = 64
  MAX_DEVICE_NUM = 2
  HotPlug = FALSE
  OpenFails <- NoDevice
  HalFaults <- NoFaults
  Opcode <- TunerOpcode
  TunerArg <- OneTunerArg
  Handle <- OneHandle
  ChannelNum <- NoDevice
  Programs <- NoPrograms
  DtvStatus <- StubStatus
  MemoryFails = FALSE
INVARIANT TunersAnswered
CHECK_DEADLOCK FALSE
