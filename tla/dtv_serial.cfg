SPECIFICATION DtvSpec
CONSTANTS
  Tuner <- MCTuner
  NonTuner <- MCOther
  Stream <- MCStream
  StreamsOf <- MCStreamsOf
  UINT_RANGE = 64
  MAX_DEVICE_NUM = 3
  HotPlug = FALSE
  OpenFails <- SecondTuner
  HalFaults <- ModuleFault
  Opcode <- TunerOpcodes
  TunerArg <- MCTunerArg
  Handle <- OneHandle
  ChannelNum <- NoDevice
  Programs <- NoPrograms
  DtvStatus <- StubStatus
  MemoryFails = FALSE
INVARIANTS
  TunersAnswered
  SourceOpened
  TableMatchesHal
  StreamsTracked
  WithinBounds
PROPERTY TableSpec
CHECK_DEADLOCK FALSE
