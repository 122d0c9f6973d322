CONSTANTS
  BUF_LEN = 3
  FIFO_DEPTH = 2
  WRITE_THRESHOLD = 1
  READ_THRESHOLD = 0
  INT_MAX = 5
  DEFAULT_TIMEOUT = 2
  Char = {0, 1}
  Typed = {0, 1}
  Texts <- MCTexts
  Wants = {1, 2}
  Timeouts = {1}
  ALT_MAX_FD = 6
  Null = Null
  Uart = Uart
  NoDev = NoDev
  Nowhere = Nowhere
  Names <- MCNames
SPECIFICATION HSpec
INVARIANTS
  NoWakeUpLost
  DispatchEnds
  WholeWrites
  NoLeak
  StreamsStay
  OneHolder
PROPERTIES
  WrittenReachesHost
  TypedReachesReader
  NothingStuck
  CallsEnd
  PromiseKept
