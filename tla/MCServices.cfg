SPECIFICATION Spec
CONSTANTS
  LastHandle = 3
  NoDomain <- MCAbsent
  Magic = 77
  U32 = 1000
  Absent <- MCAbsent
  MaxQueuedFrames = 2
  Channels = 2
  Programs <- MCPrograms
  Caps = {0, 3, 64}
  MaxSteps = 5
  MaxBoots = 2
  AudioOut = 9
  OtherService = 4
  MaxCommand = 200
  MaxBuffer = 16
  Mapped <- MCMapped
  Requests <- MCRequests
  Buffers <- MCBuffers
  Owned <- MCOwned
  MaxOpen = 6
  MaxMissed = 1
  MessageAt = 3
  Buttons = {5}
  Images <- MCImages
  PageSize = 4
  InstructionSize = 2
  AddressLimit = 24
  ArenaSize = 16
  MaxStack = 12
  MaxSegments = 2
  MaxTotal = 14
INVARIANTS
  IpcFaithful
  AudioInOrder
  SchedulerCorrect
  ImportFaithful
CHECK_DEADLOCK FALSE
