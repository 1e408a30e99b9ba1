CONSTANTS
  Names <- MCNames
  Endpoints <- MCEndpoints
  Functions = {"fkt"}
  NoFunction = "null"
  Settings = {1}
  MaxEntries = 6
  MaxStrings = 2
  MaxConfs = 1
  Files <- MCFiles
  Byte = 4
  MaxSessions = 2
  MaxLost = 1
  Letters = {"letter"}
  Others = {"other"}
  BuffSize = 2
  MaxStrokes = 5
  Frames <- MCFrames
  Replies <- MCReplies
  MaxFrames = 2
  FifoSize = 6
  LenValues = 8
  Counts = {2, 3, 4, 9}
  MaxChars = 9
  MaxArrived = 3
  FileSizes = {1, 3, 5}
  Room = 2
  Cells = 4
  MaxRuns = 4
  Pins = {1, 2}
  MaxClients = 3
  Devices = {"first", "second"}
  Readers = {"r1", "r2"}
  Peers = {"a", "b", "c"}
  Beyond = {"a"}
  Conns = 2
  Scripts <- MCScripts
  MaxFlight = 2
SPECIFICATION DevicesSpec
INVARIANTS
  FieldIsTree
  NamesFound
  ImageInFlash
  ReadAsTyped
  FlagsFollowKeys
  HandedWhole
  ReplyWhole
  PortCarries
  MemoryIsFile
  AnswerIsOwn
  NoDisconnectNow
  StreamsInOrder
PROPERTIES
  ImageReplaced
  SessionsEnd
CHECK_DEADLOCK FALSE
