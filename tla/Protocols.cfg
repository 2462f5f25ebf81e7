\* Client: two callers on two ids; three requests through one place, or two with a place each.
SPECIFICATION MCSpec
CONSTANTS
  c1 = c1
  c2 = c2
  Callers = {c1, c2}
  Kind <- MCKind
  MaxTransaction = 3
  Sizes = {1, 2}
  Objs = {o1, o2}
  MaxMoves = 3
  MaxPending = 2
  Kinds = {"websocket", "mqtt"}
  Devices <- TwoDevices
  Conn = {1, 2}
  Messages <- OneOrBoth
  Writer = {1, 2}
  MaxMessages = 2
  MaxWrites = 2
  MaxReloads = 1
  Key = {"script"}
  Reader = {1, 2}
  Methods = {"DeviceEncode", "DeviceDecode", "EncodeV2", "DecodeV2", "Execute", "Encode", "Decode"}
  MaxVersion = 2
  MaxVMs = 3
  MaxStarts = 1
  Connections <- MCConnections
  Octets = {1, 2}
  Width = 2
  Commander = {w1, w2}
  PlcMoves = 2
  Lines <- MCLines
  MaxLate = 1
  MaxPreamble = 2
  Job = {"second", "cron"}
  Ticker = {"second"}
  MaxRuns = 2
INVARIANTS
  AnswersGoHome
  StatusIsOfTheSession
  ScriptsAreCurrent
  ValuesAreOfTheirPoints
  ClosedMeansEnded
CONSTRAINT
  OnePlaceEach
PROPERTIES
  BitsKeepNeighbours
\* Callers stop when their requests are used up; a line that is still has no step.
CHECK_DEADLOCK FALSE
