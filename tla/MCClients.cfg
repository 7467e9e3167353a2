SPECIFICATION ClientsSpec
CONSTANTS
  Streams = {"stdout", "stderr"}
  Terminators = {"limit", "caller"}
  Limit = "limit"
  Readers = {"reader"}
  Inputs = {"none", "sync", "async"}
  MaxBytes = 2
  MaxChunks = 2
  MaxSent = 2
  Requests = {"r1", "r2"}
  Engines = {"e1", "e2"}
  MaxFlights = 2
  MaxBody = 2
  BodyLimit = 1
  Window = 2
  MaxData = 3
  Methods = {"GET", "HEAD", "PUT"}
  Backends = {"auto", "webdav", "webrtc"}
INVARIANTS CaptureFaithful OwnEngine TransferTruthful WindowSuffices
PROPERTY ClientsSettle
CHECK_DEADLOCK FALSE
