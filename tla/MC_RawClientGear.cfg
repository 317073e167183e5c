\* Connect() through rejects and stateless rejects, then one stream the
\* server opens: data of 0 or 2 bytes, a connect that may be refused, two
\* answers from the service.
CONSTANTS
  kMaxClientHellos <- MCMaxClientHellos
  PerSessionHellos <- MCPerSessionHellos
  MaxEventsPerRun = 2
  Streams = {s1}
  ChunkSizes = {0, 2}
  MaxChunks = 2
  MaxResponses = 2
  ConnectMayFail = TRUE
  PartialWrites = FALSE
SPECIFICATION RelaySpec
\* The client stops when the connection closes or Initialize fails.
CHECK_DEADLOCK FALSE
INVARIANTS
  ConnectSuccessEstablished
  NoNullDereference
  RelayedInOrder
PROPERTIES
  ConnectReturns
  StreamDataRelayed
  RepliesRelayed
