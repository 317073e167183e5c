SPECIFICATION Spec
CONSTANTS
  kMaxClientHellos <- MCMaxClientHellos
  PerSessionHellos <- MCPerSessionHellos
  MaxEventsPerRun = 2
CHECK_DEADLOCK FALSE
INVARIANT
  HandshakeCanHearServer
