\* Read failures and bursts longer than the 32-read budget, no buffered CHLOs.
CONSTANTS
  Datagrams <- FaultDatagrams
  MaxDatagrams = 35
  MaxFaults = 1
  MaxChlos = 0
SPECIFICATION Spec
INVARIANTS TypeOK ReadLoopArmed SyncReadsBounded
PROPERTIES DatagramsEventuallyRead
\* An idle server waits for the next datagram.
CHECK_DEADLOCK FALSE
