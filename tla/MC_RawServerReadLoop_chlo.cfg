\* CHLOs buffered by the dispatcher on a healthy socket.
CONSTANTS
  Datagrams <- ChloDatagrams
  MaxDatagrams = 6
  MaxFaults = 0
  MaxChlos = 2
SPECIFICATION Spec
INVARIANT ChlosScheduled
PROPERTIES ChlosEventuallyProcessed
\* An idle server waits for the next datagram.
CHECK_DEADLOCK FALSE
