\* A read failure while a StartReading is posted for buffered CHLOs.
CONSTANTS
  Datagrams <- AllDatagrams
  MaxDatagrams = 3
  MaxFaults = 1
  MaxChlos = 1
SPECIFICATION Spec
INVARIANT NoNullSocketUse
CHECK_DEADLOCK FALSE
