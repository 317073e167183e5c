\* Three frames, each lost up to twice.  Once every id is used and acked
\* the connection is idle, waiting for the session: not a deadlock.
CONSTANTS
  MaxId = 3
  MaxLosses = 2
  InOrderSends = TRUE
SPECIFICATION Spec
INVARIANTS TypeOK NoFrameForgotten NeverAborted
PROPERTIES EveryFrameAcked ImplementsControlFrameDelivery
CHECK_DEADLOCK FALSE
