\* QuicRawSession creates the handshaker with stateless rejects disabled.
CONSTANTS
  ClientMessages <- MCClientMessages
  UseStatelessRejectsIfPeerSupported = FALSE
  MaxMessages = 3
  MaxScupRequests = 2
SPECIFICATION Spec
INVARIANTS CallbackPointersValid NoUseAfterFree HandshakeMessagesProtected
PROPERTIES ChloEventuallyFinished
\* A destroyed handshaker takes no more steps.
CHECK_DEADLOCK FALSE
