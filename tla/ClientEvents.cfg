CONSTANTS
  MaxEvents = 2
  MaxSessions = 2
SPECIFICATION Spec
INVARIANTS TypeOK HandledOnce SessionsAreSeparate
PROPERTIES SenderIsConnected EventuallyReceived ImplementsStream
