\* Two threads; exceptions may leave the handlers.
CONSTANTS
  c1 = c1  c2 = c2
  Conn = {c1, c2}
  NumThreads = 2
  Requests <- SomeRequests
  MaxRequests = 2
  DbStates = {TRUE}
  Throws = {"convert", "query", "shutdown"}
SPECIFICATION Spec
PROPERTIES
  SessionsMove
  KeepsAccepting
  KeepAlive
