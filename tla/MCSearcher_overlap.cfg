\* Two threads and no failure of the database.
CONSTANTS
  c1 = c1  c2 = c2
  Conn = {c1, c2}
  NumThreads = 2
  Requests <- SomeRequests
  MaxRequests = 1
  DbStates = {TRUE}
  Throws = {}
SPECIFICATION Spec
INVARIANTS
  KeepsListening
