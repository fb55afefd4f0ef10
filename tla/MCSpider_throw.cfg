\* A task that throws is never subtracted from active_tasks.
CONSTANTS
  home = home  a = a  b = b  c = c  x = x  y = y
  Url = {home, a, b, c}
  Word = {x, y}
  NoTx = 0
  start_url = home
  Links <- WebLinks
  Words <- WebWords
  Connects = {TRUE}
  MaxFaults = 0
  search_depth = 2
  NumThreads = 2
  Replies <- Throwing
  BadWords = {}
  MaxRuns = 1
SPECIFICATION Spec
INVARIANTS
  IdleMeansZero
CHECK_DEADLOCK FALSE
