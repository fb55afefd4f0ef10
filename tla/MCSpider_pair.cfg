\* The shipped depth; statements, requests and conversions fail; the program
\* is killed and started again.
CONSTANTS
  home = home  a = a  b = b  c = c  x = x  y = y
  Url = {home, a, b, c}
  Word = {x, y}
  NoTx = 0
  start_url = home
  Links <- WideLinks
  Words <- WebWords
  Connects = {TRUE, FALSE}
  MaxFaults = 1
  search_depth = 2
  NumThreads = 2
  Replies <- Failing
  BadWords = {c}
  MaxRuns = 2
SPECIFICATION Spec
INVARIANTS
  CounterExact
  WorkComplete
  Integrity
PROPERTIES
  ResultsStable
  WorkReturns
CHECK_DEADLOCK FALSE
