\* Two threads and three levels: pages are reached twice, at depths 2 and 3; a
\* statement may fail, and the program be killed and started again.
CONSTANTS
  home = home  a = a  b = b  c = c  x = x  y = y
  Url = {home, a, b, c}
  Word = {x, y}
  NoTx = 0
  start_url = home
  Links <- DeepLinks
  Words <- DeepWords
  Connects = {TRUE}
  MaxFaults = 1
  search_depth = 3
  NumThreads = 2
  Replies <- DeepReplies
  BadWords = {}
  MaxRuns = 2
SPECIFICATION HSpec
INVARIANTS
  IndexedOnce
  FullyIndexed
  Coverage
PROPERTIES
  SkipMeansProcessed
