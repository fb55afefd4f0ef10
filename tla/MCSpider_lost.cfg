\* Two threads: a transaction of one is refused because of the other's.
CONSTANTS
  home = home  a = a  b = b  c = c  x = x  y = y
  Url = {home, a, b, c}
  Word = {x, y}
  NoTx = 0
  start_url = home
  Links <- WebLinks
  Words <- WebWords
  Connects = {TRUE}
  MaxFaults = 0
  search_depth = 2
  NumThreads = 2
  Replies <- AllAnswer
  BadWords = {}
  MaxRuns = 1
SPECIFICATION Spec
PROPERTIES
  WordsAreAdded
