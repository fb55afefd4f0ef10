\* Each sequential part with inputs of every kind its code tells apart.
CONSTANTS
  Segment <- Words
  Empty = ""
  Http = "http:"
  Https = "https:"
  Colon = {"http:", "https:", "ftp:", "q?u=http:"}
  Dotted = {"h.ru", "g.ru", "g.ru:81", "v1.2", "..", "p.html"}
  Dots = {".."}
  Hash = {"#top"}
  HostOf <- BeforeColon
  Hrefs <- References
  Starts <- Pages
  search_depth = 5

  Lines <- SomeLines
  MaxLines = 4
  Settings <- Wanted
  Threads = 2
  Hardware = {1, 4}
  npos = 100
  MaxInt = 63
  Wrap = 128

  Columns = {"name", "phone"}
  ColumnLists <- SomeLists
  Tables <- SomeTables
  Pairs <- SomePairs
  Before <- IdFirst
  MaxCalls = 4

  Strings = {"netology.ru", "Hello world"}
  MaxDepth = 4

  Key = {"key1", "key2"}
  NumLayers = 4
  Stacks <- AllStacks
  limit_shots = 1
  CountWrap = 4
  MaxAsked = 7

  Handler = {"warning_handler", "error_handler", "fatal_handler", "uknown_handler"}
  TypeOf <- MainsHandlers
  Opens = {TRUE, FALSE}

  Observer = {"warningObs", "errorObs", "fatalErrorObs", "lockedObs"}
  ClassOf <- Classes
  PathOf <- Files
  Path = {"log", "locked"}
  Locked = {"locked"}
  Message = {"m1", "m2"}
  MaxAdded = 3
SPECIFICATION AllSpec
INVARIANTS
  LinksResolve
  SettingsAreRead
  ThreadsInRange
  QueryIsOfAllCalls
  CacheAsksOnce
  LimitKept
  HandledByItsType
PROPERTIES
  StaysOnHost
  NoSelfLink
  TextIsDecorated
  MessageEnds
  CallsReachObservers
CHECK_DEADLOCK FALSE
