\* Any first url and any location.
CONSTANTS
  h1 = h1  h2 = h2
  Host = {h1, h2}
  NoHost = NoHost
  NoPort = NoPort
  NoLocation = NoLocation
  BadLocation = BadLocation
  Locations <- AllLocations
  Starts = {TRUE, FALSE}
SPECIFICATION Spec
INVARIANTS
  CalledOnce
  RequestsBounded
  SslFinalPageOnly
PROPERTIES
  FetchContract
  FollowsLocation
