\* A first url without TLS.
CONSTANTS
  h1 = h1  h2 = h2
  Host = {h1, h2}
  NoHost = NoHost
  NoPort = NoPort
  NoLocation = NoLocation
  BadLocation = BadLocation
  Locations <- AllLocations
  Starts = {FALSE}
SPECIFICATION Spec
INVARIANTS
  FinalPageOnly
