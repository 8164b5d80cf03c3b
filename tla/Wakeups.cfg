SPECIFICATION IngressesOnly
CONSTANTS
  Services = {s1, s2}
  Capacity = 2
  Resync = TRUE
  MaxEvents = 2
  MaxFaults = 1
INVARIANTS
  RoutesFollowed
  EndpointsFollowed
PROPERTY ResyncHeals
