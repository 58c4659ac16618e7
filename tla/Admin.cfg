SPECIFICATION AdminSpec
CONSTANTS
  Plain = {"r1", "r2"}
  System = {"s"}
  NewNames = {"n1", "n2"}
  Bodies <- MCBodies
  Defaults = {1, 3}
  Admins = {a1, a2}
  ListingTTL = 0
  MaxEdits = 3
  MaxFaults = 1
  MaxTicks = 1
  Ips = {"i1", "i2", "i3"}
  HostNames = {"h1", "h2", "h3"}
  RegionNames = {"A", "B"}
  RangesOf <- MCRanges
  HostRows <- MCHosts
  SourcesOf <- MCSources
  Spans <- MCSpans
  ProbedPorts = {2}
  UsedPorts = {3}
  PortMax = 5
  Suggestions = 1
  Results = {"open", "timeout", "refused"}
  FirstMaps <- MCMaps
  MaxProbes = 1
  MaxMapEdits = 3
  Deployments <- MCDeployments
  Files <- MCFiles
  Builtin = {"builtin", "admin"}
  OwnRole = "own"
  Keys = {"master", "key", "other"}
  Masters = {"master"}
  Granted <- MCGranted
  MaxImports = 2
  MaxUpsets = 1
  c1 = c1
  c2 = c2
  p1 = p1
  p2 = p2
  People = {p1, p2}
  Channels = {c1, c2}
  NoChannel = NoChannel
  Garbled = Garbled
  Writers = {a1, a2}
  FirstRouting <- MCRouting
  Batches <- MCBatches
  BatchCap = 3
  MaxSettings = 2
  MaxMutings = 3
  MaxBatches = 1
  MaxClock = 2
  LongestMute = 2
INVARIANTS   AlertsReachTheirPeople
PROPERTIES ImportsDoAsTheySay ImportsAreSafe
SYMMETRY AdminsAlike
CHECK_DEADLOCK FALSE
