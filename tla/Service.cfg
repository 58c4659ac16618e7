SPECIFICATION ServiceSpec
CONSTANTS
  Asks = {x1, x2}
  KeyUsers = {k}
  WebUsers = {w}
  Savers = {y1, y2}
  Bodies <- MCBodies
  FirstLimits <- MCLimits
  Window = 1
  MaxTime = 1
  MaxSaves = 2
  MaxRestarts = 1
  NoOne = NoOne
  Kinds = {"engine", "clickhouse"}
  AdminTasks = {x1, x2}
  Queries = {q1}
  MaxVersions = 3
  MaxClients = 2
  MaxThreads = 2
  MaxBoots = 1
  Urls = {y1, y2}
  Listings <- MCListings
  Editors = {x1, x2}
  Relays = {c1}
  MaxMishaps = 1
  MaxChanges = 4
INVARIANTS
   ClientsAreSound
  NothingUnseen
CHECK_DEADLOCK FALSE
SYMMETRY Symmetry
