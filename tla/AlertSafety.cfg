SPECIFICATION AlertsSpec
CONSTANTS
  disk = disk
  host = host
  slot = slot
  a = a
  b = b
  Targets = {disk}
  Graded = {disk}
  TriggerAfter = 2
  ResolveAfter = 2
  Repeat = 2
  MaxCrashes = 1
  Hosts = {host}
  Slots = {slot}
  ServiceNames = {a, b}
  HostBodies <- MCBodies
  Settings <- MCSettings
  FirstHosts <- MCFirstHosts
  FirstServices <- MCFirstServices
  Answers <- MCAnswers
  Near = {x1, x2}
  Far = {y1}
  Recovery = 2
  MaxRounds = 2
  MaxEvents = 2
INVARIANTS
  PendingExact PeakExact NoRecoveryOutOfTheBlue StatusIsTrue TargetsFollow
PROPERTIES RecoveryFollowsAnnouncement IncidentsAreKept
CHECK_DEADLOCK FALSE
SYMMETRY Symmetry
