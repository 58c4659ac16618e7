SPECIFICATION StacksSpec
CONSTANTS
  Blue = Blue
  Green = Green
  None = None
  MaxCommands = 3
  MaxFaults = 2
  MaxMishaps = 2
  Stacks = {"old", "new"}
  Releases <- MCReleases
  Seeds <- MCSeeds
  FirstSeeds = {1}
  Custom = {}
  Contents = {{"w"}}
  Deciders = {a1, a2}
  Needed = "w"
  MaxAsks = 2
  MaxStarts = 2
  Usernames = {"u1", "u2"}
  Managers = {a1, a2}
  MaxManaged = 4
  MaxRefusals = 2
  Sites = {"blue", "green"}
  FirstKey = "k1"
  LaterKeys = {"k2"}
  MaxSignIns = 2
  MaxPending = 1
  MaxRestarts = 1
  MaxBackups = 2
  MaxRestores = 2
  MaxMeddling = 2
  MaxBackupFaults = 1
  Reporters = {Blue, Green}
  GpuHosts = {"gpu"}
  DaySlots = 3
  KstOffset = 1
  ReportSlot = 0
  MaxSlot = 4
  MaxHandovers = 1
  MaxMisfortunes = 2
INVARIANTS  ServingColorIsLeftAlone DecisionsFollowEdits SeedsNeverGoBack UsersKeepARole
  HandedOutIsRecorded BackupsHold ReportedOnceADay
PROPERTY StateFileIsLast
SYMMETRY Alike
CHECK_DEADLOCK FALSE
