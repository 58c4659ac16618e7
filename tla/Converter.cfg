SPECIFICATION ConverterSpec
CONSTANTS
  Turns = {t1, t2}
  MaxIds = 3
  MaxEntries = 2
  MaxBytes = 2
  MaxEntryBytes = 2
  SizeChoices <- MCSizes
  MaxTurnFaults = 1
  MaxCall = 1
  Dialects = {"indexed", "reusing", "unindexed", "restating"}
  MaxChunks = 5
  MaxPieces = 3
  MaxBeats = 2
  Callers = {c1, c2}
  CacheTTL = 1
  StaleMax = 2
  MaxClock = 4
  MaxEvents = 6
INVARIANTS
  ConversationsAreKept RelayIsFaithful ListingIsShared
PROPERTIES   ClientReadsAStream RunsStayInOneBlock
CHECK_DEADLOCK FALSE
