SPECIFICATION FairSpec
CONSTANTS
  disk = disk
  Targets = {disk}
  Graded = {disk}
  TriggerAfter = 2
  ResolveAfter = 2
  Repeat = 0
  MaxCrashes = 1
INVARIANT NoRepeatedPage

  
  
