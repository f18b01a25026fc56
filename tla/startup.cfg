SPECIFICATION FairSpec
CONSTANTS
  MaxRestarts = 1
  MaxSpawns = 3
  MaxResets = 1
  MaxOthers = 1
  MaxPages = 2
  MaxQueued = 2
CHECK_DEADLOCK FALSE
INVARIANTS
  EngineIsHeld
  PageKnows
PROPERTY
  StartsEnd
