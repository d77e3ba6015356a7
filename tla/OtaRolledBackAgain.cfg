INIT OtaInit
NEXT OtaNext
CONSTANTS
  Versions = {1, 2}
  Erased = 0
  MaxUpdates = 3
INVARIANT RolledBackNeverBoots
CHECK_DEADLOCK FALSE
