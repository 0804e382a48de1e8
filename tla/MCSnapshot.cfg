SPECIFICATION FairSpec
CONSTANTS
  Pages = 4
  None = None
  Partial = Partial
  Zero = Zero
  Torn = Torn
  Short = Short
  Crashes <- MCPower
  Shorts = TRUE
  MaxRun = 2
  MaxCrash = 2
INVARIANTS SnapTypeOK SnapshotWhole DirtyTracked
PROPERTIES WriteAhead Restarts
CHECK_DEADLOCK FALSE
