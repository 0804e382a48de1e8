CONSTANTS
  Job <- MCJob
  BootLen = 3
  Lif = 2
  ReadBatch = 2
  PlayBatch = 1
  WorkBatch = 2
  Exits <- MCExits
  Peps = {FALSE, TRUE}
  Tills <- MCTills
  MaxOva = 2
  MaxPeek = 0
  MaxPack = 0
  MaxSave = 1
  MaxDie = 1
  MaxRun = 2

SPECIFICATION FairSpec
PROPERTIES ReplayEnds ExitEnds WorkSettled
CHECK_DEADLOCK FALSE
