CONSTANTS
  Job <- MCJob
  BootLen = 3
  Lif = 2
  ReadBatch = 2
  PlayBatch = 1
  WorkBatch = 2
  Exits <- MCExits
  Peps = {FALSE, TRUE}
  Tills <- MCTills
  MaxOva = 2
  MaxPeek = 1
  MaxPack = 1
  MaxSave = 1
  MaxDie = 0
  MaxRun = 2

SPECIFICATION Spec
INVARIANTS AssertsHold GiftsInOrder ExitSaved
PROPERTY ExitIsOk
CHECK_DEADLOCK FALSE
