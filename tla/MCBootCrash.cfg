CONSTANTS
  Job <- MCJob
  BootLen = 3
  Lif = 2
  ReadBatch = 2
  PlayBatch = 1
  WorkBatch = 2
  Exits <- MCExits
  Peps = {FALSE}
  Tills <- NoTills
  MaxOva = 1
  MaxPeek = 0
  MaxPack = 0
  MaxSave = 0
  MaxDie = 0
  MaxRun = 2

SPECIFICATION Spec
INVARIANT KernelBeforeWork
CHECK_DEADLOCK FALSE
