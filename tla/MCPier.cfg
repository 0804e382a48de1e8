CONSTANTS
  Job <- MCJob
  BootLen = 3
  Lif = 2
  ReadBatch = 2
  PlayBatch = 1
  WorkBatch = 2
  Exits <- AllExits
  Peps = {FALSE, TRUE}
  Tills <- MCTills
  MaxOva = 2
  MaxPeek = 0
  MaxPack = 0
  MaxSave = 1
  MaxDie = 2
  MaxRun = 3

SPECIFICATION Spec
CHECK_DEADLOCK FALSE

INVARIANTS
  TypeOK
  EffectsDurable
  EffectsOnce
  SnapshotInLog
  LogIsHistory
