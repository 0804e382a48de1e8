SPECIFICATION MCSpec
CONSTANTS
  Recs = {r1, r2}
  MaxChunk = 3
  MaxLine = 1
  MaxServ = 6
  MaxHon = 2
  MaxForm = 3
  Nums = {n1, n2}
  MaxBody = 2
  Packets = {p1, p2, p3}
  Peers = {peer}
  Czar = czar
  QueueCap = 2
  ForwardCap = 0
  ScryCap = 1
  LaneTtl = 1
  CzarTtl = 1
  MaxTime = 1
INVARIANTS ResponseWhole WebSafe
PROPERTIES WebEnds AddressKept
CHECK_DEADLOCK FALSE
