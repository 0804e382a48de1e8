CONSTANTS
  a = a
  b = b
  Job <- MCJob
  MaxEvents = 5
  MaxLen = 2

SPECIFICATION DiskFairSpec
INVARIANTS DiskTypeOK LogSound ReadsFaithful
PROPERTIES PlannedKept Drains ImplementsDurableLog
