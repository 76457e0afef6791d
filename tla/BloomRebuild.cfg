SPECIFICATION Spec
CONSTANTS
  Id = {1, 2}
  Run = {r1, r2}
  ChunkSize = 1
  None = None
  MaxFaults = 1
INVARIANTS
  TypeOK
  OneRebuildUnlessOverrun
  FilterComplete
PROPERTIES
  FilterRepaired
  LockIsReturned
