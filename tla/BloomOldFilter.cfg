SPECIFICATION Spec
CONSTANTS
  Id = {1}
  Run = {r1}
  ChunkSize = 1
  None = None
  MaxFaults = 1
PROPERTIES
  OldFilterPreserved
