SPECIFICATION Spec
CONSTANTS
  User = {u1}
  p1 = p1
  p2 = p2
  p3 = p3
  Path <- Paths
  Initial <- OneAvatar
  Caller = {c1, c2}
  None = None
  MaxRequests = 3
  MaxFaults = 1
CHECK_DEADLOCK FALSE
INVARIANTS
  TypeOK
  ReferencedObjectIsKept
  OrphansAreExplained
  MediaMirrorsBucket
  GoneUrlIsForgotten
  WaitersHaveALoader
SYMMETRY Symmetry
