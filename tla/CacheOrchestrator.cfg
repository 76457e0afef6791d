SPECIFICATION Spec
CONSTANTS
  Node = {n1, n2}
  Key = {k1}
  Req = {r1, r2}
  None = None
  MaxVersion = 2
INVARIANTS
  TypeOK
  ReadYourWritesWhenSerial
PROPERTIES
  Coalesces
  EventuallyFresh
  WaitersReturn
