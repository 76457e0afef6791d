SPECIFICATION Spec
CONSTANTS
  User = {u1, u2}
  Email = {e1, e2, e3}
  Node = {n1, n2}
  Req = {r1, r2}
  None = None
  MaxOtps = 3
  MaxRows = 1
SYMMETRY Symmetry
INVARIANTS
  TypeOK
  AddressIsProven
  AddressIsCurrentWhenSerial
CHECK_DEADLOCK FALSE
