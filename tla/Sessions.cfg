SPECIFICATION Spec
CONSTANTS
  User = {u1}
  Req = {r1, r2}
  Sid = {s1, s2, s3}
  NoSid = NoSid
  NoUser = NoUser
  MaxStale = 1
  MaxLogins = 1
SYMMETRY Symmetry
INVARIANTS
  TypeOK
  DeadStaysDead
  OneRefreshTokenWhenSerial
  SignedInUntilEnded
CHECK_DEADLOCK FALSE
