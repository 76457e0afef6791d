SPECIFICATION Spec
CONSTANTS
  User = {u1, u2}
  Req = {r1, r2}
  Otp = {o1, o2}
  Token = {t1, t2, t3}
  None = None
SYMMETRY Symmetry
INVARIANTS
  TypeOK
  UsedOtpIsClosed
  SingleActiveWhenSerial
  OneResetPerOtpWhenSerial
PROPERTIES
  SingleUse
  ForgotCancelsWhenSerial
CHECK_DEADLOCK FALSE
