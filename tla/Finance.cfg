SPECIFICATION Spec
CONSTANTS
  Name = {"August"}
  Form = {"Title", "lower"}
  Title = "Title"
  Year <- Years
  SeedKey <- August2026
  i1 = i1
  i2 = i2
  i3 = i3
  l1 = l1
  l2 = l2
  u1 = u1
  u2 = u2
  Id <- Ids
  Line <- Lines
  SeedLines <- Lines
  DevUser <- Users
  Field = {"status", "notes"}
  Value = {"new", "set"}
  New = "new"
  Caller = {c1, c2, c3}
  MaxCalls = 4
  None = None
CHECK_DEADLOCK FALSE
INVARIANTS
  TypeOK
  OneReportPerMonth
  ReportsAreIntact
PROPERTY
  SeedIsComplete
SYMMETRY Symmetry
