CONSTANTS
  Subjects = {s}
  Checks = {g, h}
  MaxTTL = 2
  Second = 2
  ClockSkew = 2
  RedisMayFail = TRUE
  MaxRevokes = 2
  MaxTime = 5
SPECIFICATION Spec
SYMMETRY Symmetry
INVARIANT TypeOK
PROPERTIES RevokedNotAdmitted NoFalseRevocation
