CONSTANTS
  Subjects = {s}
  Checks = {g, h}
  MaxTTL = 9
  Second = 1
  ClockSkew = 0
  RedisMayFail = FALSE
  MaxRevokes = 2
  MaxTime = 3
SPECIFICATION Spec
INVARIANT RevokedTokenRejected
