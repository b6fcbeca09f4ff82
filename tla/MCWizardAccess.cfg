CONSTANTS
  Requests = {r1, r2}
  MaxAttempts = 2
  Window = 0
  Lockout = 2
  MaxTime = 2
  MaxVersion = 2
  MaxEvents = 4
SPECIFICATION Spec
CHECK_DEADLOCK FALSE
SYMMETRY Symmetry
INVARIANTS TypeOK LockoutDeserved StaleSessionOverlapped AckedConfigStands CredentialsInForce
PROPERTY LockoutHolds
