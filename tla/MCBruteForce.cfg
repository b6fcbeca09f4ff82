CONSTANTS
  IPs = {a}
  Threshold = 3
  BaseBan = 2
  Second = 2
  RedisMayFail = TRUE
  MaxInFlight = 2
  MaxFails = 6
  MaxTime = 9
SPECIFICATION Spec
INVARIANTS TypeOK BansAutoExpire PersistentAbuserIsBanned BanAsDecided
PROPERTY FailureNeverShortensBan
