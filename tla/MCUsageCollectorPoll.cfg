CONSTANTS
  FrameCap = 1
  WarnUSD = 1
  CritUSD = 2
  MaxBackoff = 2
  MaxConnections = 2
  MaxTicks = 1
  MaxDay = 2
  MaxSpent = 2
  MaxWire = 1
SPECIFICATION PatientSpec
CHECK_DEADLOCK FALSE
PROPERTY PollStoresLatest
