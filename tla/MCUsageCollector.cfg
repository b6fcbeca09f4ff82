CONSTANTS
  FrameCap = 1
  WarnUSD = 1
  CritUSD = 2
  MaxBackoff = 2
  MaxConnections = 2
  MaxTicks = 1
  MaxDay = 2
  MaxSpent = 2
  MaxWire = 1
SPECIFICATION Spec
CHECK_DEADLOCK FALSE
INVARIANTS TypeOK AlertIsTrue
PROPERTIES FreshOnConnect ReaderGetsRoom StopEndsRun
