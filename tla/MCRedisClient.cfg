CONSTANTS
  MaxCmds = 3
  MaxConns = 4
SPECIFICATION Spec
INVARIANTS TypeOK RepliesInStep LastWriteStands
PROPERTY EveryCallReturns
