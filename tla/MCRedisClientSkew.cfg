CONSTANTS
  MaxCmds = 3
  MaxConns = 4
SPECIFICATION Spec
INVARIANT ReplyIsOwn
