CONSTANTS
  Sessions = {s, t}
  Size = 2
  MaxChunks = 1
SPECIFICATION Spec
INVARIANTS TypeOK NoGap RecentAgreesWithQuery SessionBracketed
PROPERTIES ImplementsRecentLog TunnelTornDown
