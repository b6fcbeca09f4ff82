CONSTANTS
    Requests = {r1, r2}
    Origins = {"local", "foreign"}
    Local = {"local"}
    AllowLists <- Lists
    MaxPieces = 2
    MaxScan = 1
    IPs = {a, b}
    Limit = 2
    Window = 2
    MaxTime = 6
SYMMETRY Symmetry
SPECIFICATION GatewaySpec
CHECK_DEADLOCK FALSE
INVARIANTS TypeOK RequestAccounted DeliveredWhole LimiterTypeOK WindowBound
PROPERTY ImplementsThrottle
