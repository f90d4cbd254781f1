CONSTANTS
    IPs = {a, b, c}
    NoIP = NoIP
    HashValues = {0, 1, 2}
    MaxPerIp = 2
    InitialSize = 2
    StaleTimeout = 1
    MaxSize = 4
    MaxTime = 2

SYMMETRY Addresses

SPECIFICATION Spec

INVARIANTS
    TypeOK
    CountsAreConnections
    UsedCoversTable
    LimitUnlessBypassed

PROPERTY RejectionsJustified

CHECK_DEADLOCK FALSE
