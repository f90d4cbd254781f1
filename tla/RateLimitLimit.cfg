\* Two addresses that collide, one connection each, and the time it takes the
\* entry of the first to go stale: the smallest table in which a sweep cuts the
\* second address off from its entry.
CONSTANTS
    IPs = {a, b}
    NoIP = NoIP
    HashValues = {0}
    MaxPerIp = 1
    InitialSize = 2
    StaleTimeout = 1
    MaxSize = 2
    MaxTime = 2

SPECIFICATION Spec

INVARIANT PerIpLimit

CHECK_DEADLOCK FALSE
