SPECIFICATION Spec
CONSTANTS
    Workers = {w1, w2}
    Capacity = 1
    None = None
    MaxClients = 3
    ip1 = ip1
    ip2 = ip2
    IPs = {ip1, ip2}
    IpOf <- MCIpOf
    Stalling = {2}
    Tls = TRUE
    MaxSignals = 1
INVARIANTS TypeOK OneOwner CountsAdmitted NoUseAfterFree ReleasedOnce BuffersAccounted
PROPERTIES KeepAliveYields
\* The server ends, or its main thread is stuck.
CHECK_DEADLOCK FALSE
