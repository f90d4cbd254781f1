SPECIFICATION Spec
CONSTANTS
    Workers = {w1}
    Capacity = 1
    None = None
    MaxClients = 1
    ip1 = ip1
    ip2 = ip2
    IPs = {ip1, ip2}
    IpOf <- MCIpOf
    Stalling = {}
    Tls = FALSE
    MaxSignals = 1
PROPERTIES AcceptLoopBreaks
CHECK_DEADLOCK FALSE
