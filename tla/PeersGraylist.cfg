CONSTANTS
    i1 = i1
    i2 = i2
    IPs <- MCIPs
    Ports <- MCPorts
    Window = 3
    CheckPeriod = 2
SPECIFICATION Spec
INVARIANTS
    NoOverstay
