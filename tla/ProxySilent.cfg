CONSTANTS
    Requests = {q1}
    Calls <- MCCalls
    Hosts = {"api"}
    Addrs = {"in", "out"}
    Private = {"in"}
    NoAddr = "nowhere"
    Ports = {80, 443}
    TlsPort = 443
    PolicyNames = {"restricted", "trusted"}
    Unnamed = "none given"
    Files <- MCFiles
    Findings <- MCFindings
    MaxLoads = 0
    MaxMoves = 0
SPECIFICATION Spec
INVARIANT TunnelsAreLogged
CHECK_DEADLOCK FALSE
