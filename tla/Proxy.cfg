CONSTANTS
    Requests = {q1}
    Calls <- MCCalls
    Hosts = {"api"}
    Addrs = {"in", "out"}
    Private = {"in"}
    NoAddr = "nowhere"
    Ports = {80, 443}
    TlsPort = 443
    PolicyNames = {"restricted", "trusted"}
    Unnamed = "none given"
    Files <- MCFiles
    Findings <- MCFindings
    MaxLoads = 3
    MaxMoves = 2
SPECIFICATION Spec
INVARIANTS TypeOK RulesHold LogIsTrue SessionsHaveCause
PROPERTY ImplementsTraffic
CHECK_DEADLOCK FALSE
