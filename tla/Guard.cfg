CONSTANTS
    c1 = c1  c2 = c2  a1 = a1
    h1 = h1  https = https  other = other  NoPort = NoPort
    Cpus = {c1, c2}
    Agents = {a1}
    Hosts = {h1}
    Private = {h1}
    Ports = {https, other}
    Policy <- MCPolicy
    Packets <- MCPackets
    SyscallKinds = {"bind", "ptrace"}
    Overrides = {"ALLOW"}
    Burst = 1
    Scale = 1
    NsPerSec = 2
    Word = 16
    RingSize = 1
    MaxWork = 3
    MaxChanges = 2
    MaxTime = 1
SPECIFICATION Spec
SYMMETRY Symmetry
INVARIANTS TypeOK StandingOrdersHold ThreatIsEarned SerialAgentKeepsBudget DropsAreCounted
PROPERTY ImplementsAdmission
CHECK_DEADLOCK FALSE
