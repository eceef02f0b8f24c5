CONSTANTS
    Absent = Absent
    Mistyped = Mistyped
    Names = {"a", "b"}
    Ports <- MCPorts
    MaxPeers = 3
    MaxEdits = 3
SPECIFICATION Spec
INVARIANTS NeverRunsUnsound VerdictRight
