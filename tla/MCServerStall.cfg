CONSTANTS
    Conns = {c1}
    Names = {n1}
    MAX_CONNECTIONS = 1
    MAX_UNIQUE_SERVER_PEERS = 1
    MaxHeartbeats = 1
SPECIFICATION Spec
PROPERTY NoHeartbeatTimesOut
