CONSTANTS
    Conns = {c1, c2}
    Names = {n1}
    MAX_CONNECTIONS = 2
    MAX_UNIQUE_SERVER_PEERS = 1
    MaxHeartbeats = 1
SPECIFICATION Spec
INVARIANT GaugeShowsLiveSession
