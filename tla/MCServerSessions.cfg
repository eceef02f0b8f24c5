CONSTANTS
    Conns = {c1, c2, c3}
    Names = {n1, n2}
    MAX_CONNECTIONS = 2
    MAX_UNIQUE_SERVER_PEERS = 1
    MaxHeartbeats = 1
SPECIFICATION Spec
SYMMETRY ConnSymmetry
INVARIANTS SlotsConserved LabelsBounded SessionAccounting GaugeExactUnlessOverlap
PROPERTIES KnownPeerNeverRejected ImplementsBoundedPool
