CONSTANTS
    Conns = {c1, c2, c3}
    Timeouts = {0, 2}
    MAX_PROBE_CONNECTIONS = 2
SPECIFICATION Spec
INVARIANTS SlotsConserved DeadlineFixed
PROPERTY ImplementsSlotPool
