CONSTANTS
    heartbeat_interval = 2
    reconnect_delay = 3
    max_misses = 3
    MaxAttempts = 1
    MaxEchoes = 2
    MaxDelay = 1
    MaxSteps = 0
    heartbeat_recv_timeout = 8
    MaxLag = 2
    MaxBeats = 2
SPECIFICATION LinkSpec
INVARIANTS IdleBounded OldSessionGone OneEndKnows
PROPERTIES ImplementsClientSession BothEndsClose ImplementsPeerTask
