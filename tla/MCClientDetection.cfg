CONSTANTS
    heartbeat_interval = 2
    reconnect_delay = 2
    max_misses = 2
    MaxAttempts = 1
    MaxEchoes = 1
    MaxDelay = 0
    MaxSteps = 0
SPECIFICATION Spec
INVARIANT DetectedWithinMisses
