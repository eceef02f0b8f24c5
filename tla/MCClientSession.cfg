CONSTANTS
    heartbeat_interval = 2
    reconnect_delay = 2
    max_misses = 2
    MaxAttempts = 2
    MaxEchoes = 2
    MaxDelay = 1
    MaxSteps = 1
SPECIFICATION Spec
INVARIANTS SessionAccounting HeartbeatAccounting SilenceBounded ScheduleKept
PROPERTIES TimeoutMeansSilence RttIsOfLastHeartbeat RoundDrainsEchoes
