SPECIFICATION Spec
CONSTANTS
    NONE = NONE v = v w = w
    Deliveries = {1}
    Workers = {v, w}
    Observable <- AlwaysDown
    MaxAttempts = 3
    BaseDelay = 1
    MaxBackoff = 1
    Grace = 1
    BatchSize = 1
    MaxJobs = 2
    MaxFaults = 0
PROPERTIES StaleOutcomeDiscarded
