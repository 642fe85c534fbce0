SPECIFICATION FairSpec
CONSTANTS
    NONE = NONE v = v w = w
    Deliveries = {1, 2}
    Workers = {v}
    Observable <- DownAndReject
    MaxAttempts = 2
    BaseDelay = 1
    MaxBackoff = 1
    Grace = 1
    BatchSize = 1
    MaxJobs = 1
    MaxFaults = 1
PROPERTIES EveryDeliverySettles
