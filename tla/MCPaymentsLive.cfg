SPECIFICATION FairSpec
CONSTANTS
    insufficient = insufficient
    declined = declined
    NULL = NULL
    FailureCodes = {insufficient, declined}
    DefaultFailureCode = declined
    PendingDelay = 1
    SettlementDelay = 1
    Payments = {1, 2}
    Keyed = {1}
    Readers = {}
    Listers = {}
    Sweepers = {s}
    Requests <- SuccessOrTimeout
    BatchSize = 1
    MaxTime = 3
    MaxFaults = 1
PROPERTIES SweepSettlesEverything
