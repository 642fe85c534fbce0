SPECIFICATION Spec
CONSTANTS
    insufficient = insufficient
    declined = declined
    NULL = NULL
    FailureCodes = {insufficient, declined}
    DefaultFailureCode = declined
    PendingDelay = 1
    SettlementDelay = 1
    Payments = {1}
    Keyed = {}
    Readers = {}
    Listers = {}
    Sweepers = {}
    Requests <- OnlySuccess
    BatchSize = 1
    MaxTime = 3
    MaxFaults = 1
INVARIANTS CommittedPaymentHasEvent
