SPECIFICATION Spec
CONSTANTS
    insufficient = insufficient
    declined = declined
    NULL = NULL
    FailureCodes = {insufficient, declined}
    DefaultFailureCode = declined
    PendingDelay = 1
    SettlementDelay = 1
    Payments = {1}
    Keyed = {1}
    Readers = {a}
    Listers = {b}
    Sweepers = {s}
    Requests <- AllOutcomes
    BatchSize = 1
    MaxTime = 2
    MaxFaults = 1
INVARIANTS
    OutcomeAsRequested
    UncontendedReadCaughtUp
    TerminalEventExactlyOnce
    KeyedTrailComplete
PROPERTIES
    ImplementsLifecycle
