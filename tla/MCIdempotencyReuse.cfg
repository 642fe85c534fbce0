SPECIFICATION ReuseSpec
CONSTANTS
    r1 = r1  r2 = r2  r3 = r3  r4 = r4  r5 = r5  r6 = r6  k1 = k1  k2 = k2  k3 = k3
    NONE = NONE
    Requests = {r1, r2, r3, r4, r5, r6}
    Slots = {k1, k2, k3}
    SlotOf <- Reuse
    PartitionOf <- Partitions
    Retention = 2
    TxTimeout = 1
    MaxTime = 3
PROPERTIES OnlyExpiredRowsRemoved EveryRequestAnswered
