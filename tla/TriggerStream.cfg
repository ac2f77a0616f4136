\* Two service instances share the group; batches of two, so that a batch is
\* interrupted half-way, and three entries, so that another batch follows.
CONSTANTS
    Consumers = {c1, c2}
    BatchMax = 2
    MaxEntries = 3
    MaxFaults = 2
    MaxEvictions = 1
SPECIFICATION FairSpec
INVARIANTS
    DispatchedAtMostOnce
    LeftPendingOnlySettled
    LossBoundedByFaults
PROPERTIES
    EveryWaitingEntryDelivered
    EveryDeliveredEntrySettledOrLost
    ImplementsTriggerDelivery
