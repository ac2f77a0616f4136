\* One consumer, one fault, no eviction: does a crash before the
\* acknowledgement lead to redelivery?
CONSTANTS
    Consumers = {c1}
    BatchMax = 2
    MaxEntries = 2
    MaxFaults = 1
    MaxEvictions = 0
SPECIFICATION FairSpec
PROPERTY CrashLeadsToRedelivery
