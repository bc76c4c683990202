CONSTANTS
    p1 = p1  p2 = p2  c1 = c1  c2 = c2
    Producers <- MCProducers
    Consumers <- MCConsumers
    Capacity = 2
    MaxCalls = 3
SPECIFICATION Spec
INVARIANTS TypeOK NoLostWakeup Conservation 
PROPERTIES NobodyIsStranded
\* After close() every thread is done: the queue may stop.
CHECK_DEADLOCK FALSE
