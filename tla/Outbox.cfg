SPECIFICATION Spec
CONSTANTS
    p1 = p1
    p2 = p2
    MaxEvents = 3
    Poison = {1}
    Publishers = {p1, p2}
    Batch = 2
    MaxFaults = 2
    MaxRetries = 1
INVARIANT DeliveredOncePerFault
PROPERTY GoodEventsArePublished
CHECK_DEADLOCK FALSE
