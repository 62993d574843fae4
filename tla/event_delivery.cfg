CONSTANTS
    e1 = e1
    in = in
    worker = worker
    backend = backend
    cat = cat
    s1 = s1
    star = star
    Conns = {worker, backend}
    Subs = {cat, s1}
    Home <- MCHome
    PatternsOf <- MCPatternsOf
    Wild = star
    Messages <- MCMessages
    TopicOf <- MCTopicOf
    None = none
    MaxWire = 2
    Critical = {e1}
    Entries = {in}
    Internal = {in}
    Worker = worker
    Backend = backend
    Suggester = cat
    Streams = {s1}
    QueueMax = 1
    MaxPending = 1
    MaxDropped = 1
    MaxFaults = 1
SPECIFICATION FairSpec
INVARIANTS DeliveryConsistent UnsubscribeStops
PROPERTIES CriticalIsRepeated AcknowledgedIsQuiet
CHECK_DEADLOCK FALSE
