SPECIFICATION FairSpec
CONSTANTS
    p1 = p1
    p2 = p2
    c1 = c1
    c2 = c2
    c3 = c3
    HalfModulus = 16
    Threads <- UnicastThreads
    Barriers <- OneConsumer
    Producers <- OneProducer
    Consumers <- OneConsumer
    BufferSize = 2
    ItemsPerProducer = 1
    Counts = {1}
    LookAheads = {1}
    TimedWaits = {TRUE}
    ClaimBarriers <- SequencerGate
    Upstream <- SequencerUpstream
    Ancestors <- SequencerAncestors
PROPERTIES
    TimedWaitReturns
