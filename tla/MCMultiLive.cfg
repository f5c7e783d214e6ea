SPECIFICATION LiveSpec
CONSTANTS
    p1 = p1
    p2 = p2
    c1 = c1
    c2 = c2
    c3 = c3
    HalfModulus = 16
    Threads <- SequencerThreads
    Barriers <- OneConsumer
    Producers <- TwoProducers
    Consumers <- OneConsumer
    BufferSize = 2
    ItemsPerProducer = 2
    Counts = {1, 2}
    LookAheads = {1}
    TimedWaits = {TRUE, FALSE}
    ClaimBarriers <- SequencerGate
    Upstream <- SequencerUpstream
    Ancestors <- SequencerAncestors
PROPERTIES
    AllConsumed
    ImplementsFairRing
