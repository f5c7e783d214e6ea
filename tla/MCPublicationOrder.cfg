SPECIFICATION OrderedSpec
CONSTANTS
    p1 = p1
    p2 = p2
    c1 = c1
    c2 = c2
    c3 = c3
    HalfModulus = 16
    Threads <- PipelineThreads
    Barriers <- TwoConsumers
    Producers <- TwoProducers
    Consumers <- TwoConsumers
    BufferSize = 2
    ItemsPerProducer = 2
    Counts = {1, 2}
    LookAheads = {1}
    TimedWaits = {TRUE, FALSE}
    ClaimBarriers <- PipelineGate
    Upstream <- PipelineUpstream
    Ancestors <- PipelineAncestors
INVARIANTS
    NoDataRace
    OrderInv
PROPERTIES
    ImplementsRing
