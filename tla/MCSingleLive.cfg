SPECIFICATION LiveSpec
CONSTANTS
    p1 = p1
    c1 = c1
    c2 = c2
    c3 = c3
    ReadBarrier = ReadBarrier
    HalfModulus = 8
    Threads <- PipelineThreads
    Barriers <- PipelineBarriers
    Producers <- OneProducer
    Consumers <- TwoConsumers
    BufferSize = 2
    ItemsPerProducer = 4
    Counts = {1, 2}
    LookAheads = {1}
    TimedWaits = {TRUE, FALSE}
    ClaimBarriers <- PipelineGate
    Upstream <- PipelineUpstream
    Ancestors <- PipelineAncestors
PROPERTIES
    AllConsumed
    ImplementsFairRing
