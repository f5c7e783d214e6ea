SPECIFICATION SpinningSpec
CONSTANTS
    p1 = p1
    c1 = c1
    c2 = c2
    c3 = c3
    YieldAt = 1
    SleepEvery = 2
    MaxValue = 3
    InitialValue = 0
    ReadBarrier = ReadBarrier
    HalfModulus = 8
    Threads <- PipelineThreads
    Barriers <- PipelineBarriers
    Producers <- OneProducer
    Consumers <- TwoConsumers
    BufferSize = 1
    ItemsPerProducer = 2
    Counts = {1}
    LookAheads = {1}
    TimedWaits = {TRUE, FALSE}
    ClaimBarriers <- PipelineGate
    Upstream <- PipelineUpstream
    Ancestors <- PipelineAncestors
PROPERTIES
    TimedWaitReturns
    WaitersSleepAgain
    ImplementsTimedWaits
