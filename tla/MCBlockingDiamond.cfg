SPECIFICATION BlockingLiveSpec
CONSTANTS
    p1 = p1
    p2 = p2
    c1 = c1
    c2 = c2
    c3 = c3
    NoThread = NoThread
    SpuriousWakeUps = 1
    HalfModulus = 8
    Threads <- DiamondThreads
    Barriers <- ThreeConsumers
    Producers <- OneProducer
    Consumers <- ThreeConsumers
    BufferSize = 2
    ItemsPerProducer = 3
    Counts = {1, 2}
    LookAheads = {1}
    TimedWaits = {FALSE}
    ClaimBarriers <- DiamondGate
    Upstream <- DiamondUpstream
    Ancestors <- DiamondAncestors
INVARIANTS
    NoLostWakeUp
PROPERTIES
    AllConsumed
    ImplementsSpinning
