SPECIFICATION Spec
CONSTANTS
    p1 = p1
    c1 = c1
    c2 = c2
    c3 = c3
    ReadBarrier = ReadBarrier
    HalfModulus = 8
    Threads <- ForkThreads
    Barriers <- ForkBarriers
    Producers <- OneProducer
    Consumers <- ThreeConsumers
    BufferSize = 2
    ItemsPerProducer = 17
    Counts = {0, 1, 3}
    LookAheads = {1}
    TimedWaits = {TRUE, FALSE}
    ClaimBarriers <- ForkGate
    Upstream <- ForkUpstream
    Ancestors <- ForkAncestors
INVARIANTS
    TypeOK
    SlotExclusion
    AvailableIsWritten
    ClaimsWithinBuffer
    CursorsInOrder
    SafetyInv
PROPERTIES
    ImplementsRing
