------------------------- MODULE MultiThreadedTypes -------------------------
(***************************************************************************)
(* Type correctness of MultiThreadedClaimStrategy, for all constants.      *)
(***************************************************************************)
EXTENDS MultiThreadedClaimStrategy, SequenceLemmas

\* Scans use words and places of the right type.
LEMMA TypesOfScans ==
    ASSUME TypeOK
    PROVE  ControlTypes /\ BarrierTypes
BY DEF TypeOK, ControlTypes, BarrierTypes

-----------------------------------------------------------------------------
\* Init establishes the types.
LEMMA TypeInit == Init => TypeOK
BY BufferSizeAssumption, WorkloadAssumption, ThreadsAssumption
   DEF Init, BarriersInit, ReadersInit, PublishedInit, TypeOK, PCs, Slots, NoItem,
       Scanning, ScanInBounds

\* Every step of a producer preserves the types.
LEMMA ProducerTypeStep ==
    ASSUME TypeOK, NEW p \in Producers,
           ClaimFetchAdd(p) \/ TryClaimBegin(p) \/ ProducerWorks(p)
    PROVE  TypeOK'
<1> USE DEF barrierVars, readerVars, claimVars
<1>p. p \in Threads
  BY ThreadsAssumption
<1>g. ClaimBarriers \in Seq(Barriers) /\ Len(ClaimBarriers) > 0
  BY GroupTypes
<1>n. BufferSize \in Nat \ {0}
  BY BufferSizeAssumption
<1>t. \A label : label # "upstream" => Len(ScannedGroup(p, label)) > 0
  BY <1>g DEF ScannedGroup
<1>1. CASE ClaimFetchAdd(p)
  <2>1. PICK n \in Counts :
          /\ sequence' = [sequence EXCEPT ![p] = m_nextClaimable]
          /\ size' = [size EXCEPT ![p] = Smaller(Smaller(n, remaining[p]), BufferSize)]
          /\ m_nextClaimable' =
                m_nextClaimable + Smaller(Smaller(n, remaining[p]), BufferSize)
    BY <1>1 DEF ClaimFetchAdd
  <2>2. Smaller(Smaller(n, remaining[p]), BufferSize) \in Nat
    BY <1>1, <1>n, WorkloadAssumption DEF ClaimFetchAdd, TypeOK, Smaller
  <2>3. ScanInBounds'
    BY <1>1, <1>p, <1>t, GotoTypes, TypesOfScans DEF ClaimFetchAdd, PCs, ControlTypes
  <2> QED
    BY <1>1, <2>1, <2>2, <2>3, <1>p DEF ClaimFetchAdd, TypeOK, PCs, Goto
<1>2. CASE TryClaimBegin(p)
  <2>1. PICK n \in Counts, withTimeout \in TimedWaits :
          /\ count' = [count EXCEPT ![p] = Smaller(n, remaining[p])]
          /\ timed' = [timed EXCEPT ![p] = withTimeout]
    BY <1>2 DEF TryClaimBegin
  <2>2. Smaller(n, remaining[p]) \in Nat /\ withTimeout \in BOOLEAN
    BY <1>2, WorkloadAssumption DEF TryClaimBegin, TypeOK, Smaller
  <2>3. ScanInBounds'
    BY <1>2, <1>p, <1>t, GotoTypes, TypesOfScans DEF TryClaimBegin, PCs, ControlTypes
  <2> QED
    BY <1>2, <2>1, <2>2, <2>3, <1>p DEF TryClaimBegin, TypeOK, PCs, Goto
<1>s. pc[p] \in Scanning /\ pc[p] # "upstream" =>
        \A floor \in Int :
           /\ MinimumNow(p, ClaimBarriers) \in Int
           /\ MinDeltaNow(p, ClaimBarriers, floor) \in Int
           /\ ScanResult(p, ClaimBarriers, floor) \in Int
           /\ Rescan(p, ClaimBarriers, floor) \/ ScanOn(p, ClaimBarriers, floor)
                => ControlTypes' /\ UNCHANGED <<m_lastPublished, timed>>
  <2> SUFFICES ASSUME pc[p] \in Scanning, pc[p] # "upstream", NEW floor \in Int
               PROVE  /\ MinimumNow(p, ClaimBarriers) \in Int
                      /\ MinDeltaNow(p, ClaimBarriers, floor) \in Int
                      /\ ScanResult(p, ClaimBarriers, floor) \in Int
                      /\ Rescan(p, ClaimBarriers, floor) \/ ScanOn(p, ClaimBarriers, floor)
                           => ControlTypes' /\ UNCHANGED <<m_lastPublished, timed>>
    OBVIOUS
  <2>1. ClaimBarriers = ScannedGroup(p, pc[p])
    BY DEF ScannedGroup
  <2> QED
    BY <2>1, <1>p, <1>g, ScanTypes, ScanTypeStep, TypesOfScans
<1>r. ASSUME NEW n \in Int, ClaimReturns(p, n)
      PROVE  /\ ControlTypes'
             /\ remaining' \in [Producers -> Int]
             /\ count' \in [Producers -> Nat]
             /\ published' \in [Producers -> Int]
             /\ timed' \in [Threads -> BOOLEAN]
  <2>1. ControlTypes'
    BY <1>r, <1>p, GotoTypes, TypesOfScans DEF ClaimReturns, PCs, Scanning
  <2>2. timed' \in [Threads -> BOOLEAN]
    BY <1>r DEF ClaimReturns, TypeOK
  <2> QED
    BY <1>r, <2>1, <2>2 DEF ClaimReturns, TypeOK
<1>f. ASSUME ClaimFails(p)
      PROVE  /\ ControlTypes'
             /\ sequence' \in [Producers -> Int]
             /\ size' \in [Producers -> Nat]
             /\ count' \in [Producers -> Nat]
             /\ published' \in [Producers -> Int]
             /\ timed' \in [Threads -> BOOLEAN]
  <2>1. ControlTypes'
    BY <1>f, <1>p, GotoTypes, TypesOfScans DEF ClaimFails, PCs, Scanning
  <2>2. timed' \in [Threads -> BOOLEAN]
    BY <1>f DEF ClaimFails, TypeOK
  <2> QED
    BY <1>f, <2>1, <2>2 DEF ClaimFails, TypeOK
<1>b. ASSUME NEW next \in Int, NEW limit \in Int, TryClaimBody(p, next, limit)
      PROVE  /\ ControlTypes'
             /\ sequence' \in [Producers -> Int]
             /\ size' \in [Producers -> Nat]
             /\ count' \in [Producers -> Nat]
             /\ published' \in [Producers -> Int]
             /\ timed' \in [Threads -> BOOLEAN]
  <2>1. ControlTypes'
    BY <1>b, <1>p, GotoTypes, TypesOfScans DEF TryClaimBody, PCs, Scanning
  <2>2. difference(limit, next) \in Nat
    BY <1>b, DifferenceType DEF TryClaimBody
  <2>3. Smaller(count[p], difference(limit, next) + 1) \in Nat
    BY <2>2 DEF TypeOK, Smaller
  <2> QED
    BY <1>b, <2>1, <2>3 DEF TryClaimBody, TypeOK
<1>w. ASSUME NEW next \in Int, TryClaimNoRoom(p, next)
      PROVE  /\ ControlTypes'
             /\ sequence' \in [Producers -> Int]
             /\ size' \in [Producers -> Nat]
             /\ count' \in [Producers -> Nat]
             /\ published' \in [Producers -> Int]
             /\ timed' \in [Threads -> BOOLEAN]
  <2>1. CASE ClaimFails(p)
    BY <2>1, <1>f
  <2>2. CASE ~ClaimFails(p)
    <3>1. ControlTypes'
      BY <1>w, <2>2, <1>p, <1>t, GotoTypes, TypesOfScans DEF TryClaimNoRoom, PCs
    <3> QED
      BY <1>w, <2>2, <3>1 DEF TryClaimNoRoom, TypeOK
  <2> QED
    BY <2>1, <2>2
<1>3. CASE ClaimWait(p)
  <2>1. ClaimFloor(sequence[p], size[p]) \in Int
    BY <1>n DEF ClaimFloor, RangeLast, RangeEnd, TypeOK
  <2>2. pc[p] \in Scanning /\ pc[p] # "upstream" /\ size[p] \in Int
    BY <1>3 DEF ClaimWait, Scanning, TypeOK
  <2> QED
    BY <1>3, <2>1, <2>2, <1>s, <1>r DEF ClaimWait, TypeOK, ControlTypes
<1>4. CASE TryClaimScan(p)
  <2>1. pc[p] \in Scanning /\ pc[p] # "upstream" /\ ScannedGroup(p, pc[p]) = ClaimBarriers
    BY <1>4 DEF TryClaimScan, Scanning, ScannedGroup
  <2>2. MinimumNow(p, ClaimBarriers) \in Int
    BY <2>1, <1>s
  <2>3. ControlTypes'
    <3>1. CASE IsLastLoad(p, ClaimBarriers)
      BY <1>4, <3>1, <1>p, GotoTypes, TypesOfScans DEF TryClaimScan, PCs, Scanning
    <3>2. CASE ~IsLastLoad(p, ClaimBarriers)
      BY <1>4, <3>2, <1>p, <1>g, <2>1, <2>2, AgainTypes, TypesOfScans DEF TryClaimScan, IsLastLoad
    <3> QED
      BY <3>1, <3>2
  <2> QED
    BY <1>4, <2>2, <2>3, <1>n DEF TryClaimScan, TypeOK, ControlTypes
<1>5. CASE TryClaimLoad(p)
  <2>1. m_nextClaimable \in Int /\ published[p] \in Int
    BY DEF TypeOK
  <2> QED
    BY <1>5, <2>1, <1>b, <1>w DEF TryClaimLoad, TypeOK, ControlTypes
<1>6. CASE TryClaimCas(p)
  <2>1. m_nextClaimable \in Int /\ published[p] \in Int /\ size[p] \in Int
    BY DEF TypeOK
  <2> QED
    BY <1>6, <2>1, <1>b, <1>r, <1>w DEF TryClaimCas, TypeOK, ControlTypes
<1>7. CASE TryClaimTimedWait(p)
  <2>1. sequence[p] \in Int /\ sequence[p] - BufferSize \in Int
    BY <1>n DEF TypeOK
  <2>2. pc[p] \in Scanning /\ pc[p] # "upstream"
    BY <1>7 DEF TryClaimTimedWait, Scanning
  <2>3. ScanResult(p, ClaimBarriers, sequence[p] - BufferSize) + BufferSize \in Int
    BY <2>1, <2>2, <1>s, <1>n
  <2> QED
    BY <1>7, <2>1, <2>2, <2>3, <1>s, <1>b, <1>f
       DEF TryClaimTimedWait, TypeOK, ControlTypes
<1>8. CASE WriteItem(p)
  <2>1. RangeAt(sequence[p], idx[p]) \in Int
    BY <1>p DEF TypeOK, RangeAt
  <2>2. ControlTypes'
    BY <1>8, <1>p, GotoTypes, AgainTypes, TypesOfScans DEF WriteItem, PCs, Scanning
  <2> QED
    BY <1>8, <2>1, <2>2, SlotType DEF WriteItem, TypeOK, ControlTypes
<1>9. CASE Publish(p)
  <2>1. RangeAt(sequence[p], idx[p]) \in Int
    BY <1>p DEF TypeOK, RangeAt
  <2>2. ControlTypes'
    BY <1>9, <1>p, GotoTypes, AgainTypes, TypesOfScans DEF Publish, set_published, PCs, Scanning
  <2> QED
    BY <1>9, <2>1, <2>2, SlotType DEF Publish, set_published, TypeOK, ControlTypes
<1> QED
  BY <1>1, <1>2, <1>3, <1>4, <1>5, <1>6, <1>7, <1>8, <1>9 DEF ProducerWorks

\* Every step of a reader preserves the types.
LEMMA ConsumerTypeStep ==
    ASSUME TypeOK, NEW c \in Consumers, ReaderBegins(c) \/ ConsumerWorks(c)
    PROVE  TypeOK'
<1> USE DEF barrierVars, readerVars, claimVars
<1>c. c \in Threads /\ c \in Barriers
  BY ThreadsAssumption, BarriersAssumption
<1>g. Upstream[c] \in Seq(Barriers) /\ (Upstream[c] # <<>> => Len(Upstream[c]) > 0)
  BY GroupTypes
<1>b. ASSUME NEW s \in Int, BatchAvailable(c, s)
      PROVE  /\ ControlTypes'
             /\ available' \in [Consumers -> Int]
             /\ target' \in [Consumers -> Int]
             /\ timed' \in [Threads -> BOOLEAN]
             /\ UNCHANGED <<m_lastPublished, buffer, nextToRead>>
  <2>1. ControlTypes'
    BY <1>b, <1>c, GotoTypes, TypesOfScans DEF BatchAvailable, PCs, Scanning
  <2>2. timed' \in [Threads -> BOOLEAN]
    BY <1>b DEF BatchAvailable, EndCall, TypeOK
  <2> QED
    BY <1>b, <2>1, <2>2 DEF BatchAvailable, EndCall, TypeOK
<1>n. ASSUME NextSeq(c)
      PROVE  TypeOK'
  <2>1. ControlTypes'
    BY <1>n, <1>c, GotoTypes, TypesOfScans DEF NextSeq, PCs, Scanning
  <2> QED
    BY <1>n, <2>1 DEF NextSeq, TypeOK, ControlTypes
<1>1. CASE ReaderBegins(c)
  <2>1. PICK k \in LookAheads, withTimeout \in TimedWaits :
          /\ target' = [target EXCEPT ![c] = nextToRead[c] + k - 1]
          /\ timed' = [timed EXCEPT ![c] = withTimeout]
    BY <1>1 DEF ReaderBegins, BeginWait
  <2>2. k \in Int /\ withTimeout \in BOOLEAN
    BY WorkloadAssumption, BufferSizeAssumption
  <2>3. timed' \in [Threads -> BOOLEAN]
    BY <2>1, <2>2 DEF TypeOK
  <2>4. ControlTypes'
    <3>1. CASE Upstream[c] = <<>>
      BY <1>1, <3>1, <1>c, GotoTypes, TypesOfScans DEF ReaderBegins, BeginWait, PCs, Scanning
    <3>2. CASE Upstream[c] # <<>>
      <4>1. Goto(c, "upstream") /\ "upstream" \in PCs
        BY <1>1, <3>2 DEF ReaderBegins, BeginWait, PCs
      <4>2. Len(ScannedGroup(c, "upstream")) > 0
        BY <3>2, <1>g DEF ScannedGroup
      <4> QED
        BY <4>1, <4>2, <1>c, GotoTypes, TypesOfScans
    <3> QED
      BY <3>1, <3>2
  <2> QED
    BY <1>1, <2>1, <2>2, <2>3, <2>4 DEF ReaderBegins, BeginWait, TypeOK, ControlTypes
<1>2. CASE CheckPublished(c)
  <2>1. CASE NextSeq(c)
    BY <2>1, <1>n
  <2>2. CASE ~NextSeq(c)
    <3>1. ControlTypes'
      BY <1>2, <2>2, <1>c, GotoTypes, TypesOfScans DEF CheckPublished, PCs, Scanning
    <3> QED
      BY <1>2, <2>2, <3>1 DEF CheckPublished, TypeOK, ControlTypes
  <2> QED
    BY <2>1, <2>2
<1>3. CASE AwaitPublished(c)
  BY <1>3, <1>n DEF AwaitPublished
<1>4. CASE LastPublishedAfter(c)
  <2>1. CASE is_published(seq[c])
    BY <1>4, <2>1 DEF LastPublishedAfter, TypeOK, ScanInBounds
  <2>2. CASE ~is_published(seq[c])
    <3>1. seq[c] - 1 \in Int
      BY DEF TypeOK
    <3> QED
      BY <1>4, <2>2, <3>1, <1>b DEF LastPublishedAfter, TypeOK, ControlTypes
  <2> QED
    BY <2>1, <2>2
<1>5. CASE WaitUpstream(c) /\ UNCHANGED <<claimVars, seq>>
  <2>1. pc[c] \in Scanning /\ Upstream[c] = ScannedGroup(c, pc[c]) /\ target[c] \in Int
    BY <1>5 DEF WaitUpstream, Scanning, ScannedGroup, TypeOK
  <2>2. ScanResult(c, Upstream[c], target[c]) \in Int
    BY <2>1, <1>c, <1>g, ScanTypes, TypesOfScans
  <2>3. CASE /\ Rescan(c, Upstream[c], target[c]) \/ ScanOn(c, Upstream[c], target[c])
             /\ UNCHANGED readerVars
    <3>1. ControlTypes' /\ UNCHANGED <<m_lastPublished, timed>>
      BY <2>1, <2>3, <1>c, <1>g, ScanTypeStep, TypesOfScans
    <3> QED
      BY <1>5, <2>3, <3>1 DEF TypeOK, ControlTypes
  <2>4. CASE BatchAvailable(c, ScanResult(c, Upstream[c], target[c]))
    BY <1>5, <2>4, <2>2, <1>b DEF TypeOK, ControlTypes
  <2>5. CASE WaitTimedOut(c)
    <3>1. ControlTypes'
      BY <2>5, <1>c, GotoTypes, TypesOfScans DEF WaitTimedOut, PCs, Scanning
    <3>2. timed' \in [Threads -> BOOLEAN]
      BY <2>5 DEF WaitTimedOut, EndCall, TypeOK
    <3> QED
      BY <1>5, <2>5, <3>1, <3>2 DEF WaitTimedOut, EndCall, TypeOK, ControlTypes
  <2> QED
    BY <1>5, <2>3, <2>4, <2>5 DEF WaitUpstream
<1>6. CASE ReadItem(c) /\ UNCHANGED <<claimVars, seq>>
  <2>1. ControlTypes'
    BY <1>6, <1>c, GotoTypes, TypesOfScans DEF ReadItem, PCs, Scanning
  <2> QED
    BY <1>6, <2>1 DEF ReadItem, TypeOK, ControlTypes
<1>7. CASE PublishConsumed(c) /\ UNCHANGED <<claimVars, seq>>
  <2>1. ControlTypes'
    BY <1>7, <1>c, GotoTypes, TypesOfScans DEF PublishConsumed, PCs, Scanning
  <2> QED
    BY <1>7, <2>1 DEF PublishConsumed, PublishBarrier, TypeOK, ControlTypes
<1> QED
  BY <1>1, <1>2, <1>3, <1>4, <1>5, <1>6, <1>7 DEF ConsumerWorks, ReaderAction

\* A step that changes nothing preserves the types.
LEMMA StutterTypeStep ==
    ASSUME TypeOK, UNCHANGED vars
    PROVE  TypeOK'
BY DEF TypeOK, ScanInBounds, vars, barrierVars, readerVars, claimVars

\* The program never leaves its types: whatever the interleaving of producers
\* and readers, no scan of minimum_sequence or minimum_sequence_after runs past
\* its array, no slot index leaves the ring, and no claim has a negative count.
THEOREM TypeCorrectness == Spec => []TypeOK
<1>1. TypeOK /\ [Next]_vars => TypeOK'
  <2> SUFFICES ASSUME TypeOK, [Next]_vars PROVE TypeOK'
    OBVIOUS
  <2>1. CASE \E p \in Producers :
               ClaimFetchAdd(p) \/ TryClaimBegin(p) \/ ProducerWorks(p)
    BY <2>1, ProducerTypeStep
  <2>2. CASE \E c \in Consumers : ReaderBegins(c) \/ ConsumerWorks(c)
    BY <2>2, ConsumerTypeStep
  <2>3. CASE UNCHANGED vars
    BY <2>3, StutterTypeStep
  <2> QED
    BY <2>1, <2>2, <2>3 DEF Next, Terminated
<1> QED
  BY <1>1, TypeInit, PTL DEF Spec

=============================================================================
