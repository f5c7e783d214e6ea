------------------------ MODULE SingleThreadedSafety ------------------------
(***************************************************************************)
(* Type correctness and safety of SingleThreadedClaimStrategy, for all     *)
(* constants.  SafetyInv is inductive as it stands: unlike with several    *)
(* producers nothing has to be assumed about how long a thread may sleep.  *)
(***************************************************************************)
EXTENDS SingleThreadedInvariant, SequenceLemmas

LEMMA Constants ==
    /\ BufferSize \in Nat \ {0}
    /\ HalfModulus \in Nat \ {0}
    /\ SeqModulus = 2 * HalfModulus
    /\ BufferSize < HalfModulus
    /\ ReadBarrier \in Barriers /\ ReadBarrier \notin Consumers
    /\ \A p \in Producers : p \in Threads /\ p \notin Consumers
    /\ \A p, q \in Producers : p = q
    /\ \A c \in Consumers : c \in Threads /\ c \in Barriers /\ c \notin Producers
BY BufferSizeAssumption, HalfModulusAssumption, ThreadsAssumption,
   SingleProducerAssumption, BufferFitsAssumption
   DEF SeqModulus

\* A reader has a group to wait on: the read barrier or other readers'.
LEMMA UpstreamTypes ==
    ASSUME NEW c \in Consumers
    PROVE  Upstream[c] \in Seq(Barriers) /\ Len(Upstream[c]) > 0
BY GroupTypes, SingleProducerAssumption

LEMMA UpstreamMembers ==
    ASSUME NEW c \in Consumers
    PROVE  /\ \A b \in Elems(Upstream[c]) : b \in Barriers
           /\ \A d \in Ancestors[c] : d \in Consumers /\ d \in Barriers
<1>1. Upstream[c] \in Seq(Barriers)
  BY UpstreamTypes
<1>2. \A b \in Elems(Upstream[c]) : b \in Barriers
  BY <1>1 DEF Elems
<1>3. \A d \in Ancestors[c] : d \in Consumers /\ d \in Barriers
  BY TopologyAssumption
<1> QED
  BY <1>2, <1>3

\* Scans use words and places of the right type.
LEMMA TypesOfScans ==
    ASSUME TypeOK
    PROVE  ControlTypes /\ BarrierTypes
BY DEF TypeOK, ControlTypes, BarrierTypes

-----------------------------------------------------------------------------
(***************************************************************************)
(* Types.                                                                  *)
(***************************************************************************)

LEMMA TypeInit == Init => TypeOK
BY BufferSizeAssumption, WorkloadAssumption, ThreadsAssumption
   DEF Init, BarriersInit, ReadersInit, TypeOK, PCs, Slots, NoItem,
       Scanning, ScanInBounds

\* The minDelta of a word and a floor, and so of a scan that did not fail, is
\* less than half the modulus.
LEMMA DifferenceRange ==
    ASSUME NEW a \in Int, NEW b \in Int
    PROVE  -HalfModulus <= difference(a, b) /\ difference(a, b) < HalfModulus
<1>1. SeqModulus \in Nat \ {0} /\ SeqModulus = 2 * HalfModulus /\ HalfModulus \in Nat
  BY Constants
<1>2. (a - b) % SeqModulus \in 0 .. SeqModulus - 1
  BY <1>1, DivMod
<1> QED
  BY <1>1, <1>2 DEF difference

\* What a claim takes is not negative: the words it subtracts are the counter
\* and one that was found not to precede it, or that is at most one before it.
LEMMA TakeRangeTypes ==
    ASSUME TypeOK, NEW p \in Producers, NEW claimable \in Int,
           difference(claimable, m_nextSequenceToClaim) >= -1,
           TakeRange(p, claimable)
    PROVE  /\ ControlTypes'
           /\ m_nextSequenceToClaim' \in Int /\ sequence' \in Int /\ size' \in Nat
           /\ count' \in Nat /\ remaining' \in Nat /\ count' <= remaining'
           /\ timed' \in [Threads -> BOOLEAN]
<1> DEFINE taken == Smaller(count, difference(claimable, m_nextSequenceToClaim) + 1)
<1>1. m_nextSequenceToClaim \in Int /\ count \in Nat /\ remaining \in Nat
      /\ count <= remaining
  BY DEF TypeOK
<1>2. difference(claimable, m_nextSequenceToClaim) \in Int
  BY <1>1, DifferenceType
<1>3. taken \in Nat /\ taken <= count
  BY <1>1, <1>2 DEF Smaller
<1>4. /\ sequence' = m_nextSequenceToClaim /\ size' = taken
      /\ m_nextSequenceToClaim' = m_nextSequenceToClaim + taken
      /\ remaining' = remaining - taken /\ count' = 0
      /\ timed' = [timed EXCEPT ![p] = FALSE]
      /\ Goto(p, IF taken = 0 THEN "idle" ELSE "write")
  BY DEF TakeRange
<1> HIDE DEF taken
<1>5. ControlTypes'
  BY <1>4, Constants, GotoTypes, TypesOfScans DEF PCs, Scanning
<1>6. timed' \in [Threads -> BOOLEAN]
  BY <1>4 DEF TypeOK
<1> QED
  BY <1>1, <1>3, <1>4, <1>5, <1>6

LEMMA ClaimFailsTypes ==
    ASSUME TypeOK, NEW p \in Producers, ClaimFails(p)
    PROVE  /\ ControlTypes'
           /\ count' \in Nat /\ count' <= remaining'
           /\ timed' \in [Threads -> BOOLEAN]
           /\ UNCHANGED <<m_nextSequenceToClaim, sequence, size, remaining>>
<1>1. ControlTypes'
  BY Constants, GotoTypes, TypesOfScans DEF ClaimFails, PCs, Scanning
<1>2. timed' \in [Threads -> BOOLEAN]
  BY DEF ClaimFails, TypeOK
<1> QED
  BY <1>1, <1>2 DEF ClaimFails, TypeOK

\* Every step of the producer preserves the types.
LEMMA ProducerTypeStep ==
    ASSUME TypeOK, NEW p \in Producers, ClaimBegin(p) \/ ProducerWorks(p)
    PROVE  TypeOK'
<1> USE DEF barrierVars, readerVars, claimVars
<1>p. p \in Threads
  BY ThreadsAssumption
<1>g. ClaimBarriers \in Seq(Barriers) /\ Len(ClaimBarriers) > 0
  BY GroupTypes
<1>n. BufferSize \in Nat \ {0} /\ m_nextSequenceToClaim \in Int /\ ClaimFloor \in Int
  BY BufferSizeAssumption DEF ClaimFloor, TypeOK
<1>t. \A label : label # "upstream" => Len(ScannedGroup(p, label)) > 0
  BY <1>g DEF ScannedGroup
<1>1. CASE ClaimBegin(p)
  <2>1. PICK n \in Counts : count' = Smaller(n, remaining)
    BY <1>1 DEF ClaimBegin
  <2>2. count' \in Nat /\ count' <= remaining
    BY <2>1, WorkloadAssumption DEF Smaller, TypeOK
  <2>3. timed' \in [Threads -> BOOLEAN]
    BY <1>1, WorkloadAssumption DEF ClaimBegin, TypeOK
  <2>4. ControlTypes'
    BY <1>1, <1>p, <1>t, GotoTypes, TypesOfScans DEF ClaimBegin, PCs
  <2> QED
    BY <1>1, <2>2, <2>3, <2>4 DEF ClaimBegin, TypeOK, ControlTypes
<1>2. CASE ClaimWait(p)
  <2>1. /\ pc[p] \in Scanning /\ pc[p] # "upstream"
        /\ ClaimBarriers = ScannedGroup(p, pc[p])
    BY <1>2 DEF ClaimWait, Scanning, ScannedGroup
  <2>2. /\ MinDeltaNow(p, ClaimBarriers, ClaimFloor) \in Int
        /\ ScanResult(p, ClaimBarriers, ClaimFloor) + BufferSize \in Int
    <3>1. /\ MinDeltaNow(p, ClaimBarriers, ClaimFloor) \in Int
          /\ ScanResult(p, ClaimBarriers, ClaimFloor) \in Int
      BY <2>1, <1>p, <1>g, <1>n, ScanTypes, TypesOfScans
    <3> QED
      BY <3>1, <1>n
  <2>3. CASE /\ \/ Rescan(p, ClaimBarriers, ClaimFloor)
                \/ ScanOn(p, ClaimBarriers, ClaimFloor)
             /\ UNCHANGED claimVars
    <3>1. ControlTypes' /\ UNCHANGED <<m_lastPublished, timed>>
      BY <2>1, <2>3, <1>p, <1>g, <1>n, ScanTypeStep, TypesOfScans
    <3> QED
      BY <1>2, <2>3, <3>1 DEF ClaimWait, TypeOK, ControlTypes
  <2>4. CASE /\ ScanDone(p, ClaimBarriers, ClaimFloor)
             /\ TakeRange(p, ScanResult(p, ClaimBarriers, ClaimFloor) + BufferSize)
             /\ UNCHANGED m_lastPublished
    <3> DEFINE d == MinDeltaNow(p, ClaimBarriers, ClaimFloor)
    <3>1. d \in Int /\ d >= 0 /\ d < HalfModulus
      <4>1. /\ idx[p] \in Nat /\ acc[p] \in Int
            /\ Loaded(p, ClaimBarriers) \in Int
        BY <2>1, <1>p, <1>g, <1>n, ScanTypes, TypesOfScans DEF TypeOK
      <4>2. /\ difference(Loaded(p, ClaimBarriers), ClaimFloor) \in Int
            /\ difference(Loaded(p, ClaimBarriers), ClaimFloor) < HalfModulus
        BY <4>1, <1>n, DifferenceType, DifferenceRange
      <4> QED
        BY <2>2, <2>4, <4>1, <4>2, Constants
           DEF ScanDone, MinDeltaNow, MinDeltaStep, Smaller
    <3>2. (ScanResult(p, ClaimBarriers, ClaimFloor) + BufferSize)
             - m_nextSequenceToClaim = d
      BY <2>2, <1>n DEF ScanResult, ClaimFloor
    <3>3. difference(ScanResult(p, ClaimBarriers, ClaimFloor) + BufferSize,
                     m_nextSequenceToClaim) >= -1
      BY <2>2, <3>1, <3>2, <1>n, Constants, DifferenceExact
    <3> QED
      BY <1>2, <2>2, <2>4, <3>3, TakeRangeTypes DEF ClaimWait, TypeOK, ControlTypes
  <2>5. CASE ClaimFails(p) /\ UNCHANGED m_lastPublished
    BY <1>2, <2>5, ClaimFailsTypes DEF ClaimWait, TypeOK, ControlTypes
  <2> QED
    BY <1>2, <2>3, <2>4, <2>5 DEF ClaimWait
<1>3. CASE TryClaimScan(p)
  <2>1. /\ pc[p] \in Scanning /\ pc[p] # "upstream"
        /\ ClaimBarriers = ScannedGroup(p, pc[p])
    BY <1>3 DEF TryClaimScan, Scanning, ScannedGroup
  <2> DEFINE m == MinimumNow(p, ClaimBarriers)
             diff == difference(m + BufferSize, m_nextSequenceToClaim)
  <2>2. m \in Int /\ m + BufferSize \in Int
    BY <2>1, <1>p, <1>g, <1>n, ScanTypes, TypesOfScans
  <2>3. diff \in Int
    BY <2>2, <1>n, DifferenceType
  <2>u. UNCHANGED <<m_lastPublished, readerVars>>
    BY <1>3 DEF TryClaimScan
  <2>4. CASE /\ ~IsLastLoad(p, ClaimBarriers) /\ Again(p, m)
             /\ UNCHANGED <<timed, claimVars>>
    <3>1. ControlTypes'
      BY <2>4, <2>1, <2>2, <1>p, <1>g, AgainTypes, TypesOfScans DEF IsLastLoad
    <3> QED
      BY <2>4, <2>u, <3>1 DEF TypeOK, ControlTypes
  <2>5. CASE diff >= 0 /\ TakeRange(p, m + BufferSize)
    <3>1. diff >= -1
      BY <2>5, <2>3
    <3> QED
      BY <2>5, <2>2, <2>u, <3>1, TakeRangeTypes DEF TypeOK, ControlTypes
  <2>6. CASE ClaimFails(p)
    BY <2>6, <2>u, ClaimFailsTypes DEF TypeOK, ControlTypes
  <2>7. CASE Goto(p, "timedWait") /\ UNCHANGED <<timed, claimVars>>
    <3>1. ControlTypes'
      BY <2>7, <1>p, <1>t, GotoTypes, TypesOfScans DEF PCs
    <3> QED
      BY <2>7, <2>u, <3>1 DEF TypeOK, ControlTypes
  <2> QED
    BY <1>3, <2>4, <2>5, <2>6, <2>7 DEF TryClaimScan
<1>4. CASE WriteItem(p)
  <2>1. RangeAt(sequence, idx[p]) \in Int
    BY <1>p DEF TypeOK, RangeAt
  <2>2. ControlTypes'
    BY <1>4, <1>p, GotoTypes, AgainTypes, TypesOfScans DEF WriteItem, PCs, Scanning
  <2> QED
    BY <1>4, <2>1, <2>2, SlotType DEF WriteItem, TypeOK, ControlTypes
<1>5. CASE Publish(p)
  <2>1. RangeLast(sequence, size) \in Int
    BY DEF TypeOK, RangeLast, RangeEnd
  <2>2. ControlTypes'
    BY <1>5, <1>p, GotoTypes, TypesOfScans DEF Publish, PCs, Scanning
  <2>3. m_lastPublished' \in [Barriers -> Int]
    BY <1>5, <2>1 DEF Publish, PublishBarrier, TypeOK
  <2> QED
    BY <1>5, <2>2, <2>3 DEF Publish, TypeOK, ControlTypes
<1> QED
  BY <1>1, <1>2, <1>3, <1>4, <1>5 DEF ProducerWorks

\* Every step of a reader preserves the types.
LEMMA ConsumerTypeStep ==
    ASSUME TypeOK, NEW c \in Consumers, ReaderBegins(c) \/ ConsumerWorks(c)
    PROVE  TypeOK'
<1> USE DEF barrierVars, readerVars, claimVars
<1>c. c \in Threads /\ c \in Barriers
  BY Constants
<1>g. Upstream[c] \in Seq(Barriers) /\ Len(Upstream[c]) > 0 /\ Upstream[c] # <<>>
  BY UpstreamTypes, SingleProducerAssumption
<1>1. CASE ReaderBegins(c)
  <2>1. PICK k \in LookAheads, withTimeout \in TimedWaits :
          /\ target' = [target EXCEPT ![c] = nextToRead[c] + k - 1]
          /\ timed' = [timed EXCEPT ![c] = withTimeout]
    BY <1>1 DEF ReaderBegins, BeginWait
  <2>2. k \in Int /\ withTimeout \in BOOLEAN
    BY WorkloadAssumption, BufferSizeAssumption
  <2>3. timed' \in [Threads -> BOOLEAN]
    BY <2>1, <2>2 DEF TypeOK
  <2>4. ControlTypes'
    <3>1. Goto(c, "upstream") /\ "upstream" \in PCs
      BY <1>1, <1>g DEF ReaderBegins, BeginWait, PCs
    <3>2. Len(ScannedGroup(c, "upstream")) > 0
      BY <1>g DEF ScannedGroup
    <3> QED
      BY <3>1, <3>2, <1>c, GotoTypes, TypesOfScans
  <2> QED
    BY <1>1, <2>1, <2>2, <2>3, <2>4 DEF ReaderBegins, BeginWait, TypeOK, ControlTypes
<1>2. CASE WaitUpstream(c) /\ UNCHANGED claimVars
  <2>1. pc[c] \in Scanning /\ Upstream[c] = ScannedGroup(c, pc[c]) /\ target[c] \in Int
    BY <1>2 DEF WaitUpstream, Scanning, ScannedGroup, TypeOK
  <2>2. ScanResult(c, Upstream[c], target[c]) \in Int
    BY <2>1, <1>c, <1>g, ScanTypes, TypesOfScans
  <2>3. CASE /\ Rescan(c, Upstream[c], target[c]) \/ ScanOn(c, Upstream[c], target[c])
             /\ UNCHANGED readerVars
    <3>1. ControlTypes' /\ UNCHANGED <<m_lastPublished, timed>>
      BY <2>1, <2>3, <1>c, <1>g, ScanTypeStep, TypesOfScans
    <3> QED
      BY <1>2, <2>3, <3>1 DEF TypeOK, ControlTypes
  <2>4. CASE BatchAvailable(c, ScanResult(c, Upstream[c], target[c]))
    <3>1. ControlTypes'
      BY <2>4, <1>c, GotoTypes, TypesOfScans DEF BatchAvailable, PCs, Scanning
    <3>2. timed' \in [Threads -> BOOLEAN]
      BY <2>4 DEF BatchAvailable, EndCall, TypeOK
    <3> QED
      BY <1>2, <2>2, <2>4, <3>1, <3>2 DEF BatchAvailable, EndCall, TypeOK, ControlTypes
  <2>5. CASE WaitTimedOut(c)
    <3>1. ControlTypes'
      BY <2>5, <1>c, GotoTypes, TypesOfScans DEF WaitTimedOut, PCs, Scanning
    <3>2. timed' \in [Threads -> BOOLEAN]
      BY <2>5 DEF WaitTimedOut, EndCall, TypeOK
    <3> QED
      BY <1>2, <2>5, <3>1, <3>2 DEF WaitTimedOut, EndCall, TypeOK, ControlTypes
  <2> QED
    BY <1>2, <2>3, <2>4, <2>5 DEF WaitUpstream
<1>3. CASE ReadItem(c) /\ UNCHANGED claimVars
  <2>1. ControlTypes'
    BY <1>3, <1>c, GotoTypes, TypesOfScans DEF ReadItem, PCs, Scanning
  <2> QED
    BY <1>3, <2>1 DEF ReadItem, TypeOK, ControlTypes
<1>4. CASE PublishConsumed(c) /\ UNCHANGED claimVars
  <2>1. ControlTypes'
    BY <1>4, <1>c, GotoTypes, TypesOfScans DEF PublishConsumed, PCs, Scanning
  <2> QED
    BY <1>4, <2>1 DEF PublishConsumed, PublishBarrier, TypeOK, ControlTypes
<1> QED
  BY <1>1, <1>2, <1>3, <1>4 DEF ConsumerWorks

\* The program never leaves its types: no scan of a barrier group runs past its
\* array, no claim takes a negative number of slots or more than it was asked
\* for, whatever the words are and however readers and producer interleave.
THEOREM TypeCorrectness == Spec => []TypeOK
<1>1. TypeOK /\ [Next]_vars => TypeOK'
  <2> SUFFICES ASSUME TypeOK, [Next]_vars PROVE TypeOK'
    OBVIOUS
  <2>1. CASE \E p \in Producers : ClaimBegin(p) \/ ProducerWorks(p)
    BY <2>1, ProducerTypeStep
  <2>2. CASE \E c \in Consumers : ReaderBegins(c) \/ ConsumerWorks(c)
    BY <2>2, ConsumerTypeStep
  <2>3. CASE UNCHANGED vars
    BY <2>3 DEF TypeOK, ScanInBounds, vars, barrierVars, readerVars, claimVars
  <2> QED
    BY <2>1, <2>2, <2>3 DEF Next, Terminated
<1> QED
  BY <1>1, TypeInit, PTL DEF Spec

-----------------------------------------------------------------------------
(***************************************************************************)
(* What SafetyInv says of the sequences in play.                           *)
(***************************************************************************)

LEMMA Words ==
    ASSUME TypeOK
    PROVE  /\ m_nextSequenceToClaim \in Int /\ sequence \in Int /\ size \in Nat
           /\ \A b \in Barriers : m_lastPublished[b] \in Int
           /\ \A c \in Consumers : /\ nextToRead[c] \in Int /\ target[c] \in Int
                                   /\ available[c] \in Int
           /\ \A t \in Threads : idx[t] \in Nat /\ acc[t] \in Int
BY DEF TypeOK

\* There is a reader, since the claim barrier is not empty, and there is a producer.
LEMMA SomeThreads == (\E c \in Consumers : TRUE) /\ (\E p \in Producers : TRUE)
<1>1. ClaimBarriers[1] \in Consumers
  BY GroupTypes
<1> QED
  BY <1>1, SingleProducerAssumption

\* Every cursor is within one lap behind the producer's, and none is ahead of the
\* read barrier's.
LEMMA Window ==
    ASSUME TypeOK, SafetyInv, NEW b \in Barriers
    PROVE  /\ m_lastPublished[b] \in Int /\ m_lastPublished[b] >= -1
           /\ m_lastPublished[b] <= m_lastPublished[ReadBarrier]
           /\ m_lastPublished[b] < m_nextSequenceToClaim
           /\ m_nextSequenceToClaim <= m_lastPublished[b] + BufferSize + 1
<1>1. PICK c \in Consumers, p \in Producers : TRUE
  BY SomeThreads
<1>2. /\ m_lastPublished[b] \in Int /\ m_lastPublished[ReadBarrier] \in Int
      /\ m_lastPublished[c] \in Int /\ m_nextSequenceToClaim \in Int
      /\ sequence \in Int /\ size \in Nat /\ idx[p] \in Nat
  BY <1>1, Words, Constants
<1>3. m_lastPublished[ReadBarrier] < m_nextSequenceToClaim
  <2>1. ProducerKnows(p)
    BY <1>1 DEF SafetyInv, ProducerInv
  <2> QED
    BY <2>1, <1>2 DEF ProducerKnows
<1>4. \A d \in Consumers : /\ m_lastPublished[d] >= -1
                           /\ m_lastPublished[d] <= m_lastPublished[ReadBarrier]
                           /\ m_nextSequenceToClaim <= m_lastPublished[d] + BufferSize + 1
  BY DEF SafetyInv, BarriersInv
<1>5. b \in Consumers \/ b = ReadBarrier
  BY SingleProducerAssumption
<1> QED
  BY <1>1, <1>2, <1>3, <1>4, <1>5, Constants

\* What all the barriers of the claim barrier have reached, every reader has.
LEMMA GatesCoverAll ==
    ASSUME TypeOK, SafetyInv, NEW x \in Int, NEW c \in Consumers,
           \A g \in Elems(ClaimBarriers) : x <= m_lastPublished[g]
    PROVE  x <= m_lastPublished[c]
<1>1. PICK g \in Elems(ClaimBarriers) : c = g \/ c \in Ancestors[g]
  BY TopologyAssumption
<1>2. g \in Consumers
  BY GroupTypes DEF Elems
<1>3. m_lastPublished[g] <= m_lastPublished[c]
  <2>1. c \in Ancestors[g] => m_lastPublished[g] <= m_lastPublished[c]
    BY <1>2 DEF SafetyInv, BarriersInv
  <2> QED
    BY <1>1, <2>1, <1>2, Words, Constants
<1> QED
  BY <1>1, <1>2, <1>3, Words, Constants

\* The sequences of the range the producer holds.
LEMMA HeldRange ==
    ASSUME TypeOK, SafetyInv, NEW s \in Held
    PROVE  /\ s \in Int
           /\ m_lastPublished[ReadBarrier] < s
           /\ s < m_nextSequenceToClaim
<1>1. PICK p \in Producers : pc[p] \in {"write", "publish"}
  BY DEF Held
<1>2. ProducerKnows(p)
  BY DEF SafetyInv, ProducerInv
<1>3. s \in sequence .. RangeLast(sequence, size)
  BY DEF Held
<1> QED
  BY <1>1, <1>2, <1>3, Words, Constants DEF ProducerKnows, RangeLast, RangeEnd

-----------------------------------------------------------------------------
(***************************************************************************)
(* The properties follow from SafetyInv.                                   *)
(***************************************************************************)

LEMMA UnreadRange ==
    ASSUME TypeOK, SafetyInv, NEW c \in Consumers, NEW s \in Unread(c)
    PROVE  /\ s \in Int
           /\ m_lastPublished[c] < s
           /\ s <= m_lastPublished[ReadBarrier]
<1>1. pc[c] = "read" /\ s \in nextToRead[c] .. available[c]
  BY DEF Unread
<1>2. ReaderKnows(c)
  BY DEF SafetyInv, ReaderInv
<1> QED
  BY <1>1, <1>2, Words, Constants DEF ReaderKnows

LEMMA InvImpliesSlotExclusion ==
    ASSUME TypeOK, SafetyInv
    PROVE  SlotExclusion
<1> SUFFICES ASSUME NEW c \in Consumers, NEW s \in Held, NEW u \in Unread(c),
                    Slot(s) = Slot(u)
             PROVE  FALSE
  BY DEF SlotExclusion, SlotsOf
<1>1. /\ s \in Int /\ u \in Int /\ u < s
      /\ m_lastPublished[c] < u /\ s < m_nextSequenceToClaim
  BY HeldRange, UnreadRange, Words, Constants
<1>2. u + BufferSize <= s
  BY <1>1, SlotApart
<1>3. m_nextSequenceToClaim <= m_lastPublished[c] + BufferSize + 1
  BY DEF SafetyInv, BarriersInv
<1> QED
  BY <1>1, <1>2, <1>3, Words, Constants

LEMMA InvImpliesAvailableIsWritten ==
    ASSUME TypeOK, SafetyInv
    PROVE  AvailableIsWritten
<1> SUFFICES ASSUME NEW c \in Consumers, NEW s \in Unread(c)
             PROVE  buffer[Slot(s)] = s
  BY DEF AvailableIsWritten
<1>1. /\ s \in Int /\ m_lastPublished[c] < s /\ s <= m_lastPublished[ReadBarrier]
  BY UnreadRange
<1>2. /\ m_lastPublished[c] >= -1 /\ m_nextSequenceToClaim <= m_lastPublished[c] + BufferSize + 1
  BY DEF SafetyInv, BarriersInv
<1>3. s \in 0 .. m_lastPublished[ReadBarrier] /\ m_nextSequenceToClaim <= s + BufferSize
  BY <1>1, <1>2, Words, Constants
<1> QED
  BY <1>3 DEF SafetyInv, ItemsInv

LEMMA InvImpliesClaimsWithinBuffer ==
    ASSUME TypeOK, SafetyInv
    PROVE  ClaimsWithinBuffer
<1> SUFFICES ASSUME NEW c \in Consumers, NEW s \in Held
             PROVE  s <= m_lastPublished[c] + BufferSize
  BY DEF ClaimsWithinBuffer
<1>1. s \in Int /\ s < m_nextSequenceToClaim
  BY HeldRange
<1>2. m_nextSequenceToClaim <= m_lastPublished[c] + BufferSize + 1
  BY DEF SafetyInv, BarriersInv
<1> QED
  BY <1>1, <1>2, Words, Constants

LEMMA InvImpliesCursorsInOrder ==
    ASSUME SafetyInv
    PROVE  CursorsInOrder
BY DEF SafetyInv, BarriersInv, CursorsInOrder

-----------------------------------------------------------------------------
(***************************************************************************)
(* SafetyInv holds initially.                                              *)
(***************************************************************************)

LEMMA SafetyInit == Init => SafetyInv
<1> SUFFICES ASSUME Init PROVE SafetyInv
  OBVIOUS
<1> USE DEF Init, BarriersInit, ReadersInit
<1>1. /\ \A t \in Threads : pc[t] = "idle"
      /\ \A b \in Barriers : m_lastPublished[b] = -1
      /\ \A c \in Consumers : nextToRead[c] = 0
  BY Constants
<1>2. PlacesInv
  BY <1>1, Constants DEF PlacesInv
<1>3. BarriersInv
  BY <1>1, UpstreamMembers, Constants DEF BarriersInv
<1>4. ReaderInv
  BY <1>1, Constants DEF ReaderInv, ReaderKnows
<1>5. ProducerInv
  BY <1>1, Constants DEF ProducerInv, ProducerKnows
<1>6. ItemsInv
  BY <1>1, Constants DEF ItemsInv
<1> QED
  BY <1>2, <1>3, <1>4, <1>5, <1>6 DEF SafetyInv

-----------------------------------------------------------------------------
(***************************************************************************)
(* What a thread knows stays true while other threads move.                *)
(***************************************************************************)

LEMMA ReaderStays ==
    ASSUME TypeOK, TypeOK', SafetyInv, BarriersGrow, NEW c \in Consumers, Still(c),
           m_lastPublished'[c] = m_lastPublished[c], nextToRead'[c] = nextToRead[c],
           target'[c] = target[c], available'[c] = available[c]
    PROVE  ReaderKnows(c)'
<1>1. ReaderKnows(c)
  BY DEF SafetyInv, ReaderInv
<1>2. c \in Threads /\ target[c] \in Int /\ available[c] \in Int
  BY Words, Constants
<1>3. pc[c] = "upstream" => ScannedSoFar(c, Upstream[c], target[c])'
  <2> SUFFICES ASSUME pc[c] = "upstream"
               PROVE  ScannedSoFar(c, Upstream[c], target[c])'
    OBVIOUS
  <2>1. pc[c] \in Scanning /\ Upstream[c] = ScannedGroup(c, pc[c])
    BY DEF Scanning, ScannedGroup
  <2>2. ScannedSoFar(c, Upstream[c], target[c])
    BY <1>1 DEF ReaderKnows
  <2>3. \A i \in 1 .. idx[c] : acc[c] >= 0 /\ target[c] + acc[c] <= m_lastPublished'[Upstream[c][i]]
    BY <1>2, <2>1, <2>2, UpstreamTypes, TypesOfScans, ScannedStays
       DEF ScannedSoFar, Still, TypeOK, BarrierTypes
  <2> QED
    BY <2>3 DEF ScannedSoFar, Still
<1>4. \A b \in Barriers : available[c] <= m_lastPublished[b] => available[c] <= m_lastPublished'[b]
  BY <1>2 DEF BarriersGrow, TypeOK
<1> QED
  BY <1>1, <1>3, <1>4, UpstreamMembers, Constants DEF ReaderKnows, Still

LEMMA ProducerStays ==
    ASSUME TypeOK, TypeOK', SafetyInv, BarriersGrow, NEW p \in Producers, Still(p),
           m_lastPublished'[ReadBarrier] = m_lastPublished[ReadBarrier],
           UNCHANGED <<m_nextSequenceToClaim, sequence, size>>
    PROVE  ProducerKnows(p)'
<1>1. ProducerKnows(p)
  BY DEF SafetyInv, ProducerInv
<1>2. p \in Threads /\ ClaimFloor \in Int /\ ClaimFloor' = ClaimFloor
      /\ ClaimBarriers \in Seq(Barriers) /\ acc[p] \in Int
  BY Words, Constants, GroupTypes DEF ClaimFloor
<1>3. pc[p] \in {"claimWait", "timedWait"} => ScannedSoFar(p, ClaimBarriers, ClaimFloor)'
  <2> SUFFICES ASSUME pc[p] \in {"claimWait", "timedWait"}
               PROVE  ScannedSoFar(p, ClaimBarriers, ClaimFloor)'
    OBVIOUS
  <2>1. pc[p] \in Scanning /\ ClaimBarriers = ScannedGroup(p, pc[p])
    BY DEF Scanning, ScannedGroup
  <2>2. ScannedSoFar(p, ClaimBarriers, ClaimFloor)
    BY <1>1 DEF ProducerKnows
  <2>3. \A i \in 1 .. idx[p] :
           acc[p] >= 0 /\ ClaimFloor + acc[p] <= m_lastPublished'[ClaimBarriers[i]]
    BY <1>2, <2>1, <2>2, TypesOfScans, ScannedStays
       DEF ScannedSoFar, Still, TypeOK, BarrierTypes
  <2> QED
    BY <1>2, <2>3 DEF ScannedSoFar, Still
<1>4. pc[p] = "tryScan" => \A i \in 1 .. idx[p] : acc[p] <= m_lastPublished'[ClaimBarriers[i]]
  <2> SUFFICES ASSUME pc[p] = "tryScan", NEW i \in 1 .. idx[p]
               PROVE  acc[p] <= m_lastPublished'[ClaimBarriers[i]]
    OBVIOUS
  <2>1. pc[p] \in Scanning /\ ClaimBarriers = ScannedGroup(p, pc[p])
        /\ i \in 1 .. idx[p] + 1
    BY <1>2, Words DEF Scanning, ScannedGroup
  <2>2. ClaimBarriers[i] \in Barriers
    BY <1>2, <2>1, TypesOfScans, ScannedBarrier
  <2>3. acc[p] <= m_lastPublished[ClaimBarriers[i]]
    BY <1>1 DEF ProducerKnows
  <2> QED
    BY <1>2, <2>2, <2>3 DEF BarriersGrow, TypeOK
<1> QED
  BY <1>1, <1>3, <1>4 DEF ProducerKnows, Still

\* A step of reader c, after which it still knows what its place in the code says
\* and its barrier is not ahead of those it waits for.
LEMMA ReaderMoves ==
    ASSUME TypeOK, TypeOK', SafetyInv, NEW c \in Consumers,
           \A t \in Threads \ {c} : Still(t),
           \A d \in Consumers \ {c} : /\ nextToRead'[d] = nextToRead[d]
                                      /\ target'[d] = target[d]
                                      /\ available'[d] = available[d],
           \A b \in Barriers \ {c} : m_lastPublished'[b] = m_lastPublished[b],
           m_lastPublished'[c] >= m_lastPublished[c],
           m_lastPublished'[c] <= m_lastPublished[ReadBarrier],
           \A b \in Elems(Upstream[c]) : m_lastPublished'[c] <= m_lastPublished[b],
           \A d \in Ancestors[c] : m_lastPublished'[c] <= m_lastPublished[d],
           pc'[c] \in {"idle", "upstream", "read", "consumed"}, ReaderKnows(c)',
           UNCHANGED <<buffer, m_nextSequenceToClaim, sequence, size>>
    PROVE  SafetyInv'
<1>1. \A b \in Barriers : /\ m_lastPublished[b] \in Int /\ m_lastPublished'[b] \in Int
                          /\ m_lastPublished'[b] >= m_lastPublished[b]
  BY DEF TypeOK
<1>2. BarriersGrow
  BY <1>1 DEF BarriersGrow
<1>3. m_lastPublished'[ReadBarrier] = m_lastPublished[ReadBarrier]
  BY Constants
<1>4. PlacesInv'
  BY Constants DEF SafetyInv, PlacesInv, Still
<1>5. BarriersInv'
  <2> SUFFICES ASSUME NEW d \in Consumers
               PROVE  /\ m_lastPublished'[d] >= -1
                      /\ m_lastPublished'[d] <= m_lastPublished'[ReadBarrier]
                      /\ \A b \in Elems(Upstream[d]) : m_lastPublished'[d] <= m_lastPublished'[b]
                      /\ \A e \in Ancestors[d] : m_lastPublished'[d] <= m_lastPublished'[e]
                      /\ m_nextSequenceToClaim' <= m_lastPublished'[d] + BufferSize + 1
    BY DEF BarriersInv
  <2>1. /\ m_lastPublished[d] >= -1
        /\ m_lastPublished[d] <= m_lastPublished[ReadBarrier]
        /\ \A b \in Elems(Upstream[d]) : m_lastPublished[d] <= m_lastPublished[b]
        /\ \A e \in Ancestors[d] : m_lastPublished[d] <= m_lastPublished[e]
        /\ m_nextSequenceToClaim <= m_lastPublished[d] + BufferSize + 1
    BY DEF SafetyInv, BarriersInv
  <2>2. /\ m_lastPublished'[d] <= m_lastPublished[ReadBarrier]
        /\ \A b \in Elems(Upstream[d]) : m_lastPublished'[d] <= m_lastPublished[b]
        /\ \A e \in Ancestors[d] : m_lastPublished'[d] <= m_lastPublished[e]
    BY <2>1, Constants
  <2>3. \A b \in Barriers : m_lastPublished'[d] <= m_lastPublished[b]
                               => m_lastPublished'[d] <= m_lastPublished'[b]
    BY <1>1, Constants
  <2> QED
    BY <1>1, <2>1, <2>2, <2>3, UpstreamMembers, Words, Constants
<1>6. ReaderInv'
  <2> SUFFICES ASSUME NEW d \in Consumers \ {c} PROVE ReaderKnows(d)'
    BY DEF ReaderInv
  <2>1. Still(d) /\ m_lastPublished'[d] = m_lastPublished[d]
    BY Constants
  <2> QED
    BY <2>1, <1>2, ReaderStays
<1>7. \A p \in Producers : Still(p)
  BY Constants
<1>8. ProducerInv'
  BY <1>2, <1>3, <1>7, ProducerStays DEF ProducerInv
<1>9. ItemsInv'
  BY <1>3, <1>7 DEF SafetyInv, ItemsInv, Still
<1> QED
  BY <1>4, <1>5, <1>6, <1>8, <1>9 DEF SafetyInv

\* The same when it publishes nothing.
LEMMA ReaderMovesOn ==
    ASSUME TypeOK, TypeOK', SafetyInv, NEW c \in Consumers,
           \A t \in Threads \ {c} : Still(t),
           \A d \in Consumers \ {c} : /\ nextToRead'[d] = nextToRead[d]
                                      /\ target'[d] = target[d]
                                      /\ available'[d] = available[d],
           UNCHANGED m_lastPublished,
           pc'[c] \in {"idle", "upstream", "read", "consumed"}, ReaderKnows(c)',
           UNCHANGED <<buffer, m_nextSequenceToClaim, sequence, size>>
    PROVE  SafetyInv'
<1>1. /\ m_lastPublished[c] \in Int
      /\ m_lastPublished[c] <= m_lastPublished[ReadBarrier]
      /\ \A b \in Elems(Upstream[c]) : m_lastPublished[c] <= m_lastPublished[b]
      /\ \A d \in Ancestors[c] : m_lastPublished[c] <= m_lastPublished[d]
  BY Words, Constants DEF SafetyInv, BarriersInv
<1>2. m_lastPublished'[c] >= m_lastPublished[c]
  BY <1>1
<1> QED
  BY <1>1, <1>2, ReaderMoves

\* Readers do not notice what the producer does, as long as it stays within the lap.
LEMMA ReadersStay ==
    ASSUME TypeOK, TypeOK', SafetyInv, \A c \in Consumers : Still(c),
           UNCHANGED <<nextToRead, target, available>>,
           \A c \in Consumers : m_lastPublished'[c] = m_lastPublished[c],
           m_lastPublished'[ReadBarrier] >= m_lastPublished[ReadBarrier],
           \A c \in Consumers :
               m_nextSequenceToClaim' <= m_lastPublished[c] + BufferSize + 1
    PROVE  ReaderInv' /\ BarriersInv'
<1>1. \A b \in Barriers : /\ m_lastPublished[b] \in Int /\ m_lastPublished'[b] \in Int
                          /\ m_lastPublished'[b] >= m_lastPublished[b]
  <2> SUFFICES ASSUME NEW b \in Barriers
               PROVE  m_lastPublished'[b] >= m_lastPublished[b]
    BY DEF TypeOK
  <2>1. b \in Consumers \/ b = ReadBarrier
    BY SingleProducerAssumption
  <2>2. m_lastPublished[b] \in Int
    BY Words
  <2> QED
    BY <2>1, <2>2
<1>2. BarriersGrow
  BY <1>1 DEF BarriersGrow
<1>3. ReaderInv'
  BY <1>2, ReaderStays DEF ReaderInv
<1>4. BarriersInv'
  <2> SUFFICES ASSUME NEW d \in Consumers
               PROVE  /\ m_lastPublished'[d] >= -1
                      /\ m_lastPublished'[d] <= m_lastPublished'[ReadBarrier]
                      /\ \A b \in Elems(Upstream[d]) : m_lastPublished'[d] <= m_lastPublished'[b]
                      /\ \A e \in Ancestors[d] : m_lastPublished'[d] <= m_lastPublished'[e]
                      /\ m_nextSequenceToClaim' <= m_lastPublished'[d] + BufferSize + 1
    BY DEF BarriersInv
  <2>1. /\ m_lastPublished[d] >= -1
        /\ m_lastPublished[d] <= m_lastPublished[ReadBarrier]
        /\ \A b \in Elems(Upstream[d]) : m_lastPublished[d] <= m_lastPublished[b]
        /\ \A e \in Ancestors[d] : m_lastPublished[d] <= m_lastPublished[e]
    BY DEF SafetyInv, BarriersInv
  <2>2. \A b \in Barriers : m_lastPublished[d] <= m_lastPublished[b]
                               => m_lastPublished'[d] <= m_lastPublished'[b]
    BY <1>1, Constants
  <2> QED
    BY <1>1, <2>1, <2>2, UpstreamMembers, Constants
<1> QED
  BY <1>3, <1>4

-----------------------------------------------------------------------------
(***************************************************************************)
(* Steps of a reader.                                                      *)
(***************************************************************************)

LEMMA ReaderBeginsSafe ==
    ASSUME TypeOK, TypeOK', SafetyInv, NEW c \in Consumers, ReaderBegins(c)
    PROVE  SafetyInv'
<1>1. PICK k \in LookAheads : target' = [target EXCEPT ![c] = nextToRead[c] + k - 1]
  BY DEF ReaderBegins, BeginWait
<1>2. k \in Int /\ 1 <= k /\ k <= BufferSize
  BY WorkloadAssumption, Constants
<1>3. /\ Goto(c, "upstream") /\ pc[c] = "idle"
      /\ UNCHANGED <<m_lastPublished, buffer, nextToRead, available, claimVars>>
  BY SingleProducerAssumption DEF ReaderBegins, BeginWait
<1>4. /\ pc'[c] = "upstream" /\ idx'[c] = 0 /\ \A t \in Threads \ {c} : Still(t)
  BY <1>3, GotoStill, TypesOfScans, Constants
<1>5. /\ target'[c] = nextToRead[c] + k - 1
      /\ \A d \in Consumers \ {c} : target'[d] = target[d]
  BY <1>1 DEF TypeOK
<1>6. nextToRead[c] = m_lastPublished[c] + 1 /\ m_lastPublished[c] \in Int
  BY <1>3, Words, Constants DEF SafetyInv, ReaderInv, ReaderKnows
<1>7. ReaderKnows(c)'
  BY <1>2, <1>3, <1>4, <1>5, <1>6, Constants DEF ReaderKnows, ScannedSoFar
<1> QED
  BY <1>3, <1>4, <1>5, <1>7, ReaderMovesOn DEF claimVars

\* The barriers a reader waits for are within a lap of the sequence it waits for.
LEMMA UpstreamComparable ==
    ASSUME TypeOK, SafetyInv, NEW c \in Consumers, pc[c] = "upstream"
    PROVE  Comparable(Upstream[c], target[c])
<1> SUFFICES ASSUME NEW b \in Elems(Upstream[c])
             PROVE  /\ -HalfModulus <= m_lastPublished[b] - target[c]
                    /\ m_lastPublished[b] - target[c] < HalfModulus
  BY DEF Comparable
<1>1. b \in Barriers
  BY UpstreamMembers
<1>2. /\ m_lastPublished[b] \in Int /\ m_lastPublished[b] < m_nextSequenceToClaim
  BY <1>1, Window
<1>3. /\ m_lastPublished[c] <= m_lastPublished[b]
      /\ m_nextSequenceToClaim <= m_lastPublished[c] + BufferSize + 1
  BY DEF SafetyInv, BarriersInv
<1>4. /\ nextToRead[c] = m_lastPublished[c] + 1 /\ target[c] >= nextToRead[c]
      /\ target[c] <= m_lastPublished[c] + BufferSize
  BY DEF SafetyInv, ReaderInv, ReaderKnows
<1>5. /\ m_lastPublished[c] \in Int /\ target[c] \in Int /\ nextToRead[c] \in Int
      /\ m_nextSequenceToClaim \in Int
  BY Words, Constants
<1> QED
  BY <1>2, <1>3, <1>4, <1>5, Constants

LEMMA WaitUpstreamSafe ==
    ASSUME TypeOK, TypeOK', SafetyInv, NEW c \in Consumers, WaitUpstream(c),
           UNCHANGED claimVars
    PROVE  SafetyInv'
<1> DEFINE group == Upstream[c]
           floor == target[c]
           result == ScanResult(c, group, floor)
<1>1. /\ c \in Threads /\ pc[c] = "upstream" /\ pc[c] \in Scanning
      /\ group = ScannedGroup(c, pc[c]) /\ group \in Seq(Barriers) /\ Len(group) > 0
      /\ floor \in Int /\ nextToRead[c] \in Int /\ m_lastPublished[c] \in Int
  BY Words, Constants, UpstreamTypes DEF WaitUpstream, Scanning, ScannedGroup
<1>2. ReaderKnows(c)
  BY DEF SafetyInv, ReaderInv
<1>3. /\ nextToRead[c] = m_lastPublished[c] + 1 /\ floor >= nextToRead[c]
      /\ floor <= m_lastPublished[c] + BufferSize /\ ScannedSoFar(c, group, floor)
  BY <1>1, <1>2 DEF ReaderKnows
<1>4. Comparable(group, floor)
  BY <1>1, UpstreamComparable
<1>5. CASE (Rescan(c, group, floor) \/ ScanOn(c, group, floor)) /\ UNCHANGED readerVars
  <2>1. /\ pc' = pc /\ UNCHANGED <<m_lastPublished, timed>>
        /\ \A u \in Threads \ {c} : Still(u)
        /\ \A i \in 1 .. idx'[c] :
              acc'[c] >= 0 /\ floor + acc'[c] <= m_lastPublished'[group[i]]
    BY <1>1, <1>3, <1>4, <1>5, ScanStep, TypesOfScans
  <2>2. ReaderKnows(c)'
    BY <1>1, <1>3, <1>5, <2>1 DEF ReaderKnows, ScannedSoFar, readerVars
  <2> QED
    BY <1>1, <1>5, <2>1, <2>2, ReaderMovesOn DEF readerVars, claimVars
<1>6. CASE ScanDone(c, group, floor) /\ BatchAvailable(c, result)
  <2>1. /\ result \in Int /\ floor <= result
        /\ \A b \in Elems(group) : b \in Barriers /\ result <= m_lastPublished[b]
    BY <1>1, <1>3, <1>4, <1>6, ScanDoneBounds, TypesOfScans
  <2>2. result <= m_lastPublished[ReadBarrier]
    <3>1. group[1] \in Elems(group)
      BY <1>1 DEF Elems
    <3>2. /\ m_lastPublished[group[1]] \in Int /\ m_lastPublished[ReadBarrier] \in Int
          /\ m_lastPublished[group[1]] <= m_lastPublished[ReadBarrier]
      BY <2>1, <3>1, Window, Words, Constants
    <3> HIDE DEF result
    <3> QED
      BY <2>1, <3>1, <3>2
  <2>3. ASSUME NEW d \in Ancestors[c] PROVE result <= m_lastPublished[d]
    <3>1. PICK e \in Elems(Upstream[c]) \cap Consumers : d = e \/ d \in Ancestors[e]
      BY <2>3, TopologyAssumption
    <3>2. d \in Ancestors[e] => m_lastPublished[e] <= m_lastPublished[d]
      BY <3>1 DEF SafetyInv, BarriersInv
    <3>3. m_lastPublished[e] \in Int /\ m_lastPublished[d] \in Int
      BY <3>1, <2>3, UpstreamMembers, Words, Constants
    <3> HIDE DEF result
    <3> QED
      BY <2>1, <3>1, <3>2, <3>3
  <2> HIDE DEF result
  <2>4. /\ pc'[c] = "read" /\ available'[c] = result /\ nextToRead' = nextToRead
        /\ m_lastPublished' = m_lastPublished /\ buffer' = buffer
        /\ \A d \in Consumers \ {c} : available'[d] = available[d] /\ target'[d] = target[d]
    BY <1>1, <1>6 DEF BatchAvailable, EndCall, Goto, TypeOK
  <2>5. \A t \in Threads \ {c} : Still(t)
    BY <1>1, <1>6, GotoStill, TypesOfScans DEF BatchAvailable
  <2>6. ReaderKnows(c)'
    BY <1>1, <1>3, <2>1, <2>2, <2>3, <2>4 DEF ReaderKnows
  <2> QED
    BY <2>4, <2>5, <2>6, ReaderMovesOn DEF claimVars
<1>7. CASE WaitTimedOut(c)
  <2>1. /\ pc'[c] = "idle" /\ nextToRead' = nextToRead /\ available' = available
        /\ m_lastPublished' = m_lastPublished /\ buffer' = buffer
        /\ \A d \in Consumers \ {c} : target'[d] = target[d]
    BY <1>1, <1>7 DEF WaitTimedOut, EndCall, Goto, TypeOK
  <2>2. \A t \in Threads \ {c} : Still(t)
    BY <1>1, <1>7, GotoStill, TypesOfScans DEF WaitTimedOut
  <2>3. ReaderKnows(c)'
    BY <1>3, <2>1 DEF ReaderKnows
  <2> QED
    BY <2>1, <2>2, <2>3, ReaderMovesOn DEF claimVars
<1> QED
  BY <1>5, <1>6, <1>7 DEF WaitUpstream

LEMMA ReadItemSafe ==
    ASSUME TypeOK, TypeOK', SafetyInv, NEW c \in Consumers, ReadItem(c),
           UNCHANGED claimVars
    PROVE  SafetyInv'
<1>1. /\ c \in Threads /\ pc[c] = "read" /\ nextToRead[c] \in Int /\ available[c] \in Int
      /\ m_lastPublished[c] \in Int /\ m_lastPublished[ReadBarrier] \in Int
  BY Words, Constants DEF ReadItem
<1>2. /\ m_lastPublished[c] < nextToRead[c] /\ nextToRead[c] <= available[c]
      /\ available[c] <= m_lastPublished[ReadBarrier]
      /\ \A b \in Elems(Upstream[c]) : available[c] <= m_lastPublished[b]
      /\ \A d \in Ancestors[c] : available[c] <= m_lastPublished[d]
  BY <1>1 DEF SafetyInv, ReaderInv, ReaderKnows
<1>3. SameWord(nextToRead[c], available[c]) <=> nextToRead[c] = available[c]
  <2>1. /\ m_lastPublished[ReadBarrier] < m_nextSequenceToClaim
        /\ m_nextSequenceToClaim <= m_lastPublished[c] + BufferSize + 1
        /\ m_nextSequenceToClaim \in Int
    BY Window, Words, Constants
  <2>2. available[c] - nextToRead[c] < BufferSize
    BY <2>1, <1>1, <1>2, Constants
  <2> QED
    BY <2>2, <1>1, <1>2, Constants, SameWordExact
<1>4. /\ nextToRead'[c] = nextToRead[c] + 1
      /\ \A d \in Consumers \ {c} : nextToRead'[d] = nextToRead[d]
      /\ UNCHANGED <<m_lastPublished, buffer, target, available>>
  BY DEF ReadItem, TypeOK
<1>5. /\ pc'[c] = IF nextToRead[c] = available[c] THEN "consumed" ELSE "read"
      /\ \A t \in Threads \ {c} : Still(t)
  BY <1>1, <1>3, GotoStill, TypesOfScans DEF ReadItem
<1>6. ReaderKnows(c)'
  BY <1>1, <1>2, <1>4, <1>5 DEF ReaderKnows
<1> QED
  BY <1>4, <1>5, <1>6, ReaderMovesOn DEF claimVars

LEMMA PublishConsumedSafe ==
    ASSUME TypeOK, TypeOK', SafetyInv, NEW c \in Consumers, PublishConsumed(c),
           UNCHANGED claimVars
    PROVE  SafetyInv'
<1>1. /\ c \in Threads /\ pc[c] = "consumed" /\ nextToRead[c] \in Int
      /\ available[c] \in Int /\ m_lastPublished[c] \in Int
  BY Words, Constants DEF PublishConsumed
<1>2. /\ m_lastPublished[c] < nextToRead[c] /\ nextToRead[c] = available[c] + 1
      /\ available[c] <= m_lastPublished[ReadBarrier]
      /\ \A b \in Elems(Upstream[c]) : available[c] <= m_lastPublished[b]
      /\ \A d \in Ancestors[c] : available[c] <= m_lastPublished[d]
  BY <1>1 DEF SafetyInv, ReaderInv, ReaderKnows
<1>3. /\ m_lastPublished'[c] = available[c]
      /\ \A b \in Barriers \ {c} : m_lastPublished'[b] = m_lastPublished[b]
      /\ UNCHANGED readerVars
  BY Constants DEF PublishConsumed, PublishBarrier, TypeOK
<1>4. pc'[c] = "idle" /\ \A t \in Threads \ {c} : Still(t)
  BY <1>1, GotoStill, TypesOfScans DEF PublishConsumed
<1>5. ReaderKnows(c)'
  BY <1>2, <1>3, <1>4 DEF ReaderKnows, readerVars
<1>6. m_lastPublished'[c] >= m_lastPublished[c]
  BY <1>1, <1>2, <1>3
<1> QED
  BY <1>2, <1>3, <1>4, <1>5, <1>6, ReaderMoves DEF readerVars, claimVars

LEMMA ReaderStepSafe ==
    ASSUME TypeOK, TypeOK', SafetyInv, NEW c \in Consumers,
           ReaderBegins(c) \/ ConsumerWorks(c)
    PROVE  SafetyInv'
BY ReaderBeginsSafe, WaitUpstreamSafe, ReadItemSafe, PublishConsumedSafe
   DEF ConsumerWorks

-----------------------------------------------------------------------------
(***************************************************************************)
(* Steps of the producer.                                                  *)
(***************************************************************************)

\* A step in which the producer stores nothing to shared memory, and claims no
\* more than a lap ahead of the readers.
LEMMA ProducerMoves ==
    ASSUME TypeOK, TypeOK', SafetyInv, NEW p \in Producers,
           \A t \in Threads \ {p} : Still(t),
           UNCHANGED <<m_lastPublished, readerVars>>,
           m_nextSequenceToClaim' >= m_nextSequenceToClaim,
           \A c \in Consumers :
               m_nextSequenceToClaim' <= m_lastPublished[c] + BufferSize + 1,
           \/ pc'[p] \in {"idle", "claimWait", "tryScan", "timedWait"}
           \/ pc'[p] = "write" /\ idx'[p] = 0,
           ProducerKnows(p)'
    PROVE  SafetyInv'
<1>1. \A c \in Consumers : Still(c)
  BY Constants
<1>2. \A q \in Producers : q = p
  BY Constants
<1>3. m_lastPublished'[ReadBarrier] >= m_lastPublished[ReadBarrier]
  BY Words, Constants
<1>4. ReaderInv' /\ BarriersInv'
  BY <1>1, <1>3, ReadersStay DEF readerVars
<1>5. PlacesInv'
  BY <1>1, <1>2 DEF SafetyInv, PlacesInv, Still
<1>6. ProducerInv'
  BY <1>2 DEF ProducerInv
<1>7. ItemsInv'
  <2>1. ASSUME NEW s \in 0 .. m_lastPublished'[ReadBarrier],
               m_nextSequenceToClaim' <= s + BufferSize
        PROVE  buffer'[Slot(s)] = s
    <3>1. /\ s \in Int /\ m_nextSequenceToClaim \in Int /\ m_nextSequenceToClaim' \in Int
      BY Words, Constants DEF TypeOK
    <3>2. m_nextSequenceToClaim <= s + BufferSize
      BY <2>1, <3>1, Constants
    <3> QED
      BY <3>2 DEF SafetyInv, ItemsInv, readerVars
  <2>2. pc'[p] = "write" => \A i \in 0 .. idx'[p] - 1 : FALSE
    OBVIOUS
  <2> QED
    BY <1>2, <2>1, <2>2 DEF ItemsInv
<1> QED
  BY <1>4, <1>5, <1>6, <1>7 DEF SafetyInv

LEMMA ClaimBeginSafe ==
    ASSUME TypeOK, TypeOK', SafetyInv, NEW p \in Producers, ClaimBegin(p)
    PROVE  SafetyInv'
<1>1. p \in Threads /\ pc[p] = "idle" /\ m_nextSequenceToClaim \in Int
  BY Constants, Words DEF ClaimBegin
<1>2. UNCHANGED <<m_lastPublished, readerVars, m_nextSequenceToClaim, sequence, size>>
  BY DEF ClaimBegin
<1>3. /\ pc'[p] \in {"claimWait", "tryScan"} /\ idx'[p] = 0
      /\ \A t \in Threads \ {p} : Still(t)
  BY <1>1, GotoStill, TypesOfScans DEF ClaimBegin
<1>4. m_nextSequenceToClaim = m_lastPublished[ReadBarrier] + 1
  BY <1>1 DEF SafetyInv, ProducerInv, ProducerKnows
<1>5. ProducerKnows(p)'
  BY <1>2, <1>3, <1>4 DEF ProducerKnows, ScannedSoFar
<1>6. \A c \in Consumers : m_nextSequenceToClaim <= m_lastPublished[c] + BufferSize + 1
  BY DEF SafetyInv, BarriersInv
<1> QED
  BY <1>1, <1>2, <1>3, <1>5, <1>6, ProducerMoves

\* A claim takes its range where every reader has left room for it.
LEMMA TakeRangeSafe ==
    ASSUME TypeOK, TypeOK', SafetyInv, NEW p \in Producers,
           pc[p] \in {"claimWait", "tryScan", "timedWait"}, NEW claimable \in Int,
           \A c \in Consumers : claimable <= m_lastPublished[c] + BufferSize,
           claimable >= m_nextSequenceToClaim,
           TakeRange(p, claimable), UNCHANGED <<m_lastPublished, readerVars>>
    PROVE  SafetyInv'
<1> DEFINE taken == Smaller(count, difference(claimable, m_nextSequenceToClaim) + 1)
<1>1. /\ m_nextSequenceToClaim \in Int /\ count \in Nat /\ p \in Threads
      /\ \A c \in Consumers : m_lastPublished[c] \in Int
      /\ m_lastPublished[ReadBarrier] \in Int
  BY Constants, Words DEF TypeOK
<1>2. difference(claimable, m_nextSequenceToClaim) = claimable - m_nextSequenceToClaim
  <2>1. PICK c \in Consumers : TRUE
    BY SomeThreads
  <2>2. m_lastPublished[c] < m_nextSequenceToClaim /\ claimable <= m_lastPublished[c] + BufferSize
    BY <2>1, Window, Constants
  <2>3. claimable - m_nextSequenceToClaim < HalfModulus
    BY <1>1, <2>1, <2>2, Constants
  <2> QED
    BY <1>1, <2>3, Constants, DifferenceExact
<1>3. taken \in Nat /\ taken <= claimable - m_nextSequenceToClaim + 1
  BY <1>1, <1>2 DEF Smaller
<1>4. /\ sequence' = m_nextSequenceToClaim /\ size' = taken
      /\ m_nextSequenceToClaim' = m_nextSequenceToClaim + taken
      /\ Goto(p, IF taken = 0 THEN "idle" ELSE "write")
  BY DEF TakeRange
<1> HIDE DEF taken
<1>5. /\ pc'[p] = IF taken = 0 THEN "idle" ELSE "write"
      /\ idx'[p] = 0 /\ \A t \in Threads \ {p} : Still(t)
  BY <1>1, <1>4, GotoStill, TypesOfScans
<1>6. m_nextSequenceToClaim = m_lastPublished[ReadBarrier] + 1
  BY DEF SafetyInv, ProducerInv, ProducerKnows
<1>7. ProducerKnows(p)'
  BY <1>1, <1>3, <1>4, <1>5, <1>6 DEF ProducerKnows
<1>8. m_nextSequenceToClaim' >= m_nextSequenceToClaim
  BY <1>1, <1>3, <1>4
<1>9. \A c \in Consumers : m_nextSequenceToClaim' <= m_lastPublished[c] + BufferSize + 1
  BY <1>1, <1>3, <1>4, Constants
<1> QED
  BY <1>5, <1>7, <1>8, <1>9, ProducerMoves

\* A step of a call that leaves the counter alone: the call fails, or goes on.
LEMMA ClaimGoesOn ==
    ASSUME TypeOK, TypeOK', SafetyInv, NEW p \in Producers,
           pc[p] \in {"claimWait", "tryScan", "timedWait"},
           \A t \in Threads \ {p} : Still(t),
           UNCHANGED <<m_lastPublished, readerVars, m_nextSequenceToClaim>>,
           pc'[p] \in {"idle", "claimWait", "tryScan", "timedWait"},
           pc'[p] \in {"claimWait", "timedWait"} =>
               ScannedSoFar(p, ClaimBarriers, ClaimFloor)',
           pc'[p] = "tryScan" =>
               /\ \A i \in 1 .. idx'[p] : acc'[p] <= m_lastPublished[ClaimBarriers[i]]
               /\ idx'[p] > 0 => m_nextSequenceToClaim - BufferSize - 1 <= acc'[p]
    PROVE  SafetyInv'
<1>1. m_nextSequenceToClaim = m_lastPublished[ReadBarrier] + 1
  BY DEF SafetyInv, ProducerInv, ProducerKnows
<1>2. ProducerKnows(p)'
  BY <1>1 DEF ProducerKnows
<1>3. \A c \in Consumers : m_nextSequenceToClaim <= m_lastPublished[c] + BufferSize + 1
  BY DEF SafetyInv, BarriersInv
<1>4. m_nextSequenceToClaim' >= m_nextSequenceToClaim
  BY Words
<1> QED
  BY <1>2, <1>3, <1>4, ProducerMoves

LEMMA ClaimWaitSafe ==
    ASSUME TypeOK, TypeOK', SafetyInv, NEW p \in Producers, ClaimWait(p)
    PROVE  SafetyInv'
<1> DEFINE result == ScanResult(p, ClaimBarriers, ClaimFloor)
<1>1. /\ p \in Threads /\ pc[p] \in {"claimWait", "timedWait"} /\ pc[p] \in Scanning
      /\ ClaimBarriers = ScannedGroup(p, pc[p]) /\ ClaimBarriers \in Seq(Barriers)
      /\ m_nextSequenceToClaim \in Int /\ ClaimFloor \in Int
      /\ ClaimFloor = m_nextSequenceToClaim - BufferSize
  BY GroupTypes, Words, Constants DEF ClaimWait, Scanning, ScannedGroup, ClaimFloor
<1>2. ScannedSoFar(p, ClaimBarriers, ClaimFloor)
  BY <1>1 DEF SafetyInv, ProducerInv, ProducerKnows
<1>3. Comparable(ClaimBarriers, ClaimFloor)
  <2> SUFFICES ASSUME NEW b \in Elems(ClaimBarriers)
               PROVE  /\ -HalfModulus <= m_lastPublished[b] - ClaimFloor
                      /\ m_lastPublished[b] - ClaimFloor < HalfModulus
    BY DEF Comparable
  <2>1. b \in Barriers
    BY <1>1 DEF Elems
  <2>2. /\ m_lastPublished[b] \in Int /\ m_lastPublished[b] < m_nextSequenceToClaim
        /\ m_nextSequenceToClaim <= m_lastPublished[b] + BufferSize + 1
    BY <2>1, Window
  <2>3. /\ ClaimFloor = m_nextSequenceToClaim - BufferSize
        /\ m_nextSequenceToClaim \in Int
        /\ BufferSize \in Nat /\ HalfModulus \in Nat /\ BufferSize < HalfModulus
    BY <1>1, Constants
  <2> QED
    BY <2>2, <2>3
<1>4. UNCHANGED readerVars
  BY DEF ClaimWait
<1>5. CASE /\ \/ Rescan(p, ClaimBarriers, ClaimFloor)
              \/ ScanOn(p, ClaimBarriers, ClaimFloor)
           /\ UNCHANGED claimVars
  <2>1. /\ pc' = pc /\ UNCHANGED <<m_lastPublished, timed>>
        /\ \A u \in Threads \ {p} : Still(u)
        /\ \A i \in 1 .. idx'[p] :
              acc'[p] >= 0 /\ ClaimFloor + acc'[p] <= m_lastPublished'[ClaimBarriers[i]]
    BY <1>1, <1>2, <1>3, <1>5, ScanStep, TypesOfScans
  <2>2. ScannedSoFar(p, ClaimBarriers, ClaimFloor)'
    BY <1>5, <2>1 DEF ScannedSoFar, ClaimFloor, claimVars
  <2> QED
    BY <1>1, <1>4, <1>5, <2>1, <2>2, ClaimGoesOn DEF claimVars
<1>6. CASE /\ ScanDone(p, ClaimBarriers, ClaimFloor)
           /\ TakeRange(p, result + BufferSize)
           /\ UNCHANGED m_lastPublished
  <2>1. /\ result \in Int /\ ClaimFloor <= result
        /\ \A b \in Elems(ClaimBarriers) : result <= m_lastPublished[b]
    BY <1>1, <1>2, <1>3, <1>6, ScanDoneBounds, TypesOfScans
  <2> HIDE DEF result
  <2>2. \A c \in Consumers : result <= m_lastPublished[c]
    BY <2>1, GatesCoverAll
  <2>3. /\ result + BufferSize \in Int /\ result + BufferSize >= m_nextSequenceToClaim
        /\ \A c \in Consumers : result + BufferSize <= m_lastPublished[c] + BufferSize
    BY <1>1, <2>1, <2>2, Words, Constants
  <2> QED
    BY <1>1, <1>4, <1>6, <2>3, TakeRangeSafe
<1>7. CASE ClaimFails(p) /\ UNCHANGED m_lastPublished
  <2>1. pc'[p] = "idle" /\ \A t \in Threads \ {p} : Still(t)
    BY <1>1, <1>7, GotoStill, TypesOfScans DEF ClaimFails
  <2> QED
    BY <1>1, <1>4, <1>7, <2>1, ClaimGoesOn DEF ClaimFails
<1> QED
  BY <1>5, <1>6, <1>7 DEF ClaimWait

LEMMA TryClaimScanSafe ==
    ASSUME TypeOK, TypeOK', SafetyInv, NEW p \in Producers, TryClaimScan(p)
    PROVE  SafetyInv'
<1> DEFINE l == Loaded(p, ClaimBarriers)
           m == MinimumNow(p, ClaimBarriers)
           next == m_nextSequenceToClaim
<1>1. /\ p \in Threads /\ pc[p] = "tryScan" /\ pc[p] \in Scanning
      /\ ClaimBarriers = ScannedGroup(p, pc[p]) /\ ClaimBarriers \in Seq(Barriers)
      /\ idx[p] \in Nat /\ acc[p] \in Int /\ next \in Int
  BY GroupTypes, Words, Constants DEF TryClaimScan, Scanning, ScannedGroup
<1>n. /\ next \in Int /\ acc[p] \in Int /\ BufferSize \in Nat /\ HalfModulus \in Nat
      /\ BufferSize < HalfModulus
  BY <1>1, Constants
<1>2. \A i \in 1 .. idx[p] + 1 : ClaimBarriers[i] \in Barriers
  BY <1>1, ScannedBarrier, TypesOfScans
<1>3. \A i \in 1 .. idx[p] + 1 :
         /\ m_lastPublished[ClaimBarriers[i]] \in Int
         /\ m_lastPublished[ClaimBarriers[i]] < next
         /\ next <= m_lastPublished[ClaimBarriers[i]] + BufferSize + 1
  BY <1>2, Window
<1>4. l \in Int /\ l < next /\ next <= l + BufferSize + 1
  BY <1>1, <1>3 DEF Loaded
<1>5. /\ \A i \in 1 .. idx[p] : acc[p] <= m_lastPublished[ClaimBarriers[i]]
      /\ idx[p] > 0 => next - BufferSize - 1 <= acc[p]
  BY <1>1 DEF SafetyInv, ProducerInv, ProducerKnows
<1>6. idx[p] > 0 => -HalfModulus <= l - acc[p] /\ l - acc[p] < HalfModulus
  <2> SUFFICES ASSUME idx[p] > 0
               PROVE  -HalfModulus <= l - acc[p] /\ l - acc[p] < HalfModulus
    OBVIOUS
  <2>1. 1 \in 1 .. idx[p] /\ 1 \in 1 .. idx[p] + 1
    BY <1>1
  <2>2. /\ acc[p] <= m_lastPublished[ClaimBarriers[1]]
        /\ m_lastPublished[ClaimBarriers[1]] < next
        /\ m_lastPublished[ClaimBarriers[1]] \in Int
    BY <1>3, <1>5, <2>1
  <2>3. next - BufferSize - 1 <= acc[p]
    BY <1>5
  <2> HIDE DEF l, next
  <2> QED
    BY <1>4, <1>n, <2>2, <2>3
<1>7. /\ m \in Int
      /\ \A i \in 1 .. idx[p] + 1 : m <= m_lastPublished[ClaimBarriers[i]]
      /\ m = l \/ (idx[p] > 0 /\ m = acc[p])
  BY <1>1, <1>5, <1>6, MinimumBounds, TypesOfScans
<1> HIDE DEF m, l, next
<1>8. next - BufferSize - 1 <= m
  BY <1>4, <1>5, <1>7, <1>n
<1>9. m < next
  <2>1. idx[p] + 1 \in 1 .. idx[p] + 1
    BY <1>1
  <2> QED
    BY <2>1, <1>3, <1>7, <1>n
<1>10. difference(m + BufferSize, next) = m + BufferSize - next
  <2> DEFINE claimable == m + BufferSize
  <2>1. /\ claimable \in Int /\ -HalfModulus <= claimable - next
        /\ claimable - next < HalfModulus
    BY <1>7, <1>8, <1>9, <1>n
  <2> HIDE DEF claimable
  <2>2. difference(claimable, next) = claimable - next
    BY <2>1, <1>n, DifferenceExact
  <2> QED
    BY <2>2, <1>7, <1>n DEF claimable
<1>11. UNCHANGED <<m_lastPublished, readerVars>>
  BY DEF TryClaimScan
<1>12. CASE /\ ~IsLastLoad(p, ClaimBarriers) /\ Again(p, m)
            /\ UNCHANGED <<timed, claimVars>>
  <2>1. /\ pc'[p] = "tryScan" /\ idx'[p] = idx[p] + 1 /\ acc'[p] = m
        /\ \A t \in Threads \ {p} : Still(t)
    BY <1>1, <1>12 DEF Again, Still, TypeOK
  <2> QED
    BY <1>1, <1>7, <1>8, <1>11, <1>12, <2>1, ClaimGoesOn DEF claimVars, next
<1>13. CASE /\ IsLastLoad(p, ClaimBarriers)
            /\ difference(m + BufferSize, next) >= 0
            /\ TakeRange(p, m + BufferSize)
  <2>1. \A g \in Elems(ClaimBarriers) : m <= m_lastPublished[g]
    BY <1>1, <1>7, <1>13 DEF IsLastLoad, Elems
  <2>2. \A c \in Consumers : m <= m_lastPublished[c]
    BY <1>7, <2>1, GatesCoverAll
  <2>3. /\ m + BufferSize \in Int /\ m + BufferSize >= next
        /\ \A c \in Consumers : m + BufferSize <= m_lastPublished[c] + BufferSize
    <3>1. m + BufferSize >= next
      BY <1>7, <1>10, <1>13, <1>n
    <3> QED
      BY <3>1, <1>7, <1>n, <2>2, Words, Constants
  <2> QED
    BY <1>1, <1>11, <1>13, <2>3, TakeRangeSafe DEF next
<1>14. CASE ClaimFails(p)
  <2>1. pc'[p] = "idle" /\ \A t \in Threads \ {p} : Still(t)
    BY <1>1, <1>14, GotoStill, TypesOfScans DEF ClaimFails
  <2> QED
    BY <1>1, <1>11, <1>14, <2>1, ClaimGoesOn DEF ClaimFails
<1>15. CASE Goto(p, "timedWait") /\ UNCHANGED <<timed, claimVars>>
  <2>1. pc'[p] = "timedWait" /\ idx'[p] = 0 /\ \A t \in Threads \ {p} : Still(t)
    BY <1>1, <1>15, GotoStill, TypesOfScans
  <2>2. ScannedSoFar(p, ClaimBarriers, ClaimFloor)'
    BY <2>1 DEF ScannedSoFar
  <2> QED
    BY <1>1, <1>11, <1>15, <2>1, <2>2, ClaimGoesOn DEF claimVars
<1> QED
  BY <1>12, <1>13, <1>14, <1>15 DEF TryClaimScan, m, next

LEMMA WriteItemSafe ==
    ASSUME TypeOK, TypeOK', SafetyInv, NEW p \in Producers, WriteItem(p)
    PROVE  SafetyInv'
<1> DEFINE s == RangeAt(sequence, idx[p])
<1>1. /\ p \in Threads /\ pc[p] = "write" /\ idx[p] \in Nat /\ sequence \in Int
      /\ size \in Nat /\ m_nextSequenceToClaim \in Int /\ m_lastPublished[ReadBarrier] \in Int
  BY Words, Constants DEF WriteItem
<1>2. /\ sequence = m_lastPublished[ReadBarrier] + 1
      /\ m_nextSequenceToClaim = sequence + size /\ idx[p] < size
  BY <1>1 DEF SafetyInv, ProducerInv, ProducerKnows
<1>3. m_nextSequenceToClaim <= m_lastPublished[ReadBarrier] + BufferSize + 1
  BY Window, Constants
<1>4. /\ s \in Int /\ s = sequence + idx[p] /\ Slot(s) \in Slots
  BY <1>1, SlotType DEF RangeAt
<1>5. /\ UNCHANGED <<m_lastPublished, nextToRead, target, available, claimVars>>
      /\ buffer'[Slot(s)] = s
      /\ \A k \in Slots \ {Slot(s)} : buffer'[k] = buffer[k]
  BY <1>4 DEF WriteItem, TypeOK
<1> HIDE DEF s
<1>6. /\ \/ idx[p] + 1 = size /\ pc'[p] = "publish" /\ idx'[p] = 0
         \/ idx[p] + 1 # size /\ pc'[p] = "write" /\ idx'[p] = idx[p] + 1
      /\ \A t \in Threads \ {p} : Still(t)
  BY <1>1 DEF WriteItem, Goto, Again, Still, TypeOK
<1>7. (\A c \in Consumers : Still(c)) /\ \A q \in Producers : q = p
  BY <1>6, Constants
<1>8. ReaderInv' /\ BarriersInv'
  <2>1. \A c \in Consumers : m_nextSequenceToClaim <= m_lastPublished[c] + BufferSize + 1
    BY DEF SafetyInv, BarriersInv
  <2>2. m_lastPublished'[ReadBarrier] >= m_lastPublished[ReadBarrier]
    BY <1>1, <1>5
  <2> QED
    BY <1>5, <1>7, <2>1, <2>2, ReadersStay DEF claimVars
<1>9. PlacesInv'
  BY <1>6, <1>7 DEF SafetyInv, PlacesInv, Still
<1>10. ProducerInv'
  <2>1. ProducerKnows(p)'
    BY <1>1, <1>2, <1>5, <1>6 DEF ProducerKnows, claimVars
  <2> QED
    BY <1>7, <2>1 DEF ProducerInv
<1>11. ASSUME NEW u \in Int, u < s, s < u + BufferSize
       PROVE  buffer'[Slot(u)] = buffer[Slot(u)]
  <2>1. Slot(u) # Slot(s)
    BY <1>4, <1>11, SlotApart, Constants
  <2> QED
    BY <1>5, <2>1, SlotType
<1>12. ASSUME NEW u \in 0 .. m_lastPublished[ReadBarrier],
              m_nextSequenceToClaim <= u + BufferSize
       PROVE  buffer'[Slot(u)] = u
  <2>1. u \in Int /\ u < s /\ s < u + BufferSize
    BY <1>1, <1>2, <1>4, <1>12, Constants
  <2>2. buffer[Slot(u)] = u
    BY <1>12 DEF SafetyInv, ItemsInv
  <2> QED
    BY <2>1, <2>2, <1>11
<1>13. ASSUME NEW i \in 0 .. idx[p]
       PROVE  buffer'[Slot(RangeAt(sequence, i))] = RangeAt(sequence, i)
  <2>1. CASE i = idx[p]
    BY <2>1, <1>5 DEF s
  <2>2. CASE i # idx[p]
    <3> DEFINE u == RangeAt(sequence, i)
    <3>1. i \in 0 .. idx[p] - 1
      BY <1>1, <2>2
    <3>2. buffer[Slot(u)] = u
      BY <1>1, <3>1 DEF SafetyInv, ItemsInv
    <3>3. u \in Int /\ u = sequence + i
      BY <1>1, <3>1 DEF RangeAt
    <3> HIDE DEF u
    <3>4. u < s /\ s < u + BufferSize
      BY <1>1, <1>2, <1>3, <1>4, <3>1, <3>3, Constants
    <3>5. buffer'[Slot(u)] = u
      BY <3>2, <3>3, <3>4, <1>11
    <3> QED
      BY <3>5 DEF u
  <2> QED
    BY <2>1, <2>2
<1>14. ItemsInv'
  <2>1. /\ pc'[p] = "write" => \A i \in 0 .. idx'[p] - 1 : i \in 0 .. idx[p]
        /\ pc'[p] = "publish" => \A i \in 0 .. size' - 1 : i \in 0 .. idx[p]
    BY <1>1, <1>5, <1>6 DEF claimVars
  <2> QED
    BY <1>5, <1>7, <1>12, <1>13, <2>1 DEF ItemsInv, claimVars
<1> QED
  BY <1>8, <1>9, <1>10, <1>14 DEF SafetyInv

LEMMA PublishSafe ==
    ASSUME TypeOK, TypeOK', SafetyInv, NEW p \in Producers, Publish(p)
    PROVE  SafetyInv'
<1>1. /\ p \in Threads /\ pc[p] = "publish" /\ idx[p] \in Nat /\ sequence \in Int
      /\ size \in Nat /\ m_nextSequenceToClaim \in Int /\ m_lastPublished[ReadBarrier] \in Int
  BY Words, Constants DEF Publish
<1>2. /\ sequence = m_lastPublished[ReadBarrier] + 1
      /\ m_nextSequenceToClaim = sequence + size /\ idx[p] < size
  BY <1>1 DEF SafetyInv, ProducerInv, ProducerKnows
<1>3. /\ m_lastPublished'[ReadBarrier] = m_nextSequenceToClaim - 1
      /\ \A c \in Consumers : m_lastPublished'[c] = m_lastPublished[c]
      /\ UNCHANGED <<readerVars, m_nextSequenceToClaim>>
  BY <1>1, <1>2, Constants DEF Publish, PublishBarrier, TypeOK, RangeLast, RangeEnd
<1>4. pc'[p] = "idle" /\ \A t \in Threads \ {p} : Still(t)
  BY <1>1, GotoStill, TypesOfScans DEF Publish
<1>5. (\A c \in Consumers : Still(c)) /\ \A q \in Producers : q = p
  BY <1>4, Constants
<1>6. ReaderInv' /\ BarriersInv'
  <2>1. \A c \in Consumers : m_nextSequenceToClaim <= m_lastPublished[c] + BufferSize + 1
    BY DEF SafetyInv, BarriersInv
  <2>2. m_lastPublished'[ReadBarrier] >= m_lastPublished[ReadBarrier]
    BY <1>1, <1>2, <1>3
  <2> QED
    BY <1>3, <1>5, <2>1, <2>2, ReadersStay DEF readerVars
<1>7. PlacesInv'
  BY <1>4, <1>5 DEF SafetyInv, PlacesInv, Still
<1>8. ProducerInv'
  BY <1>1, <1>3, <1>4, <1>5 DEF ProducerInv, ProducerKnows
<1>9. ASSUME NEW s \in 0 .. m_lastPublished'[ReadBarrier],
             m_nextSequenceToClaim <= s + BufferSize
      PROVE  buffer[Slot(s)] = s
  <2>1. CASE s <= m_lastPublished[ReadBarrier]
    <3>1. s \in 0 .. m_lastPublished[ReadBarrier]
      BY <1>1, <1>3, <2>1
    <3> QED
      BY <1>9, <3>1 DEF SafetyInv, ItemsInv
  <2>2. CASE s > m_lastPublished[ReadBarrier]
    <3>1. s - sequence \in 0 .. size - 1 /\ RangeAt(sequence, s - sequence) = s
      BY <1>1, <1>2, <1>3, <2>2 DEF RangeAt
    <3>2. buffer[Slot(RangeAt(sequence, s - sequence))] = RangeAt(sequence, s - sequence)
      BY <1>1, <3>1 DEF SafetyInv, ItemsInv
    <3> QED
      BY <3>1, <3>2
  <2> QED
    BY <1>1, <1>3, <2>1, <2>2
<1>10. ItemsInv'
  BY <1>3, <1>4, <1>5, <1>9 DEF ItemsInv, readerVars
<1> QED
  BY <1>6, <1>7, <1>8, <1>10 DEF SafetyInv

LEMMA ProducerStepSafe ==
    ASSUME TypeOK, TypeOK', SafetyInv, NEW p \in Producers,
           ClaimBegin(p) \/ ProducerWorks(p)
    PROVE  SafetyInv'
BY ClaimBeginSafe, ClaimWaitSafe, TryClaimScanSafe, WriteItemSafe, PublishSafe
   DEF ProducerWorks

LEMMA SafetyStutters ==
    ASSUME SafetyInv, UNCHANGED vars
    PROVE  SafetyInv'
<1> USE DEF vars, barrierVars, readerVars, claimVars
<1>1. PlacesInv' /\ BarriersInv'
  BY DEF SafetyInv, PlacesInv, BarriersInv
<1>2. ReaderInv'
  BY DEF SafetyInv, ReaderInv, ReaderKnows, ScannedSoFar
<1>3. ProducerInv'
  BY DEF SafetyInv, ProducerInv, ProducerKnows, ScannedSoFar, ClaimFloor
<1>4. ItemsInv'
  BY DEF SafetyInv, ItemsInv
<1> QED
  BY <1>1, <1>2, <1>3, <1>4 DEF SafetyInv

-----------------------------------------------------------------------------
(***************************************************************************)
(* The theorems.  They hold of Spec alone: no window has to be assumed.    *)
(***************************************************************************)

\* One access to shared memory of a claim, a publish or a wait, or none.
LEMMA SafetyStep ==
    ASSUME TypeOK, TypeOK', SafetyInv, [Next]_vars
    PROVE  SafetyInv'
<1>1. CASE \E p \in Producers : ClaimBegin(p) \/ ProducerWorks(p)
  BY <1>1, ProducerStepSafe
<1>2. CASE \E c \in Consumers : ReaderBegins(c) \/ ConsumerWorks(c)
  BY <1>2, ReaderStepSafe
<1>3. CASE Terminated \/ UNCHANGED vars
  BY <1>3, SafetyStutters DEF Terminated
<1> QED
  BY <1>1, <1>2, <1>3 DEF Next

\* SafetyInv is inductive: however many readers there are, however they wait for
\* each other and however long a thread sleeps, every access to shared memory of
\* claim, try_claim, publish and wait_until_published preserves it.
THEOREM Safety == Spec => []SafetyInv
BY SafetyInit, SafetyStep, TypeCorrectness, PTL DEF Spec

\* The producer writes no slot a reader has been told of and has not read.
THEOREM SlotsAreExclusive == Spec => []SlotExclusion
BY Safety, TypeCorrectness, InvImpliesSlotExclusion, PTL

\* wait_until_published never reports a sequence whose item is not in its slot.
THEOREM AvailableItemsAreWritten == Spec => []AvailableIsWritten
BY Safety, TypeCorrectness, InvImpliesAvailableIsWritten, PTL

\* A claim returns no sequence more than a lap ahead of any reader, those that
\* gate the producer only through other readers included.
THEOREM ClaimsStayWithinBuffer == Spec => []ClaimsWithinBuffer
BY Safety, TypeCorrectness, InvImpliesClaimsWithinBuffer, PTL

\* No reader overtakes the readers it waits for, directly or through others, nor
\* the read barrier, although each wait looks at its own group only.
THEOREM CursorsKeepOrder == Spec => []CursorsInOrder
BY Safety, InvImpliesCursorsInOrder, PTL

-----------------------------------------------------------------------------
(***************************************************************************)
(* The strategy implements the broadcast ring.                             *)
(***************************************************************************)

\* The range, when there is one.
LEMMA HeldIs ==
    ASSUME NEW p \in Producers
    PROVE  Held = IF pc[p] \in {"write", "publish"}
                  THEN sequence .. RangeLast(sequence, size) ELSE {}
BY Constants DEF Held

LEMMA RingInit == Init => Ring!Init
<1> SUFFICES ASSUME Init PROVE Ring!Init
  OBVIOUS
<1> USE DEF Init, BarriersInit, ReadersInit
<1>1. Held = {}
  BY Constants DEF Held
<1>2. 0 .. m_lastPublished[ReadBarrier] = {}
  BY Constants
<1>3. [c \in Consumers |-> m_lastPublished[c]] = [c \in Consumers |-> -1]
  BY Constants
<1> QED
  BY <1>1, <1>2, <1>3 DEF Ring!Init, Slots, NoItem

\* What the producer holds was free to be granted.
HeldGrantable ==
    \A s \in Held : /\ s \in Nat /\ s \notin 0 .. m_lastPublished[ReadBarrier]
                    /\ \A c \in Consumers : s <= m_lastPublished[c] + BufferSize

LEMMA InvImpliesHeldGrantable == TypeOK /\ SafetyInv => HeldGrantable
<1> SUFFICES ASSUME TypeOK, SafetyInv, NEW s \in Held
             PROVE  /\ s \in Nat /\ s \notin 0 .. m_lastPublished[ReadBarrier]
                    /\ \A c \in Consumers : s <= m_lastPublished[c] + BufferSize
  BY DEF HeldGrantable
<1>1. s \in Int /\ m_lastPublished[ReadBarrier] < s
  BY HeldRange
<1>2. m_lastPublished[ReadBarrier] \in Int /\ m_lastPublished[ReadBarrier] >= -1
  BY Window, Constants
<1>3. \A c \in Consumers : s <= m_lastPublished[c] + BufferSize
  BY InvImpliesClaimsWithinBuffer DEF ClaimsWithinBuffer
<1> QED
  BY <1>1, <1>2, <1>3

\* A claim is a grant of the slots it returns, if it returns any, and nothing else
\* that the producer does before it publishes is visible in the ring.
LEMMA ClaimRefines ==
    ASSUME HeldGrantable', Held \subseteq Held',
           UNCHANGED <<m_lastPublished, buffer, nextToRead>>
    PROVE  Ring!Grant \/ UNCHANGED Ring!vars
<1>1. CASE Held' = Held
  BY <1>1 DEF Ring!vars
<1>2. CASE Held' # Held
  <2>1. \A s \in Held' \ Held : Ring!Grantable(s)
    BY DEF HeldGrantable, Ring!Grantable
  <2> QED
    BY <1>2, <2>1 DEF Ring!Grant
<1> QED
  BY <1>1, <1>2

LEMMA WriteItemRefines ==
    ASSUME TypeOK, SafetyInv, NEW p \in Producers, WriteItem(p)
    PROVE  Ring!Write
<1> DEFINE s == RangeAt(sequence, idx[p])
<1>1. /\ p \in Threads /\ pc[p] = "write" /\ idx[p] \in Nat /\ sequence \in Int
      /\ size \in Nat
  BY Words, Constants DEF WriteItem
<1>2. idx[p] < size
  BY <1>1 DEF SafetyInv, ProducerInv, ProducerKnows
<1>3. s \in Held
  BY <1>1, <1>2, HeldIs DEF RangeAt, RangeLast, RangeEnd
<1>4. pc'[p] \in {"write", "publish"} /\ UNCHANGED <<sequence, size>>
  BY <1>1 DEF WriteItem, Goto, Again, TypeOK, claimVars
<1>5. Held' = Held
  BY <1>1, <1>4 DEF Held
<1>6. /\ buffer' = [buffer EXCEPT ![s % BufferSize] = s]
      /\ UNCHANGED <<m_lastPublished, nextToRead>>
  BY DEF WriteItem, Slot
<1> QED
  BY <1>3, <1>5, <1>6 DEF Ring!Write, Ring!Cell

LEMMA PublishRefines ==
    ASSUME TypeOK, SafetyInv, NEW p \in Producers, Publish(p)
    PROVE  Ring!Publish
<1>1. /\ p \in Threads /\ pc[p] = "publish" /\ idx[p] \in Nat /\ sequence \in Int
      /\ size \in Nat /\ m_lastPublished[ReadBarrier] \in Int
      /\ m_lastPublished[ReadBarrier] >= -1
  BY Words, Window, Constants DEF Publish
<1>2. sequence = m_lastPublished[ReadBarrier] + 1 /\ idx[p] < size
  BY <1>1 DEF SafetyInv, ProducerInv, ProducerKnows
<1>3. \A s : s \in Held <=> s \in Int /\ sequence <= s /\ s <= sequence + size - 1
  BY <1>1, HeldIs DEF RangeLast, RangeEnd
<1>4. pc'[p] = "idle"
  BY <1>1 DEF Publish, Goto, TypeOK
<1>5. Held' = {}
  BY <1>4, Constants DEF Held
<1>6. /\ m_lastPublished'[ReadBarrier] = sequence + size - 1
      /\ \A c \in Consumers : m_lastPublished'[c] = m_lastPublished[c]
      /\ UNCHANGED <<buffer, nextToRead>>
  BY Constants DEF Publish, PublishBarrier, TypeOK, RangeLast, RangeEnd, readerVars
<1>7. Held # {} /\ Held' = Held \ Held
  <2>1. sequence \in Held
    BY <1>1, <1>2, <1>3
  <2> QED
    BY <2>1, <1>5
<1>8. \A s \in Held : buffer[s % BufferSize] = s
  <2> SUFFICES ASSUME NEW s \in Held PROVE buffer[s % BufferSize] = s
    OBVIOUS
  <2>1. s - sequence \in 0 .. size - 1 /\ RangeAt(sequence, s - sequence) = s
    BY <1>1, <1>3 DEF RangeAt
  <2>2. buffer[Slot(RangeAt(sequence, s - sequence))] = RangeAt(sequence, s - sequence)
    BY <1>1, <2>1 DEF SafetyInv, ItemsInv
  <2> QED
    BY <2>1, <2>2 DEF Slot
<1>9. 0 .. m_lastPublished'[ReadBarrier] = (0 .. m_lastPublished[ReadBarrier]) \cup Held
  <2>1. \A s \in Int : s \in 0 .. m_lastPublished'[ReadBarrier]
                         <=> s \in 0 .. m_lastPublished[ReadBarrier] \/ s \in Held
    BY <1>1, <1>2, <1>3, <1>6
  <2>2. \A s \in Held : s \in Int
    BY <1>1, <1>3
  <2> QED
    BY <2>1, <2>2
<1>10. Held \in SUBSET Held
  OBVIOUS
<1> QED
  BY <1>6, <1>7, <1>8, <1>9, <1>10 DEF Ring!Publish, Ring!Cell

LEMMA ReadItemRefines ==
    ASSUME TypeOK, SafetyInv, NEW c \in Consumers, ReadItem(c),
           UNCHANGED claimVars
    PROVE  Ring!Read(c)
<1>1. /\ pc[c] = "read" /\ nextToRead[c] \in Int /\ available[c] \in Int
      /\ m_lastPublished[c] \in Int /\ m_lastPublished[ReadBarrier] \in Int
  BY Words, Constants DEF ReadItem
<1>2. /\ m_lastPublished[c] < nextToRead[c] /\ nextToRead[c] <= available[c]
      /\ available[c] <= m_lastPublished[ReadBarrier]
      /\ \A d \in Ancestors[c] : available[c] <= m_lastPublished[d]
  BY <1>1 DEF SafetyInv, ReaderInv, ReaderKnows
<1>3. nextToRead[c] \in 0 .. m_lastPublished[ReadBarrier]
  BY <1>1, <1>2, Window, Constants
<1>4. buffer[nextToRead[c] % BufferSize] = nextToRead[c]
  <2>1. nextToRead[c] \in Unread(c)
    BY <1>1, <1>2 DEF Unread
  <2> QED
    BY <2>1, InvImpliesAvailableIsWritten DEF AvailableIsWritten, Slot
<1>5. \A d \in Ancestors[c] : nextToRead[c] <= m_lastPublished[d] /\ d \in Consumers
  BY <1>1, <1>2, UpstreamMembers, Words
<1>6. \A q \in Producers : pc'[q] = pc[q]
  BY Constants DEF ReadItem, Goto, TypeOK
<1>7. Held' = Held
  BY <1>6 DEF Held, claimVars
<1>8. /\ nextToRead' = [nextToRead EXCEPT ![c] = @ + 1]
      /\ UNCHANGED <<m_lastPublished, buffer>>
  BY DEF ReadItem
<1> QED
  BY <1>3, <1>4, <1>5, <1>7, <1>8 DEF Ring!Read, Ring!Cell

\* A reader that publishes what it has published already changes nothing.
LEMMA PublishConsumedRefines ==
    ASSUME TypeOK, SafetyInv, NEW c \in Consumers, PublishConsumed(c),
           UNCHANGED claimVars
    PROVE  Ring!Release(c) \/ UNCHANGED Ring!vars
<1> DEFINE released == [d \in Consumers |-> m_lastPublished[d]]
<1>1. /\ pc[c] = "consumed" /\ nextToRead[c] \in Int /\ available[c] \in Int
      /\ m_lastPublished[c] \in Int
  BY Words, Constants DEF PublishConsumed
<1>2. m_lastPublished[c] < nextToRead[c] /\ nextToRead[c] = available[c] + 1
  BY <1>1 DEF SafetyInv, ReaderInv, ReaderKnows
<1>3. \A q \in Producers : pc'[q] = pc[q]
  BY Constants DEF PublishConsumed, Goto, TypeOK
<1>4. Held' = Held
  BY <1>3 DEF Held, claimVars
<1>5. /\ m_lastPublished' = [m_lastPublished EXCEPT ![c] = nextToRead[c] - 1]
      /\ UNCHANGED <<buffer, nextToRead>>
  <2>1. available[c] = nextToRead[c] - 1
    BY <1>1, <1>2
  <2> QED
    BY <2>1 DEF PublishConsumed, PublishBarrier, readerVars
<1>6. m_lastPublished'[ReadBarrier] = m_lastPublished[ReadBarrier]
  BY <1>5, Constants
<1>7. released' = [released EXCEPT ![c] = nextToRead[c] - 1]
  BY <1>5, Constants DEF TypeOK
<1>8. CASE m_lastPublished[c] < nextToRead[c] - 1
  BY <1>4, <1>5, <1>6, <1>7, <1>8 DEF Ring!Release
<1>9. CASE m_lastPublished[c] = nextToRead[c] - 1
  <2>1. released' = released
    BY <1>7, <1>9
  <2> QED
    BY <1>4, <1>5, <1>6, <2>1 DEF Ring!vars
<1> QED
  BY <1>1, <1>2, <1>8, <1>9

LEMMA RingStep ==
    ASSUME TypeOK, SafetyInv, HeldGrantable', [Next]_vars
    PROVE  Ring!Next \/ UNCHANGED Ring!vars
<1>1. ASSUME NEW p \in Producers, ClaimBegin(p) \/ ClaimWait(p) \/ TryClaimScan(p)
      PROVE  Ring!Next \/ UNCHANGED Ring!vars
  <2>1. /\ pc[p] \in {"idle", "claimWait", "tryScan", "timedWait"}
        /\ UNCHANGED <<m_lastPublished, readerVars>>
    BY <1>1 DEF ClaimBegin, ClaimWait, TryClaimScan, Rescan, ScanOn
  <2>2. Held = {}
    BY <2>1, HeldIs
  <2> QED
    BY <2>1, <2>2, ClaimRefines DEF Ring!Next, readerVars
<1>2. ASSUME NEW p \in Producers, WriteItem(p) \/ Publish(p)
      PROVE  Ring!Next
  BY <1>2, WriteItemRefines, PublishRefines DEF Ring!Next
<1>3. ASSUME NEW c \in Consumers, ReaderBegins(c) \/ (WaitUpstream(c) /\ UNCHANGED claimVars)
      PROVE  UNCHANGED Ring!vars
  <2>1. /\ UNCHANGED <<m_lastPublished, buffer, nextToRead, sequence, size>>
        /\ \E label : Goto(c, label) \/ \E value : Again(c, value)
    BY <1>3 DEF ReaderBegins, BeginWait, WaitUpstream, Rescan, ScanOn, BatchAvailable,
                WaitTimedOut, readerVars, claimVars
  <2>2. \A q \in Producers : pc'[q] = pc[q]
    BY <2>1, Constants DEF Goto, Again, TypeOK
  <2>3. Held' = Held
    BY <2>1, <2>2 DEF Held
  <2> QED
    BY <2>1, <2>3 DEF Ring!vars
<1>4. ASSUME NEW c \in Consumers, ReadItem(c) \/ PublishConsumed(c), UNCHANGED claimVars
      PROVE  Ring!Next \/ UNCHANGED Ring!vars
  BY <1>4, ReadItemRefines, PublishConsumedRefines DEF Ring!Next
<1>5. CASE UNCHANGED vars
  <2>1. Held' = Held
    BY <1>5 DEF Held, vars, barrierVars, claimVars
  <2> QED
    BY <1>5, <2>1 DEF Ring!vars, vars, barrierVars, readerVars
<1> QED
  BY <1>1, <1>2, <1>3, <1>4, <1>5
     DEF Next, ProducerWorks, ConsumerWorks, Terminated

\* One producer's counter, the read barrier and the readers' barriers, accessed one
\* load or store at a time, implement the ring in which a claim, a publication and a
\* read are each one step.
THEOREM Refinement == Spec => ImplementsRing
<1>1. TypeOK /\ SafetyInv /\ HeldGrantable' /\ [Next]_vars => [Ring!Next]_(Ring!vars)
  BY RingStep
<1> QED
  BY <1>1, RingInit, Safety, TypeCorrectness, InvImpliesHeldGrantable, PTL
     DEF Spec, ImplementsRing, Ring!Spec

=============================================================================
