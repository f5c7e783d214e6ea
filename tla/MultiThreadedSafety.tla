------------------------- MODULE MultiThreadedSafety -------------------------
(***************************************************************************)
(* SafetyInv is inductive while ActiveWindow holds, and implies the safety *)
(* properties of MultiThreadedClaimStrategy, for all constants.            *)
(***************************************************************************)
EXTENDS MultiThreadedInvariant, MultiThreadedTypes

(***************************************************************************)
(* What SafetyInv says of the sequences in play.                           *)
(***************************************************************************)

LEMMA Constants ==
    /\ BufferSize \in Nat \ {0}
    /\ HalfModulus \in Nat \ {0}
    /\ SeqModulus = 2 * HalfModulus
    /\ \A p \in Producers : p \in Threads /\ p \notin Consumers
    /\ \A c \in Consumers : c \in Threads /\ c \in Barriers /\ c \notin Producers
BY BufferSizeAssumption, HalfModulusAssumption, ThreadsAssumption, BarriersAssumption
   DEF SeqModulus

\* There is a reader: the claim barrier is not empty.
LEMMA SomeReader == \E c \in Consumers : TRUE
<1>1. ClaimBarriers[1] \in Consumers
  BY GroupTypes
<1> QED
  BY <1>1

\* The producer's position, as integers.
LEMMA HeldType ==
    ASSUME TypeOK, NEW p \in Producers
    PROVE  /\ sequence[p] \in Int /\ size[p] \in Nat /\ idx[p] \in Nat
           /\ \A s \in Reserved(p) : s \in Int
           /\ \A s \in Held(p) : s \in Reserved(p)
<1>1. sequence[p] \in Int /\ size[p] \in Nat /\ idx[p] \in Nat
  BY Constants DEF TypeOK
<1> QED
  BY <1>1 DEF Held, Reserved, RangeLast, RangeEnd

\* A sequence a producer holds is less than a lap ahead of every reader, and no
\* reader has passed it.
LEMMA HeldWindow ==
    ASSUME TypeOK, SafetyInv, NEW p \in Producers, NEW s \in Held(p),
           NEW c \in Consumers
    PROVE  /\ s \in Int /\ m_lastPublished[c] \in Int
           /\ m_lastPublished[c] < s
           /\ s <= m_lastPublished[c] + BufferSize
<1>1. s \in Int /\ s \in Reserved(p) /\ m_lastPublished[c] \in Int
  BY HeldType, Constants DEF TypeOK
<1>2. 0 <= s /\ ~Published(s) /\ s <= m_lastPublished[c] + BufferSize
  BY <1>1 DEF SafetyInv, ClaimInv
<1>3. ~(s \in -BufferSize .. m_lastPublished[c])
  BY <1>2 DEF SafetyInv, BarriersInv, PublishedUpTo
<1> QED
  BY <1>1, <1>2, <1>3, Constants

\* So no two of the sequences held at any time share a slot.
LEMMA HeldSlotsDistinct ==
    ASSUME TypeOK, SafetyInv,
           NEW p \in Producers, NEW q \in Producers,
           NEW s \in Held(p), NEW t \in Held(q), Slot(s) = Slot(t)
    PROVE  s = t
<1>1. PICK c \in Consumers : TRUE
  BY SomeReader
<1>2. /\ s \in Int /\ t \in Int /\ m_lastPublished[c] \in Int
      /\ m_lastPublished[c] < s /\ s <= m_lastPublished[c] + BufferSize
      /\ m_lastPublished[c] < t /\ t <= m_lastPublished[c] + BufferSize
  BY HeldWindow
<1> QED
  BY <1>2, SlotApart, Constants

\* Readers are behind the claim counter.
LEMMA ReaderBehind ==
    ASSUME TypeOK, SafetyInv, NEW x \in Int, x >= -1, PublishedUpTo(x)
    PROVE  x < m_nextClaimable
<1>1. x \in -BufferSize .. x
  BY Constants
<1>2. Published(x) /\ Slot(x) \in Slots
  BY <1>1, SlotType DEF PublishedUpTo
<1> QED
  BY <1>2 DEF Published, SafetyInv, EntriesInv, TypeOK

\* All barriers are readers', so a group is comparable when the readers are.
LEMMA GroupComparable ==
    ASSUME NEW group \in Seq(Barriers), NEW floor,
           \A c \in Consumers : /\ -HalfModulus <= m_lastPublished[c] - floor
                                /\ m_lastPublished[c] - floor < HalfModulus
    PROVE  /\ Comparable(group, floor)
           /\ \A b \in Elems(group) : b \in Consumers
BY BarriersAssumption DEF Comparable, Elems

-----------------------------------------------------------------------------
(***************************************************************************)
(* The properties follow from SafetyInv.                                   *)
(***************************************************************************)

LEMMA InvImpliesSlotExclusion ==
    ASSUME TypeOK, SafetyInv
    PROVE  SlotExclusion
<1>1. ASSUME NEW p \in Producers, NEW q \in Producers \ {p},
             NEW s \in Held(p), NEW t \in Held(q), Slot(s) = Slot(t)
      PROVE  FALSE
  <2>1. s = t
    BY <1>1, HeldSlotsDistinct
  <2>2. s \in Reserved(p) /\ t \in Reserved(q)
    BY <1>1, HeldType
  <2> QED
    BY <2>1, <2>2, <1>1 DEF SafetyInv, OwnersInv
<1>2. ASSUME NEW p \in Producers, NEW c \in Consumers,
             NEW s \in Held(p), NEW t \in Unread(c), Slot(s) = Slot(t)
      PROVE  FALSE
  <2>1. /\ s \in Int /\ m_lastPublished[c] \in Int
        /\ m_lastPublished[c] < s /\ s <= m_lastPublished[c] + BufferSize
    BY <1>2, HeldWindow
  <2>2. /\ pc[c] = "read" /\ t \in Int /\ nextToRead[c] <= t /\ t <= available[c]
        /\ nextToRead[c] \in Int /\ available[c] \in Int
    BY <1>2 DEF Unread, TypeOK
  <2>3. m_lastPublished[c] < t /\ PublishedUpTo(available[c])
    BY <2>1, <2>2 DEF SafetyInv, ReaderInv, ReaderKnows
  <2>4. 0 <= s /\ ~Published(s)
    BY <1>2, HeldType DEF SafetyInv, ClaimInv
  <2>5. ~(s <= available[c])
    BY <2>1, <2>2, <2>3, <2>4, Constants DEF PublishedUpTo
  <2>6. t < s
    BY <2>1, <2>2, <2>5
  <2>7. t + BufferSize <= s
    BY <2>1, <2>2, <2>6, <1>2, SlotApart
  <2> QED
    BY <2>1, <2>2, <2>3, <2>7, Constants
<1> QED
  BY <1>1, <1>2 DEF SlotExclusion, SlotsOf

\* The entry a producer is about to overwrite is that of the lap before.
LEMMA EntryBeforePublish ==
    ASSUME TypeOK, SafetyInv, NEW p \in Producers, NEW s \in Held(p)
    PROVE  m_published[Slot(s)] = s - BufferSize
<1> DEFINE e == m_published[Slot(s)]
<1>1. s \in Int
  BY HeldType
<1>2. PICK c \in Consumers : TRUE
  BY SomeReader
<1>3. m_lastPublished[c] \in Int /\ s <= m_lastPublished[c] + BufferSize
  BY <1>1, <1>2, HeldWindow
<1>4. 0 <= s /\ ~Published(s)
  BY <1>1, HeldType DEF SafetyInv, ClaimInv
<1>5. s - BufferSize \in Int /\ Published(s - BufferSize)
  BY <1>1, <1>3, <1>4, <1>2, Constants DEF SafetyInv, BarriersInv, PublishedUpTo
<1>6. Slot(s - BufferSize) = Slot(s) /\ Slot(s) \in Slots
  BY <1>1, SlotLap, SlotType
<1>7. e \in Int /\ Slot(e) = Slot(s)
  BY <1>6 DEF SafetyInv, EntriesInv, TypeOK
<1>8. s - BufferSize <= e /\ e < s
  BY <1>1, <1>4, <1>5, <1>6, <1>7 DEF Published
<1>9. e + BufferSize <= s
  BY <1>1, <1>7, <1>8, SlotApart
<1> QED
  BY <1>1, <1>7, <1>8, <1>9, Constants

LEMMA InvImpliesSetPublishedAssertion ==
    ASSUME TypeOK, SafetyInv
    PROVE  SetPublishedAssertion
<1> SUFFICES ASSUME NEW p \in Producers, pc[p] = "publish"
             PROVE  SameWord(m_published[Slot(RangeAt(sequence[p], idx[p]))],
                             RangeAt(sequence[p], idx[p]) - BufferSize)
  BY DEF SetPublishedAssertion
<1> DEFINE s == RangeAt(sequence[p], idx[p])
<1>1. s \in Int /\ s \in Held(p)
  <2>1. idx[p] < size[p]
    BY DEF SafetyInv, LimitInv, ProducerKnows
  <2> QED
    BY <2>1, HeldType DEF Held, RangeAt, RangeLast, RangeEnd
<1> HIDE DEF s
<1>2. m_published[Slot(s)] = s - BufferSize /\ s - BufferSize \in Int
  BY <1>1, EntryBeforePublish, Constants
<1>3. SameWord(s - BufferSize, s - BufferSize)
  BY <1>2, SameWordExact, Constants
<1> QED
  BY <1>2, <1>3 DEF s

LEMMA InvImpliesEveryClaimAccounted ==
    ASSUME TypeOK, SafetyInv
    PROVE  EveryClaimAccounted
<1> SUFFICES ASSUME NEW s \in 0 .. m_nextClaimable - 1
             PROVE  LET owners == {p \in Producers : s \in Reserved(p)}
                    IN  IF m_published[Slot(s)] >= s
                        THEN owners = {}
                        ELSE \E p \in Producers : owners = {p}
  BY DEF EveryClaimAccounted
<1> DEFINE owners == {p \in Producers : s \in Reserved(p)}
<1>1. CASE Published(s)
  <2>1. owners = {}
    BY <1>1 DEF SafetyInv, ClaimInv
  <2> QED
    BY <1>1, <2>1 DEF Published
<1>2. CASE ~Published(s)
  <2>1. PICK p \in Producers : s \in Reserved(p)
    BY <1>2 DEF SafetyInv, OwnersInv
  <2>2. owners = {p}
    BY <2>1 DEF SafetyInv, OwnersInv
  <2> QED
    BY <1>2, <2>2 DEF Published
<1> QED
  BY <1>1, <1>2

LEMMA InvImpliesAvailableIsWritten ==
    ASSUME TypeOK, SafetyInv
    PROVE  AvailableIsWritten
<1> SUFFICES ASSUME NEW c \in Consumers, NEW t \in Unread(c)
             PROVE  buffer[Slot(t)] = t
  BY DEF AvailableIsWritten
<1> DEFINE e == m_published[Slot(t)]
<1>1. /\ pc[c] = "read" /\ t \in Int /\ nextToRead[c] <= t /\ t <= available[c]
      /\ nextToRead[c] \in Int /\ available[c] \in Int /\ m_lastPublished[c] \in Int
  BY Constants DEF Unread, TypeOK
<1>2. /\ m_lastPublished[c] >= -1 /\ m_lastPublished[c] < t
      /\ PublishedUpTo(available[c])
  BY <1>1 DEF SafetyInv, ReaderInv, ReaderKnows, BarriersInv
<1>3. Slot(t) \in Slots /\ e \in Int /\ Slot(e) = Slot(t)
  BY <1>1, SlotType DEF SafetyInv, EntriesInv, TypeOK
<1>4. t <= e
  <2>1. t \in -BufferSize .. available[c]
    BY <1>1, <1>2, Constants
  <2> QED
    BY <2>1, <1>2 DEF PublishedUpTo, Published
<1>5. e <= m_lastPublished[c] + BufferSize
  BY <1>3 DEF SafetyInv, EntriesInv
<1>6. e = t
  <2> SUFFICES ASSUME t < e PROVE FALSE
    BY <1>1, <1>3, <1>4
  <2>1. t + BufferSize <= e
    BY <1>1, <1>3, SlotApart
  <2> QED
    BY <2>1, <1>1, <1>2, <1>3, <1>5, Constants
<1>7. ~\E p \in Producers : Slot(t) \in SlotsOf(Held(p))
  <2>1. SlotExclusion
    BY InvImpliesSlotExclusion
  <2> QED
    BY <2>1 DEF SlotExclusion, SlotsOf
<1> QED
  BY <1>1, <1>2, <1>3, <1>6, <1>7 DEF SafetyInv, ItemsInv

-----------------------------------------------------------------------------
(***************************************************************************)
(* SafetyInv holds initially.                                              *)
(***************************************************************************)

LEMMA SafetyInit == Init => SafetyInv
<1> SUFFICES ASSUME Init PROVE SafetyInv
  OBVIOUS
<1> USE DEF Init, BarriersInit, ReadersInit
<1>1. \A p \in Producers : pc[p] = "idle" /\ Reserved(p) = {} /\ Held(p) = {}
  BY Constants DEF Reserved, Held
<1>2. \A c \in Consumers :
        pc[c] = "idle" /\ m_lastPublished[c] = -1 /\ nextToRead[c] = 0
  BY Constants
<1>3. \A k \in Slots : m_published[k] = k - BufferSize /\ k \in 0 .. BufferSize - 1
  BY DEF PublishedInit, Slots
<1>4. \A k \in Slots : Slot(k - BufferSize) = k
  <2> SUFFICES ASSUME NEW k \in Slots PROVE Slot(k - BufferSize) = k
    OBVIOUS
  <2>1. k \in Int /\ k \in 0 .. BufferSize - 1
    BY Constants DEF Slots
  <2>2. Slot(k) = k
    BY <2>1, Constants DEF Slot
  <2> QED
    BY <2>1, <2>2, SlotLap
<1>5. PublishedUpTo(-1)
  <2> SUFFICES ASSUME NEW s \in -BufferSize .. -1
               PROVE  Published(s)
    BY DEF PublishedUpTo
  <2>1. s + BufferSize \in Slots /\ s + BufferSize \in Int /\ s \in Int
    BY Constants DEF Slots
  <2>2. Slot((s + BufferSize) - BufferSize) = s + BufferSize
    BY <2>1, <1>4
  <2>3. (s + BufferSize) - BufferSize = s
    BY Constants
  <2> QED
    BY <2>1, <2>2, <2>3, <1>3, Constants DEF Published
<1>6. EntriesInv
  BY <1>2, <1>3, <1>4, Constants DEF EntriesInv
<1>7. BarriersInv
  BY <1>2, <1>5, TopologyAssumption DEF BarriersInv
<1>8. ReaderInv
  BY <1>2 DEF ReaderInv, ReaderKnows
<1>9. LimitInv
  BY <1>1 DEF LimitInv, ProducerKnows, LimitIsSafe
<1>10. ClaimInv
  BY <1>1 DEF ClaimInv
<1>11. OwnersInv
  BY <1>1 DEF OwnersInv
<1>12. ItemsInv
  BY <1>1, <1>3, Constants DEF ItemsInv
<1> QED
  BY <1>6, <1>7, <1>8, <1>9, <1>10, <1>11, <1>12 DEF SafetyInv

-----------------------------------------------------------------------------
(***************************************************************************)
(* What other threads' steps leave alone.  Barriers, entries and the claim *)
(* counter only grow.                                                      *)
(***************************************************************************)

EntriesGrow  == \A k \in Slots : m_published'[k] >= m_published[k]
LEMMA PublishedStays ==
    ASSUME TypeOK, TypeOK', EntriesGrow, NEW x \in Int
    PROVE  /\ Published(x) => Published(x)'
           /\ PublishedUpTo(x) => PublishedUpTo(x)'
<1>1. ASSUME NEW s \in Int, Published(s)
      PROVE  Published(s)'
  <2>1. Slot(s) \in Slots
    BY SlotType
  <2>2. m_published[Slot(s)] \in Int /\ m_published'[Slot(s)] \in Int
    BY <2>1 DEF TypeOK
  <2> QED
    BY <1>1, <2>1, <2>2 DEF Published, EntriesGrow
<1> QED
  BY <1>1, Constants DEF PublishedUpTo

LEMMA ReaderStays ==
    ASSUME TypeOK, TypeOK', BarriersGrow, EntriesGrow,
           NEW c \in Consumers, ReaderKnows(c), Still(c),
           m_lastPublished'[c] = m_lastPublished[c], nextToRead'[c] = nextToRead[c],
           target'[c] = target[c], seq'[c] = seq[c], available'[c] = available[c]
    PROVE  ReaderKnows(c)'
<1>1. seq[c] - 1 \in Int /\ available[c] \in Int /\ target[c] \in Int /\ c \in Threads
  BY Constants DEF TypeOK
<1>2. Upstream[c] \in Seq(Barriers)
  BY GroupTypes
<1>3. pc[c] = "upstream" => ScannedSoFar(c, Upstream[c], target[c])'
  <2> SUFFICES ASSUME pc[c] = "upstream"
               PROVE  ScannedSoFar(c, Upstream[c], target[c])'
    OBVIOUS
  <2>1. pc[c] \in Scanning /\ Upstream[c] = ScannedGroup(c, pc[c])
    BY DEF Scanning, ScannedGroup
  <2>2. ScannedSoFar(c, Upstream[c], target[c])
    BY DEF ReaderKnows
  <2>3. \A i \in 1 .. idx[c] :
          acc[c] >= 0 /\ target[c] + acc[c] <= m_lastPublished'[Upstream[c][i]]
    BY <1>1, <1>2, <2>1, <2>2, ScannedStays, TypesOfScans
       DEF ScannedSoFar, Still, TypeOK, BarrierTypes
  <2> QED
    BY <2>3 DEF ScannedSoFar, Still
<1>4. pc[c] \in {"check", "await", "after"} => PublishedUpTo(seq[c] - 1)'
  BY <1>1, PublishedStays DEF ReaderKnows
<1>5. pc[c] \in {"read", "consumed"} => PublishedUpTo(available[c])'
  BY <1>1, PublishedStays DEF ReaderKnows
<1>6. pc[c] \in {"read", "consumed"} =>
        \A d \in Ancestors[c] : available[c] <= m_lastPublished'[d]
  BY <1>1, TopologyAssumption, Constants DEF ReaderKnows, BarriersGrow, TypeOK
<1> QED
  BY <1>3, <1>4, <1>5, <1>6 DEF ReaderKnows, Still, PublishedUpTo

LEMMA ProducerStays ==
    ASSUME TypeOK, TypeOK', BarriersGrow, m_nextClaimable' >= m_nextClaimable,
           NEW p \in Producers, ProducerKnows(p), Still(p),
           sequence'[p] = sequence[p], size'[p] = size[p], published'[p] = published[p]
    PROVE  ProducerKnows(p)'
<1>1. /\ sequence[p] \in Int /\ size[p] \in Nat /\ published[p] \in Int
      /\ m_nextClaimable \in Int /\ m_nextClaimable' \in Int
      /\ p \in Threads /\ acc[p] \in Int /\ BufferSize \in Nat
  BY Constants DEF TypeOK
<1>2. ClaimBarriers \in Seq(Barriers)
  BY GroupTypes
<1>3. \A floor \in Int :
        /\ pc[p] \in {"claimWait", "timedWait"}
        /\ ScannedSoFar(p, ClaimBarriers, floor)
        => \A i \in 1 .. idx[p] :
              acc[p] >= 0 /\ floor + acc[p] <= m_lastPublished'[ClaimBarriers[i]]
  <2> SUFFICES ASSUME NEW floor \in Int, pc[p] \in {"claimWait", "timedWait"},
                      ScannedSoFar(p, ClaimBarriers, floor)
               PROVE  \A i \in 1 .. idx[p] :
                        /\ acc[p] >= 0
                        /\ floor + acc[p] <= m_lastPublished'[ClaimBarriers[i]]
    OBVIOUS
  <2>1. pc[p] \in Scanning /\ ClaimBarriers = ScannedGroup(p, pc[p])
    BY DEF Scanning, ScannedGroup
  <2> QED
    BY <1>1, <1>2, <2>1, ScannedStays, TypesOfScans
       DEF ScannedSoFar, Still, TypeOK, BarrierTypes
<1>4. /\ ClaimFloor(sequence[p], size[p]) \in Int
      /\ sequence[p] - BufferSize \in Int
  BY <1>1 DEF ClaimFloor, RangeLast, RangeEnd
<1>5. pc[p] = "claimWait" =>
        ScannedSoFar(p, ClaimBarriers, ClaimFloor(sequence[p], size[p]))'
  BY <1>3, <1>4 DEF ProducerKnows, ScannedSoFar, Still, ClaimFloor, RangeLast, RangeEnd
<1>6. pc[p] = "timedWait" =>
        ScannedSoFar(p, ClaimBarriers, sequence[p] - BufferSize)'
  BY <1>3, <1>4 DEF ProducerKnows, ScannedSoFar, Still
<1>7. pc[p] = "tryScan" =>
        \A i \in 1 .. idx[p] : acc[p] <= m_lastPublished'[ClaimBarriers[i]]
  <2> SUFFICES ASSUME pc[p] = "tryScan", NEW i \in 1 .. idx[p]
               PROVE  acc[p] <= m_lastPublished'[ClaimBarriers[i]]
    OBVIOUS
  <2>1. pc[p] \in Scanning /\ ClaimBarriers = ScannedGroup(p, pc[p])
    BY DEF Scanning, ScannedGroup
  <2>2. i \in 1 .. idx[p] + 1
    BY <1>1 DEF TypeOK
  <2>3. ClaimBarriers[i] \in Consumers
    BY <1>1, <1>2, <2>1, <2>2, ScannedBarrier, TypesOfScans, BarriersAssumption
  <2>4. /\ m_lastPublished[ClaimBarriers[i]] \in Int
        /\ m_lastPublished'[ClaimBarriers[i]] \in Int
    BY <2>3, Constants DEF TypeOK
  <2> QED
    BY <1>1, <2>3, <2>4, Constants DEF ProducerKnows, LimitIsSafe, BarriersGrow
<1>8. pc[p] \in {"tryLoad", "tryCas"} => \A c \in Consumers :
        published[p] <= m_lastPublished'[c] + BufferSize
  <2> SUFFICES ASSUME pc[p] \in {"tryLoad", "tryCas"}, NEW c \in Consumers
               PROVE  published[p] <= m_lastPublished'[c] + BufferSize
    OBVIOUS
  <2>1. m_lastPublished[c] \in Int /\ m_lastPublished'[c] \in Int
    BY Constants DEF TypeOK
  <2> QED
    BY <1>1, <2>1, Constants DEF ProducerKnows, LimitIsSafe, BarriersGrow
<1>9. LimitIsSafe(p)'
  BY <1>7, <1>8 DEF LimitIsSafe, Still
<1> QED
  BY <1>1, <1>5, <1>6, <1>9 DEF ProducerKnows, Still, RangeLast, RangeEnd

\* A step that changes neither the claims nor the entries nor the items.
LEMMA ClaimsStay ==
    ASSUME TypeOK, TypeOK', SafetyInv, BarriersGrow,
           UNCHANGED <<m_nextClaimable, m_published, buffer>>,
           \A q \in Producers : Reserved(q)' = Reserved(q) /\ Held(q)' = Held(q),
           \A q \in Producers : pc'[q] \in {"write", "publish"} =>
                                    Still(q) /\ sequence'[q] = sequence[q]
    PROVE  /\ m_nextClaimable' >= 0
           /\ EntriesInv' /\ ClaimInv' /\ OwnersInv' /\ ItemsInv'
<1>0. \A c \in Consumers : m_lastPublished[c] \in Int /\ m_lastPublished'[c] \in Int
  BY Constants DEF TypeOK
<1>1. EntriesInv'
  <2> SUFFICES ASSUME NEW k \in Slots
               PROVE  /\ Slot(m_published[k]) = k
                      /\ m_published[k] < m_nextClaimable
                      /\ \A c \in Consumers :
                            m_published[k] <= m_lastPublished'[c] + BufferSize
    BY DEF EntriesInv
  <2>1. m_published[k] \in Int
    BY DEF TypeOK
  <2> QED
    BY <1>0, <2>1, Constants DEF SafetyInv, EntriesInv, BarriersGrow
<1>2. ClaimInv'
  <2> SUFFICES ASSUME NEW p \in Producers
               PROVE  /\ \A s \in Reserved(p) :
                            0 <= s /\ s < m_nextClaimable /\ ~Published(s)
                      /\ \A s \in Held(p), c \in Consumers :
                            s <= m_lastPublished'[c] + BufferSize
    BY DEF ClaimInv, Published
  <2> QED
    BY <1>0, HeldType, Constants DEF SafetyInv, ClaimInv, BarriersGrow
<1>3. OwnersInv'
  BY DEF SafetyInv, OwnersInv, Published
<1>4. ItemsInv'
  BY DEF SafetyInv, ItemsInv, Still, SlotsOf
<1> QED
  BY <1>1, <1>2, <1>3, <1>4 DEF SafetyInv

\* What Held and Reserved are made of.
LEMMA ClaimsFrame ==
    ASSUME NEW q \in Producers, pc'[q] = pc[q], idx'[q] = idx[q],
           sequence'[q] = sequence[q], size'[q] = size[q]
    PROVE  Reserved(q)' = Reserved(q) /\ Held(q)' = Held(q)
BY DEF Reserved, Held, RangeLast, RangeEnd

-----------------------------------------------------------------------------
(***************************************************************************)
(* The steps of a reader.                                                  *)
(***************************************************************************)

\* It is enough that the reader that moves knows what it has to know next.
LEMMA ReaderStepFrame ==
    ASSUME TypeOK, TypeOK', SafetyInv, NEW c \in Consumers,
           UNCHANGED <<claimVars, buffer>>,
           \A t \in Threads \ {c} : Still(t),
           \A d \in Consumers \ {c} :
              /\ m_lastPublished'[d] = m_lastPublished[d]
              /\ nextToRead'[d] = nextToRead[d] /\ target'[d] = target[d]
              /\ seq'[d] = seq[d] /\ available'[d] = available[d],
           m_lastPublished'[c] >= m_lastPublished[c],
           PublishedUpTo(m_lastPublished'[c]),
           \A d \in Ancestors[c] : m_lastPublished'[c] <= m_lastPublished'[d],
           ReaderKnows(c)'
    PROVE  SafetyInv'
<1>0. \A d \in Consumers : m_lastPublished[d] \in Int /\ m_lastPublished'[d] \in Int
  BY Constants DEF TypeOK
<1>1. BarriersGrow
  BY <1>0, BarriersAssumption DEF BarriersGrow
<1>2. EntriesGrow
  BY DEF EntriesGrow, claimVars, TypeOK
<1>3. \A q \in Producers : Still(q) /\ sequence'[q] = sequence[q]
                           /\ size'[q] = size[q] /\ published'[q] = published[q]
  BY Constants DEF claimVars
<1>4. \A q \in Producers : Reserved(q)' = Reserved(q) /\ Held(q)' = Held(q)
  BY <1>3, ClaimsFrame DEF Still
<1>5. /\ m_nextClaimable' >= 0
      /\ EntriesInv' /\ ClaimInv' /\ OwnersInv' /\ ItemsInv'
  BY <1>1, <1>3, <1>4, ClaimsStay DEF claimVars
<1>6. LimitInv'
  <2>1. m_nextClaimable' >= m_nextClaimable
    BY DEF claimVars, TypeOK
  <2> QED
    BY <1>1, <1>3, <2>1, ProducerStays DEF SafetyInv, LimitInv
<1>7. ReaderInv'
  <2> SUFFICES ASSUME NEW d \in Consumers, d # c
               PROVE  ReaderKnows(d)'
    BY DEF ReaderInv
  <2>1. Still(d) /\ ReaderKnows(d)
    BY Constants DEF SafetyInv, ReaderInv
  <2> QED
    BY <1>1, <1>2, <2>1, ReaderStays
<1>8. BarriersInv'
  <2> SUFFICES ASSUME NEW d \in Consumers
               PROVE  /\ m_lastPublished'[d] >= -1
                      /\ PublishedUpTo(m_lastPublished'[d])
                      /\ \A e \in Ancestors[d] :
                            m_lastPublished'[d] <= m_lastPublished'[e]
    BY DEF BarriersInv, PublishedUpTo, Published, claimVars
  <2>1. CASE d = c
    BY <2>1, <1>0 DEF SafetyInv, BarriersInv
  <2>2. CASE d # c
    <3>1. ASSUME NEW e \in Ancestors[d]
          PROVE  m_lastPublished'[d] <= m_lastPublished'[e]
      <4>1. e \in Consumers
        BY TopologyAssumption
      <4> QED
        BY <4>1, <2>2, <1>0, <1>1 DEF SafetyInv, BarriersInv, BarriersGrow
    <3> QED
      BY <3>1, <2>2 DEF SafetyInv, BarriersInv
  <2> QED
    BY <2>1, <2>2
<1> QED
  BY <1>5, <1>6, <1>7, <1>8 DEF SafetyInv

\* The counter is less than half the modulus, less a lap, ahead of every reader.
LEMMA ReaderWindow ==
    ASSUME TypeOK, SafetyInv, ActiveWindow, NEW c \in Consumers
    PROVE  /\ m_lastPublished[c] \in Int /\ m_nextClaimable \in Int
           /\ -1 <= m_lastPublished[c]
           /\ m_lastPublished[c] < m_nextClaimable
           /\ m_nextClaimable - m_lastPublished[c] < HalfModulus - BufferSize
<1>1. m_lastPublished[c] \in Int /\ m_nextClaimable \in Int
  BY Constants DEF TypeOK
<1>2. -1 <= m_lastPublished[c] /\ PublishedUpTo(m_lastPublished[c])
  BY <1>1 DEF SafetyInv, BarriersInv
<1>3. m_lastPublished[c] < m_nextClaimable
  BY <1>1, <1>2, ReaderBehind
<1> QED
  BY <1>1, <1>2, <1>3 DEF ActiveWindow, ActiveWords

\* is_published and the wait on one slot see what is published: the entry of
\* the sequence a reader examines is neither a lap nor a modulus away.
LEMMA EntrySeen ==
    ASSUME TypeOK, SafetyInv, ActiveWindow, NEW c \in Consumers,
           pc[c] \in {"check", "await", "after"}
    PROVE  /\ is_published(seq[c]) => Published(seq[c])
           /\ difference(m_published[Slot(seq[c])], seq[c]) >= 0 => Published(seq[c])
           /\ seq[c] \in Int
<1> DEFINE s == seq[c]
           e == m_published[Slot(s)]
<1>1. s \in Int /\ Slot(s) \in Slots /\ e \in Int /\ nextToRead[c] \in Int
  BY SlotType DEF TypeOK
<1>2. /\ m_lastPublished[c] \in Int /\ m_nextClaimable \in Int
      /\ -1 <= m_lastPublished[c] /\ m_lastPublished[c] < m_nextClaimable
      /\ m_nextClaimable - m_lastPublished[c] < HalfModulus - BufferSize
  BY ReaderWindow
<1>3. s > m_lastPublished[c] /\ PublishedUpTo(s - 1)
  BY <1>1, <1>2 DEF SafetyInv, ReaderInv, ReaderKnows
<1>4. Published(s - BufferSize)
  <2>1. s - BufferSize \in -BufferSize .. s - 1
    BY <1>1, <1>2, <1>3, Constants
  <2> QED
    BY <2>1, <1>3 DEF PublishedUpTo
<1>5. s - BufferSize <= e
  BY <1>1, <1>4, SlotLap DEF Published
<1>6. s - 1 < m_nextClaimable
  <2>1. s - 1 \in Int /\ s - 1 >= -1
    BY <1>1, <1>2, <1>3
  <2> QED
    BY <2>1, <1>3, ReaderBehind
<1>7. e < m_nextClaimable
  BY <1>1 DEF SafetyInv, EntriesInv
<1>8. -HalfModulus < e - s /\ e - s < HalfModulus
  BY <1>1, <1>2, <1>3, <1>5, <1>6, <1>7, Constants
<1>9. difference(e, s) = e - s
  BY <1>1, <1>8, DifferenceExact, Constants
<1>10. SameWord(e, s) => e = s
  BY <1>1, <1>8, SameWordExact, Constants
<1> QED
  BY <1>1, <1>9, <1>10 DEF is_published, Published

\* Steps of a reader other than publishing its own sequence.
LEMMA ReaderQuietFrame ==
    ASSUME TypeOK, TypeOK', SafetyInv, NEW c \in Consumers,
           UNCHANGED <<claimVars, buffer, m_lastPublished>>,
           \A t \in Threads \ {c} : Still(t),
           \A d \in Consumers \ {c} :
              /\ nextToRead'[d] = nextToRead[d] /\ target'[d] = target[d]
              /\ seq'[d] = seq[d] /\ available'[d] = available[d],
           ReaderKnows(c)'
    PROVE  SafetyInv'
<1>1. m_lastPublished[c] \in Int
  BY Constants DEF TypeOK
<1>2. /\ PublishedUpTo(m_lastPublished[c])
      /\ \A d \in Ancestors[c] : m_lastPublished[c] <= m_lastPublished[d]
  BY DEF SafetyInv, BarriersInv
<1> QED
  BY <1>1, <1>2, ReaderStepFrame

LEMMA ReaderBeginsSafe ==
    ASSUME TypeOK, TypeOK', SafetyInv, NEW c \in Consumers, ReaderBegins(c)
    PROVE  SafetyInv'
<1> USE DEF ReaderBegins, BeginWait
<1>1. c \in Threads /\ pc[c] = "idle"
  BY Constants
<1>2. PICK k \in LookAheads : target' = [target EXCEPT ![c] = nextToRead[c] + k - 1]
  OBVIOUS
<1>3. k \in 1 .. BufferSize /\ target'[c] = nextToRead[c] + k - 1
  BY <1>2, WorkloadAssumption DEF TypeOK
<1>4. /\ pc'[c] = (IF Upstream[c] = <<>> THEN "check" ELSE "upstream")
      /\ idx'[c] = 0 /\ seq'[c] = nextToRead[c]
      /\ \A u \in Threads \ {c} : Still(u)
  BY <1>1, GotoStill, TypesOfScans DEF TypeOK
<1>5. /\ nextToRead[c] = m_lastPublished[c] + 1 /\ nextToRead[c] \in Int
      /\ m_lastPublished[c] \in Int /\ PublishedUpTo(m_lastPublished[c])
  BY <1>1, Constants DEF SafetyInv, ReaderInv, ReaderKnows, BarriersInv, TypeOK
<1>6. nextToRead[c] - 1 = m_lastPublished[c]
  BY <1>5
<1>7. ReaderKnows(c)'
  <2>1. CASE Upstream[c] = <<>>
    <3>1. pc'[c] = "check" /\ PublishedUpTo(nextToRead[c] - 1)
      BY <2>1, <1>4, <1>5, <1>6
    <3>2. PublishedUpTo(seq[c] - 1)'
      BY <3>1, <1>4 DEF PublishedUpTo, Published, claimVars
    <3> QED
      BY <3>1, <3>2, <2>1, <1>4, <1>5 DEF ReaderKnows
  <2>2. CASE Upstream[c] # <<>>
    <3>1. pc'[c] = "upstream" /\ ScannedSoFar(c, Upstream[c], target[c])'
      BY <2>2, <1>4 DEF ScannedSoFar
    <3> QED
      BY <3>1, <1>3, <1>5, Constants DEF ReaderKnows
  <2> QED
    BY <2>1, <2>2
<1> QED
  BY <1>2, <1>4, <1>7, ReaderQuietFrame DEF TypeOK

LEMMA NextSeqSafe ==
    ASSUME TypeOK, TypeOK', SafetyInv, NEW c \in Consumers,
           pc[c] \in {"check", "await"}, Published(seq[c]), NextSeq(c)
    PROVE  SafetyInv'
<1> USE DEF NextSeq
<1>1. c \in Threads /\ seq[c] \in Int /\ nextToRead[c] \in Int
  BY Constants DEF TypeOK
<1>2. /\ pc'[c] \in {"check", "after"} /\ seq'[c] = seq[c] + 1
      /\ \A u \in Threads \ {c} : Still(u)
  BY <1>1, GotoStill, TypesOfScans DEF TypeOK
<1>3. /\ Upstream[c] = <<>> /\ seq[c] >= nextToRead[c] /\ PublishedUpTo(seq[c] - 1)
      /\ nextToRead[c] = m_lastPublished[c] + 1
  BY DEF SafetyInv, ReaderInv, ReaderKnows
<1>4. PublishedUpTo(seq[c])
  <2> SUFFICES ASSUME NEW s \in -BufferSize .. seq[c], s # seq[c]
               PROVE  Published(s)
    BY DEF PublishedUpTo
  <2>1. s \in -BufferSize .. seq[c] - 1
    BY <1>1, Constants
  <2> QED
    BY <2>1, <1>3 DEF PublishedUpTo
<1>5. PublishedUpTo(seq[c] - 1)'
  <2>1. seq'[c] - 1 = seq[c]
    BY <1>1, <1>2
  <2> QED
    BY <2>1, <1>4 DEF PublishedUpTo, Published, claimVars
<1>6. ReaderKnows(c)'
  BY <1>1, <1>2, <1>3, <1>5 DEF ReaderKnows, readerVars
<1> QED
  BY <1>2, <1>6, ReaderQuietFrame DEF TypeOK, readerVars

\* A wait that returns what is published, and what all upstream have passed.
LEMMA BatchSafe ==
    ASSUME TypeOK, TypeOK', SafetyInv, NEW c \in Consumers, NEW s \in Int,
           pc[c] \notin {"read", "consumed"}, BatchAvailable(c, s),
           UNCHANGED <<claimVars, seq>>, nextToRead[c] <= s, PublishedUpTo(s),
           \A d \in Ancestors[c] : s <= m_lastPublished[d]
    PROVE  SafetyInv'
<1> USE DEF BatchAvailable, EndCall
<1>1. c \in Threads /\ nextToRead[c] \in Int /\ m_lastPublished[c] \in Int
  BY Constants DEF TypeOK
<1>2. /\ pc'[c] = "read" /\ available'[c] = s
      /\ \A u \in Threads \ {c} : Still(u)
  BY <1>1, GotoStill, TypesOfScans DEF TypeOK
<1>3. nextToRead[c] = m_lastPublished[c] + 1
  BY DEF SafetyInv, ReaderInv, ReaderKnows
<1>4. PublishedUpTo(available[c])'
  BY <1>2 DEF PublishedUpTo, Published, claimVars
<1>5. ReaderKnows(c)'
  BY <1>1, <1>2, <1>3, <1>4 DEF ReaderKnows
<1> QED
  BY <1>2, <1>5, ReaderQuietFrame DEF TypeOK

\* A reader that waits for the claim strategy has no ancestors.
LEMMA NoAncestors ==
    ASSUME NEW c \in Consumers, Upstream[c] = <<>>
    PROVE  Ancestors[c] = {}
BY TopologyAssumption DEF Elems

LEMMA LastPublishedAfterSafe ==
    ASSUME TypeOK, TypeOK', SafetyInv, ActiveWindow, NEW c \in Consumers,
           LastPublishedAfter(c)
    PROVE  SafetyInv'
<1> USE DEF LastPublishedAfter
<1>1. c \in Threads /\ seq[c] \in Int /\ nextToRead[c] \in Int /\ pc[c] = "after"
  BY Constants DEF TypeOK
<1>2. /\ Upstream[c] = <<>> /\ seq[c] > nextToRead[c] /\ PublishedUpTo(seq[c] - 1)
      /\ nextToRead[c] = m_lastPublished[c] + 1
  BY <1>1 DEF SafetyInv, ReaderInv, ReaderKnows
<1>3. CASE is_published(seq[c])
  <2>1. /\ seq'[c] = seq[c] + 1 /\ pc' = pc
        /\ UNCHANGED <<barrierVars, readerVars, claimVars>>
    BY <1>3 DEF TypeOK, barrierVars
  <2>2. Published(seq[c])
    BY <1>1, <1>3, EntrySeen
  <2>3. \A s \in -BufferSize .. seq[c] : s = seq[c] \/ s \in -BufferSize .. seq[c] - 1
    BY <1>1, Constants
  <2>4. PublishedUpTo(seq[c])
    BY <2>2, <2>3, <1>2 DEF PublishedUpTo
  <2>5. seq'[c] - 1 = seq[c]
    BY <1>1, <2>1
  <2>6. PublishedUpTo(seq[c] - 1)'
    BY <2>1, <2>4, <2>5 DEF PublishedUpTo, Published, claimVars
  <2>7. ReaderKnows(c)'
    BY <1>1, <1>2, <2>1, <2>6 DEF ReaderKnows, readerVars, barrierVars
  <2>8. \A u \in Threads \ {c} : Still(u)
    BY <2>1 DEF Still, barrierVars
  <2>9. seq' = [seq EXCEPT ![c] = @ + 1]
    BY <1>3
  <2> QED
    BY <2>1, <2>7, <2>8, <2>9, ReaderQuietFrame DEF TypeOK, readerVars, barrierVars
<1>4. CASE ~is_published(seq[c])
  <2>1. seq[c] - 1 \in Int /\ nextToRead[c] <= seq[c] - 1
    BY <1>1, <1>2
  <2>2. Ancestors[c] = {}
    BY <1>2, NoAncestors
  <2>3. BatchAvailable(c, seq[c] - 1) /\ UNCHANGED <<claimVars, seq>>
    BY <1>4
  <2> QED
    BY <1>1, <1>2, <2>1, <2>2, <2>3, BatchSafe
<1> QED
  BY <1>3, <1>4

LEMMA CheckPublishedSafe ==
    ASSUME TypeOK, TypeOK', SafetyInv, ActiveWindow, NEW c \in Consumers,
           CheckPublished(c) \/ AwaitPublished(c)
    PROVE  SafetyInv'
<1>1. pc[c] \in {"check", "await"} /\ c \in Threads
  BY Constants DEF CheckPublished, AwaitPublished
<1>2. CASE NextSeq(c)
  <2>1. Published(seq[c])
    <3>1. CASE CheckPublished(c) /\ is_published(seq[c])
      BY <1>1, <3>1, EntrySeen
    <3>2. CASE AwaitPublished(c)
      BY <1>1, <3>2, EntrySeen DEF AwaitPublished
    <3>3. CASE CheckPublished(c) /\ ~is_published(seq[c])
      <4>1. UNCHANGED seq
        BY <3>3 DEF CheckPublished
      <4>2. seq' = [seq EXCEPT ![c] = @ + 1]
        BY <1>2 DEF NextSeq
      <4>3. seq[c] \in Int /\ seq'[c] = seq[c] + 1
        BY <4>2 DEF TypeOK
      <4> QED
        BY <4>1, <4>3
    <3> QED
      BY <3>1, <3>2, <3>3
  <2> QED
    BY <1>1, <1>2, <2>1, NextSeqSafe
<1>3. CASE ~NextSeq(c)
  <2>1. /\ Goto(c, "await")
        /\ UNCHANGED <<m_lastPublished, readerVars, claimVars, seq>>
    BY <1>3 DEF CheckPublished, AwaitPublished
  <2>2. pc'[c] = "await" /\ \A u \in Threads \ {c} : Still(u)
    BY <1>1, <2>1, GotoStill, TypesOfScans
  <2>3. PublishedUpTo(seq[c] - 1)'
    BY <1>1, <2>1 DEF SafetyInv, ReaderInv, ReaderKnows, PublishedUpTo, Published, claimVars
  <2>4. ReaderKnows(c)'
    BY <1>1, <2>1, <2>2, <2>3 DEF SafetyInv, ReaderInv, ReaderKnows, readerVars
  <2> QED
    BY <2>1, <2>2, <2>4, ReaderQuietFrame DEF readerVars
<1> QED
  BY <1>2, <1>3

\* The barriers are less than half the modulus from the sequence a reader waits for.
LEMMA UpstreamComparable ==
    ASSUME TypeOK, SafetyInv, ActiveWindow, NEW c \in Consumers, pc[c] = "upstream"
    PROVE  \A d \in Consumers : /\ -HalfModulus <= m_lastPublished[d] - target[c]
                                 /\ m_lastPublished[d] - target[c] < HalfModulus
<1> SUFFICES ASSUME NEW d \in Consumers
             PROVE  /\ -HalfModulus <= m_lastPublished[d] - target[c]
                    /\ m_lastPublished[d] - target[c] < HalfModulus
  OBVIOUS
<1>1. /\ target[c] \in Int /\ nextToRead[c] \in Int
      /\ BufferSize \in Nat /\ HalfModulus \in Nat
  BY Constants DEF TypeOK
<1>2. /\ m_lastPublished[d] \in Int /\ m_nextClaimable \in Int
      /\ m_lastPublished[d] < m_nextClaimable
      /\ m_nextClaimable - m_lastPublished[d] < HalfModulus - BufferSize
  BY ReaderWindow
<1>3. /\ m_lastPublished[c] \in Int /\ m_lastPublished[c] < m_nextClaimable
      /\ m_nextClaimable - m_lastPublished[c] < HalfModulus - BufferSize
  BY ReaderWindow
<1>4. /\ nextToRead[c] = m_lastPublished[c] + 1
      /\ target[c] >= nextToRead[c] /\ target[c] <= m_lastPublished[c] + BufferSize
  BY DEF SafetyInv, ReaderInv, ReaderKnows
<1> QED
  BY <1>1, <1>2, <1>3, <1>4

LEMMA WaitUpstreamSafe ==
    ASSUME TypeOK, TypeOK', SafetyInv, ActiveWindow, NEW c \in Consumers,
           WaitUpstream(c), UNCHANGED <<claimVars, seq>>
    PROVE  SafetyInv'
<1> DEFINE group == Upstream[c]
           floor == target[c]
<1>1. /\ c \in Threads /\ pc[c] = "upstream" /\ pc[c] \in Scanning
      /\ group = ScannedGroup(c, pc[c]) /\ group \in Seq(Barriers)
      /\ floor \in Int /\ nextToRead[c] \in Int
  BY GroupTypes, Constants DEF WaitUpstream, Scanning, ScannedGroup, TypeOK
<1>2. /\ nextToRead[c] = m_lastPublished[c] + 1
      /\ floor >= nextToRead[c] /\ floor <= m_lastPublished[c] + BufferSize
      /\ ScannedSoFar(c, group, floor)
  BY <1>1 DEF SafetyInv, ReaderInv, ReaderKnows
<1>3. \A d \in Consumers : /\ -HalfModulus <= m_lastPublished[d] - floor
                           /\ m_lastPublished[d] - floor < HalfModulus
  BY <1>1, UpstreamComparable
<1>4. CASE /\ Rescan(c, group, floor) \/ ScanOn(c, group, floor)
           /\ UNCHANGED readerVars
  <2>1. /\ pc' = pc /\ UNCHANGED m_lastPublished
        /\ \A u \in Threads \ {c} : Still(u)
        /\ \A i \in 1 .. idx'[c] :
              acc'[c] >= 0 /\ floor + acc'[c] <= m_lastPublished'[group[i]]
    BY <1>1, <1>2, <1>3, <1>4, ScanStep, TypesOfScans, GroupComparable
  <2>2. ScannedSoFar(c, Upstream[c], target[c])'
    BY <1>4, <2>1 DEF ScannedSoFar, readerVars
  <2>3. ReaderKnows(c)'
    BY <1>1, <1>2, <1>4, <2>1, <2>2 DEF ReaderKnows, readerVars
  <2> QED
    BY <1>4, <2>1, <2>3, ReaderQuietFrame DEF readerVars
<1>5. CASE /\ ScanDone(c, group, floor)
           /\ BatchAvailable(c, ScanResult(c, group, floor))
  <2> DEFINE r == ScanResult(c, group, floor)
  <2>1. /\ r \in Int /\ floor <= r
        /\ \A b \in Elems(group) : b \in Consumers /\ r <= m_lastPublished[b]
    BY <1>1, <1>2, <1>3, <1>5, ScanDoneBounds, TypesOfScans, GroupComparable
  <2> HIDE DEF r
  <2>2. \A b \in Consumers : m_lastPublished[b] \in Int
    BY Constants DEF TypeOK
  <2>3. \E b \in Elems(group) : TRUE
    <3>1. idx[c] \in Nat /\ idx[c] < Len(group)
      BY <1>1 DEF TypeOK, ScanInBounds
    <3>2. 1 \in DOMAIN group
      BY <1>1, <3>1
    <3> QED
      BY <3>2 DEF Elems
  <2>4. PublishedUpTo(r)
    <3>1. PICK b \in Elems(group) : TRUE
      BY <2>3
    <3>2. /\ m_lastPublished[b] \in Int /\ r <= m_lastPublished[b]
          /\ PublishedUpTo(m_lastPublished[b])
      BY <3>1, <2>1, <2>2 DEF SafetyInv, BarriersInv
    <3> QED
      BY <2>1, <3>2, Constants DEF PublishedUpTo
  <2>5. ASSUME NEW d \in Ancestors[c]
        PROVE  r <= m_lastPublished[d]
    <3>1. PICK e \in Elems(group) \cap Consumers : d = e \/ d \in Ancestors[e]
      BY TopologyAssumption
    <3>2. d \in Consumers
      BY TopologyAssumption
    <3>3. m_lastPublished[e] <= m_lastPublished[d]
      BY <3>1, <3>2, <2>2 DEF SafetyInv, BarriersInv
    <3> QED
      BY <3>1, <3>2, <3>3, <2>1, <2>2
  <2>6. nextToRead[c] <= r /\ BatchAvailable(c, r)
    BY <1>1, <1>2, <1>5, <2>1 DEF r
  <2> QED
    BY <1>1, <2>1, <2>4, <2>5, <2>6, BatchSafe
<1>6. CASE WaitTimedOut(c)
  <2>1. pc'[c] = "idle" /\ \A u \in Threads \ {c} : Still(u)
    BY <1>1, <1>6, GotoStill, TypesOfScans DEF WaitTimedOut
  <2>2. ReaderKnows(c)'
    BY <1>2, <1>6, <2>1 DEF ReaderKnows, WaitTimedOut
  <2> QED
    BY <1>6, <2>1, <2>2, ReaderQuietFrame DEF WaitTimedOut, EndCall, TypeOK
<1> QED
  BY <1>4, <1>5, <1>6 DEF WaitUpstream

LEMMA ReadItemSafe ==
    ASSUME TypeOK, TypeOK', SafetyInv, ActiveWindow, NEW c \in Consumers,
           ReadItem(c), UNCHANGED <<claimVars, seq>>
    PROVE  SafetyInv'
<1>1. /\ c \in Threads /\ pc[c] = "read"
      /\ nextToRead[c] \in Int /\ available[c] \in Int
  BY Constants DEF ReadItem, TypeOK
<1>2. /\ m_lastPublished[c] < nextToRead[c] /\ PublishedUpTo(available[c])
      /\ nextToRead[c] <= available[c]
      /\ \A d \in Ancestors[c] : available[c] <= m_lastPublished[d]
  BY <1>1 DEF SafetyInv, ReaderInv, ReaderKnows
<1>3. /\ m_lastPublished[c] \in Int /\ m_nextClaimable \in Int
      /\ -1 <= m_lastPublished[c]
      /\ m_nextClaimable - m_lastPublished[c] < HalfModulus - BufferSize
  BY ReaderWindow
<1>4. available[c] < m_nextClaimable
  BY <1>1, <1>2, <1>3, ReaderBehind
<1>5. SameWord(nextToRead[c], available[c]) <=> nextToRead[c] = available[c]
  BY <1>1, <1>2, <1>3, <1>4, SameWordExact, Constants
<1>6. /\ pc'[c] = (IF SameWord(nextToRead[c], available[c]) THEN "consumed" ELSE "read")
      /\ nextToRead'[c] = nextToRead[c] + 1
      /\ \A u \in Threads \ {c} : Still(u)
  BY <1>1, GotoStill, TypesOfScans DEF ReadItem, TypeOK
<1>7. PublishedUpTo(available[c])'
  BY <1>2 DEF ReadItem, PublishedUpTo, Published, claimVars
<1>8. ReaderKnows(c)'
  BY <1>1, <1>2, <1>3, <1>5, <1>6, <1>7 DEF ReaderKnows, ReadItem
<1> QED
  BY <1>6, <1>8, ReaderQuietFrame DEF ReadItem, TypeOK

LEMMA PublishConsumedSafe ==
    ASSUME TypeOK, TypeOK', SafetyInv, NEW c \in Consumers,
           PublishConsumed(c), UNCHANGED <<claimVars, seq>>
    PROVE  SafetyInv'
<1> USE DEF PublishConsumed, PublishBarrier
<1>1. /\ c \in Threads /\ c \in Barriers /\ pc[c] = "consumed"
      /\ nextToRead[c] \in Int /\ available[c] \in Int /\ m_lastPublished[c] \in Int
  BY Constants DEF TypeOK
<1>2. /\ m_lastPublished[c] < nextToRead[c] /\ nextToRead[c] = available[c] + 1
      /\ PublishedUpTo(available[c])
      /\ \A d \in Ancestors[c] : available[c] <= m_lastPublished[d]
  BY <1>1 DEF SafetyInv, ReaderInv, ReaderKnows
<1>3. /\ m_lastPublished'[c] = available[c]
      /\ \A d \in Consumers \ {c} : m_lastPublished'[d] = m_lastPublished[d]
      /\ pc'[c] = "idle" /\ \A u \in Threads \ {c} : Still(u)
      /\ UNCHANGED readerVars
  BY <1>1, GotoStill, TypesOfScans, Constants DEF TypeOK
<1>4. m_lastPublished'[c] >= m_lastPublished[c]
  BY <1>1, <1>2, <1>3
<1>5. \A d \in Ancestors[c] : m_lastPublished'[c] <= m_lastPublished'[d]
  BY <1>1, <1>2, <1>3, TopologyAssumption
<1>6. ReaderKnows(c)'
  BY <1>2, <1>3 DEF ReaderKnows, readerVars
<1> QED
  BY <1>2, <1>3, <1>4, <1>5, <1>6, ReaderStepFrame DEF readerVars

LEMMA ReaderStepSafe ==
    ASSUME TypeOK, TypeOK', SafetyInv, ActiveWindow, NEW c \in Consumers,
           ReaderBegins(c) \/ ConsumerWorks(c)
    PROVE  SafetyInv'
BY ReaderBeginsSafe, CheckPublishedSafe, LastPublishedAfterSafe, WaitUpstreamSafe,
   ReadItemSafe, PublishConsumedSafe DEF ConsumerWorks, ReaderAction

-----------------------------------------------------------------------------
(***************************************************************************)
(* The steps of a producer.                                                *)
(***************************************************************************)

\* A producer's step leaves the readers alone, and the other producers.
LEMMA ReadersStay ==
    ASSUME TypeOK, TypeOK', SafetyInv, EntriesGrow,
           UNCHANGED <<m_lastPublished, nextToRead, target, available, seq>>,
           \A c \in Consumers : Still(c)
    PROVE  ReaderInv' /\ BarriersInv'
<1>1. BarriersGrow
  BY Constants DEF BarriersGrow, TypeOK
<1>2. ReaderInv'
  BY <1>1, ReaderStays DEF SafetyInv, ReaderInv
<1>3. \A c \in Consumers : PublishedUpTo(m_lastPublished[c])'
  <2> SUFFICES ASSUME NEW c \in Consumers
               PROVE  PublishedUpTo(m_lastPublished[c])'
    OBVIOUS
  <2>1. m_lastPublished[c] \in Int /\ PublishedUpTo(m_lastPublished[c])
    BY Constants DEF TypeOK, SafetyInv, BarriersInv
  <2> QED
    BY <2>1, PublishedStays DEF PublishedUpTo
<1>4. BarriersInv'
  BY <1>3 DEF SafetyInv, BarriersInv
<1> QED
  BY <1>2, <1>4

LEMMA OtherProducersStay ==
    ASSUME TypeOK, TypeOK', SafetyInv, UNCHANGED m_lastPublished,
           m_nextClaimable' >= m_nextClaimable, NEW p \in Producers,
           \A q \in Producers \ {p} :
              Still(q) /\ sequence'[q] = sequence[q] /\ size'[q] = size[q]
              /\ published'[q] = published[q],
           ProducerKnows(p)'
    PROVE  /\ LimitInv'
           /\ \A q \in Producers \ {p} : Reserved(q)' = Reserved(q) /\ Held(q)' = Held(q)
<1>1. BarriersGrow
  BY Constants DEF BarriersGrow, TypeOK
<1>2. LimitInv'
  BY <1>1, ProducerStays DEF SafetyInv, LimitInv
<1>3. \A q \in Producers \ {p} : Reserved(q)' = Reserved(q) /\ Held(q)' = Held(q)
  BY ClaimsFrame DEF Still
<1> QED
  BY <1>2, <1>3

\* Steps of a producer on the way to a claim.
LEMMA ProducerQuietFrame ==
    ASSUME TypeOK, TypeOK', SafetyInv, NEW p \in Producers,
           UNCHANGED <<m_lastPublished, m_nextClaimable, m_published, readerVars, seq>>,
           \A t \in Threads \ {p} : Still(t),
           \A q \in Producers \ {p} :
              sequence'[q] = sequence[q] /\ size'[q] = size[q]
              /\ published'[q] = published[q],
           Reserved(p)' = Reserved(p), Held(p)' = Held(p),
           pc'[p] \notin {"write", "publish"},
           ProducerKnows(p)'
    PROVE  SafetyInv'
<1>1. \A q \in Producers \ {p} : Still(q)
  BY Constants
<1>2. \A c \in Consumers : Still(c)
  BY Constants
<1>3. m_nextClaimable' >= m_nextClaimable /\ EntriesGrow /\ BarriersGrow
  BY Constants DEF TypeOK, EntriesGrow, BarriersGrow
<1>4. ReaderInv' /\ BarriersInv'
  BY <1>2, <1>3, ReadersStay DEF readerVars
<1>5. /\ LimitInv'
      /\ \A q \in Producers \ {p} : Reserved(q)' = Reserved(q) /\ Held(q)' = Held(q)
  BY <1>1, <1>3, OtherProducersStay
<1>6. \A q \in Producers : pc'[q] \in {"write", "publish"} =>
                              Still(q) /\ sequence'[q] = sequence[q]
  BY <1>1
<1>7. /\ m_nextClaimable' >= 0
      /\ EntriesInv' /\ ClaimInv' /\ OwnersInv' /\ ItemsInv'
  BY <1>3, <1>5, <1>6, ClaimsStay DEF readerVars
<1> QED
  BY <1>4, <1>5, <1>7 DEF SafetyInv

\* A claim takes the next n sequences.
LEMMA NewClaimFrame ==
    ASSUME TypeOK, TypeOK', SafetyInv, NEW p \in Producers, NEW n \in Nat,
           m_nextClaimable' = m_nextClaimable + n,
           UNCHANGED <<m_lastPublished, m_published, readerVars, seq>>,
           \A t \in Threads \ {p} : Still(t),
           \A q \in Producers \ {p} :
              sequence'[q] = sequence[q] /\ size'[q] = size[q]
              /\ published'[q] = published[q],
           Reserved(p) = {}, Held(p) = {},
           Reserved(p)' = m_nextClaimable .. m_nextClaimable + n - 1,
           \A s \in Held(p)' : /\ s \in Reserved(p)'
                               /\ \A c \in Consumers : s <= m_lastPublished[c] + BufferSize,
           pc'[p] # "publish", pc'[p] = "write" => idx'[p] = 0,
           ProducerKnows(p)'
    PROVE  SafetyInv'
<1>0. m_nextClaimable \in Int /\ m_nextClaimable >= 0
  BY DEF TypeOK, SafetyInv
<1>1. \A q \in Producers \ {p} : Still(q)
  BY Constants
<1>2. \A c \in Consumers : Still(c)
  BY Constants
<1>3. m_nextClaimable' >= m_nextClaimable /\ EntriesGrow
  BY <1>0 DEF TypeOK, EntriesGrow
<1>4. ReaderInv' /\ BarriersInv'
  BY <1>2, <1>3, ReadersStay DEF readerVars
<1>5. /\ LimitInv'
      /\ \A q \in Producers \ {p} : Reserved(q)' = Reserved(q) /\ Held(q)' = Held(q)
  BY <1>1, <1>3, OtherProducersStay
<1>6. EntriesInv'
  <2>1. \A k \in Slots : m_published[k] < m_nextClaimable'
    BY <1>0, <1>3 DEF SafetyInv, EntriesInv, TypeOK
  <2> QED
    BY <2>1 DEF SafetyInv, EntriesInv
<1>7. \A s \in Reserved(p)' : s \in Int /\ m_nextClaimable <= s /\ s < m_nextClaimable'
  BY <1>0
<1>8. \A q \in Producers \ {p} : \A s \in Reserved(q) :
         s \in Int /\ 0 <= s /\ s < m_nextClaimable /\ ~Published(s)
  BY HeldType DEF SafetyInv, ClaimInv
<1>9. \A s \in Reserved(p)' : ~Published(s)
  <2> SUFFICES ASSUME NEW s \in Reserved(p)' PROVE ~Published(s)
    OBVIOUS
  <2>1. s \in Int /\ m_nextClaimable <= s /\ Slot(s) \in Slots
    BY <1>7, SlotType
  <2>2. m_published[Slot(s)] < m_nextClaimable /\ m_published[Slot(s)] \in Int
    BY <2>1 DEF SafetyInv, EntriesInv, TypeOK
  <2> QED
    BY <2>1, <2>2, <1>0 DEF Published
<1>10. ClaimInv'
  <2> SUFFICES ASSUME NEW q \in Producers
               PROVE  /\ \A s \in Reserved(q)' :
                            0 <= s /\ s < m_nextClaimable' /\ ~Published(s)
                      /\ \A s \in Held(q)', c \in Consumers :
                            s <= m_lastPublished[c] + BufferSize
    BY DEF ClaimInv, Published
  <2>1. CASE q = p
    BY <2>1, <1>0, <1>7, <1>9
  <2>2. CASE q # p
    <3>1. \A s \in Reserved(q)' : 0 <= s /\ s < m_nextClaimable' /\ ~Published(s)
      BY <2>2, <1>0, <1>5, <1>8
    <3> QED
      BY <3>1, <2>2, <1>5 DEF SafetyInv, ClaimInv
  <2> QED
    BY <2>1, <2>2
<1>11. OwnersInv'
  <2>1. ASSUME NEW q \in Producers, NEW r \in Producers, q # r
        PROVE  Reserved(q)' \cap Reserved(r)' = {}
    <3>1. CASE q # p /\ r # p
      BY <2>1, <3>1, <1>5 DEF SafetyInv, OwnersInv
    <3>2. CASE q = p
      BY <2>1, <3>2, <1>0, <1>5, <1>7, <1>8
    <3>3. CASE r = p
      BY <2>1, <3>3, <1>0, <1>5, <1>7, <1>8
    <3> QED
      BY <3>1, <3>2, <3>3
  <2>2. ASSUME NEW s \in 0 .. m_nextClaimable' - 1
        PROVE  Published(s) \/ \E q \in Producers : s \in Reserved(q)'
    <3>1. CASE s < m_nextClaimable
      <4>1. s \in 0 .. m_nextClaimable - 1
        BY <3>1, <1>0, <2>2
      <4> QED
        BY <4>1, <1>5 DEF SafetyInv, OwnersInv
    <3>2. CASE s >= m_nextClaimable
      <4>1. s \in Reserved(p)'
        BY <3>2, <1>0, <2>2
      <4> QED
        BY <4>1
    <3> QED
      BY <3>1, <3>2, <1>0
  <2> QED
    BY <2>1, <2>2 DEF OwnersInv, Published
<1>12. ItemsInv'
  <2>1. \A k \in Slots : \/ m_published[k] < 0
                         \/ buffer[k] = m_published[k]
                         \/ \E q \in Producers \ {p} : k \in SlotsOf(Held(q))
    BY DEF SafetyInv, ItemsInv, SlotsOf
  <2>2. \A k \in Slots : \/ m_published[k] < 0
                         \/ buffer[k] = m_published[k]
                         \/ \E q \in Producers : k \in SlotsOf(Held(q))'
    BY <2>1, <1>5 DEF SlotsOf
  <2>3. ASSUME NEW q \in Producers
        PROVE  /\ pc'[q] = "write" => \A i \in 0 .. idx'[q] - 1 :
                    buffer[Slot(RangeAt(sequence'[q], i))] = RangeAt(sequence'[q], i)
               /\ pc'[q] = "publish" => \A s \in Held(q)' : buffer[Slot(s)] = s
    <3>1. CASE q = p
      BY <3>1
    <3>2. CASE q # p
      BY <3>2, <1>1, <1>5 DEF SafetyInv, ItemsInv, Still
    <3> QED
      BY <3>1, <3>2
  <2> QED
    BY <2>2, <2>3 DEF ItemsInv, readerVars
<1> QED
  BY <1>0, <1>3, <1>4, <1>5, <1>6, <1>10, <1>11, <1>12 DEF SafetyInv, TypeOK

\* A producer outside these points has reserved nothing.
LEMMA NoClaim ==
    ASSUME NEW p \in Producers
    PROVE  /\ pc[p] \notin {"claimWait", "write", "publish"} =>
                 Reserved(p) = {} /\ Held(p) = {}
           /\ pc'[p] \notin {"claimWait", "write", "publish"} =>
                 Reserved(p)' = {} /\ Held(p)' = {}
BY DEF Reserved, Held

\* What the claim barrier has reached, every reader has: those that do not gate
\* the producers themselves are ahead of one that does.
LEMMA GatesCoverAll ==
    ASSUME TypeOK, SafetyInv, NEW x \in Int,
           \A g \in Elems(ClaimBarriers) : x <= m_lastPublished[g],
           NEW c \in Consumers
    PROVE  x <= m_lastPublished[c]
<1>1. PICK g \in Elems(ClaimBarriers) : c = g \/ c \in Ancestors[g]
  BY TopologyAssumption
<1>2. g \in Consumers
  BY <1>1, GroupTypes DEF Elems
<1>3. m_lastPublished[c] \in Int /\ m_lastPublished[g] \in Int
  BY <1>2, Constants DEF TypeOK
<1>4. m_lastPublished[g] <= m_lastPublished[c]
  BY <1>1, <1>2, <1>3 DEF SafetyInv, BarriersInv
<1> QED
  BY <1>1, <1>3, <1>4

\* The words a producer compares are less than half the modulus from the counter.
LEMMA ProducerWindow ==
    ASSUME TypeOK, SafetyInv, ActiveWindow, NEW p \in Producers
    PROVE  /\ pc[p] \in {"claimWait", "tryCas", "timedWait"} =>
                 m_nextClaimable - sequence[p] < HalfModulus - BufferSize
           /\ pc[p] \in {"tryLoad", "tryCas"} =>
                 m_nextClaimable - published[p] < HalfModulus - BufferSize
           /\ pc[p] = "tryScan" /\ idx[p] > 0 =>
                 m_nextClaimable - acc[p] < HalfModulus - BufferSize
BY DEF ActiveWindow, ActiveWords

LEMMA ClaimFetchAddSafe ==
    ASSUME TypeOK, TypeOK', SafetyInv, NEW p \in Producers, ClaimFetchAdd(p)
    PROVE  SafetyInv'
<1> USE DEF ClaimFetchAdd
<1>1. p \in Threads /\ pc[p] = "idle" /\ m_nextClaimable \in Int
  BY Constants DEF TypeOK
<1> DEFINE n == size'[p]
<1>2. /\ sequence' = [sequence EXCEPT ![p] = m_nextClaimable]
      /\ size' = [size EXCEPT ![p] = n]
      /\ m_nextClaimable' = m_nextClaimable + n
  BY DEF TypeOK
<1>3. sequence'[p] = m_nextClaimable /\ size'[p] = n /\ n \in Nat
  BY <1>2 DEF TypeOK
<1>4. /\ pc'[p] = "claimWait" /\ idx'[p] = 0 /\ \A u \in Threads \ {p} : Still(u)
  BY <1>1, GotoStill, TypesOfScans
<1>5. Reserved(p) = {} /\ Held(p) = {}
  BY <1>1, NoClaim
<1>6. Reserved(p)' = m_nextClaimable .. m_nextClaimable + n - 1 /\ Held(p)' = {}
  BY <1>1, <1>3, <1>4 DEF Reserved, Held, RangeLast, RangeEnd
<1>7. ProducerKnows(p)'
  BY <1>1, <1>2, <1>3, <1>4 DEF ProducerKnows, LimitIsSafe, ScannedSoFar
<1>8. \A q \in Producers \ {p} : sequence'[q] = sequence[q] /\ size'[q] = size[q]
                                 /\ published'[q] = published[q]
  BY <1>2 DEF TypeOK
<1> QED
  BY <1>2, <1>3, <1>4, <1>5, <1>6, <1>7, <1>8, NewClaimFrame

LEMMA TryClaimBeginSafe ==
    ASSUME TypeOK, TypeOK', SafetyInv, NEW p \in Producers, TryClaimBegin(p)
    PROVE  SafetyInv'
<1> USE DEF TryClaimBegin
<1>1. p \in Threads /\ pc[p] = "idle"
  BY Constants
<1>2. pc'[p] = "tryScan" /\ idx'[p] = 0 /\ \A u \in Threads \ {p} : Still(u)
  BY <1>1, GotoStill, TypesOfScans
<1>3. Reserved(p)' = Reserved(p) /\ Held(p)' = Held(p)
  BY <1>1, <1>2, NoClaim
<1>4. ProducerKnows(p)'
  BY <1>2 DEF ProducerKnows, LimitIsSafe
<1> QED
  BY <1>2, <1>3, <1>4, ProducerQuietFrame

\* The minimum of a scan of the claim barrier is one of integers, not only of words.
LEMMA ClaimMinimum ==
    ASSUME TypeOK, SafetyInv, ActiveWindow, NEW p \in Producers, pc[p] = "tryScan"
    PROVE  /\ MinimumNow(p, ClaimBarriers) \in Int
           /\ \A i \in 1 .. idx[p] + 1 :
                 MinimumNow(p, ClaimBarriers) <= m_lastPublished[ClaimBarriers[i]]
           /\ idx[p] > 0 => MinimumNow(p, ClaimBarriers) <= acc[p]
           /\ \/ \E c \in Consumers : MinimumNow(p, ClaimBarriers) = m_lastPublished[c]
              \/ idx[p] > 0 /\ MinimumNow(p, ClaimBarriers) = acc[p]
<1> DEFINE l == Loaded(p, ClaimBarriers)
<1>1. /\ p \in Threads /\ pc[p] \in Scanning
      /\ ClaimBarriers = ScannedGroup(p, pc[p]) /\ ClaimBarriers \in Seq(Barriers)
      /\ idx[p] \in Nat /\ acc[p] \in Int
  BY GroupTypes, Constants DEF Scanning, ScannedGroup, TypeOK
<1>2. \A i \in 1 .. idx[p] + 1 : /\ ClaimBarriers[i] \in Consumers
                                 /\ m_lastPublished[ClaimBarriers[i]] \in Int
  BY <1>1, ScannedBarrier, TypesOfScans, BarriersAssumption
<1>3. idx[p] + 1 \in 1 .. idx[p] + 1 /\ \A i \in 1 .. idx[p] : i \in 1 .. idx[p] + 1
  BY <1>1
<1>4. l = m_lastPublished[ClaimBarriers[idx[p] + 1]] /\ l \in Int
  BY <1>2, <1>3 DEF Loaded
<1>5. \A i \in 1 .. idx[p] : acc[p] <= m_lastPublished[ClaimBarriers[i]]
  BY <1>1 DEF SafetyInv, LimitInv, ProducerKnows, LimitIsSafe
<1>6. ASSUME idx[p] > 0
      PROVE  -HalfModulus <= l - acc[p] /\ l - acc[p] < HalfModulus
  <2>1. 1 \in 1 .. idx[p]
    BY <1>6, <1>1
  <2>2. /\ m_nextClaimable \in Int /\ l < m_nextClaimable
        /\ m_nextClaimable - l < HalfModulus - BufferSize
    BY <1>2, <1>3, <1>4, ReaderWindow
  <2>3. m_lastPublished[ClaimBarriers[1]] < m_nextClaimable
    BY <1>2, <1>3, <2>1, ReaderWindow
  <2>4. m_lastPublished[ClaimBarriers[1]] \in Int
    BY <1>2, <1>3, <2>1
  <2>5. acc[p] < m_nextClaimable
    BY <1>1, <1>5, <2>1, <2>2, <2>3, <2>4
  <2>6. m_nextClaimable - acc[p] < HalfModulus - BufferSize
    BY <1>1, <1>6, ProducerWindow
  <2> HIDE DEF l
  <2>7. BufferSize \in Nat /\ HalfModulus \in Nat
    BY Constants
  <2> QED
    BY <2>2, <2>5, <2>6, <2>7, <1>1, <1>4
<1> QED
  BY <1>1, <1>2, <1>3, <1>4, <1>5, <1>6, TypesOfScans, MinimumBounds

LEMMA TryClaimScanSafe ==
    ASSUME TypeOK, TypeOK', SafetyInv, ActiveWindow, NEW p \in Producers,
           TryClaimScan(p)
    PROVE  SafetyInv'
<1> USE DEF TryClaimScan
<1> DEFINE m == MinimumNow(p, ClaimBarriers)
<1>1. /\ p \in Threads /\ pc[p] = "tryScan" /\ pc[p] \in Scanning
      /\ ClaimBarriers = ScannedGroup(p, pc[p]) /\ ClaimBarriers \in Seq(Barriers)
      /\ idx[p] \in Nat /\ acc[p] \in Int
  BY GroupTypes, Constants DEF Scanning, ScannedGroup, TypeOK
<1>6. m \in Int /\ \A i \in 1 .. idx[p] + 1 : m <= m_lastPublished[ClaimBarriers[i]]
  BY <1>1, ClaimMinimum
<1> HIDE DEF m
<1>7. CASE ~IsLastLoad(p, ClaimBarriers)
  <2>1. /\ pc' = pc /\ idx'[p] = idx[p] + 1 /\ acc'[p] = m
        /\ \A u \in Threads \ {p} : Still(u)
    BY <1>1, <1>7 DEF Again, Still, TypeOK, m
  <2>2. ProducerKnows(p)'
    BY <1>1, <1>6, <2>1 DEF ProducerKnows, LimitIsSafe
  <2>3. Reserved(p)' = Reserved(p) /\ Held(p)' = Held(p)
    BY <1>1, <2>1, NoClaim
  <2> QED
    BY <1>1, <1>7, <2>1, <2>2, <2>3, ProducerQuietFrame
<1>8. CASE IsLastLoad(p, ClaimBarriers)
  <2>1. /\ Goto(p, "tryLoad")
        /\ published' = [published EXCEPT ![p] = m + BufferSize]
    BY <1>8 DEF m
  <2>2. /\ pc'[p] = "tryLoad" /\ published'[p] = m + BufferSize
        /\ \A u \in Threads \ {p} : Still(u)
    BY <1>1, <2>1, GotoStill, TypesOfScans DEF TypeOK
  <2>3. \A g \in Elems(ClaimBarriers) : m <= m_lastPublished[g]
    <3>1. DOMAIN ClaimBarriers = 1 .. idx[p] + 1
      BY <1>1, <1>8 DEF IsLastLoad
    <3> QED
      BY <3>1, <1>6 DEF Elems
  <2>4. \A c \in Consumers : m + BufferSize <= m_lastPublished[c] + BufferSize
    <3> SUFFICES ASSUME NEW c \in Consumers
                 PROVE  m + BufferSize <= m_lastPublished[c] + BufferSize
      OBVIOUS
    <3>1. m <= m_lastPublished[c]
      BY <1>6, <2>3, GatesCoverAll
    <3>2. m_lastPublished[c] \in Int
      BY Constants DEF TypeOK
    <3> QED
      BY <3>1, <3>2, <1>6, Constants
  <2>5. ProducerKnows(p)'
    BY <2>2, <2>4 DEF ProducerKnows, LimitIsSafe
  <2>6. Reserved(p)' = Reserved(p) /\ Held(p)' = Held(p)
    BY <1>1, <2>2, NoClaim
  <2>7. \A q \in Producers \ {p} : published'[q] = published[q]
    BY <2>1 DEF TypeOK
  <2> QED
    BY <1>1, <2>2, <2>5, <2>6, <2>7, ProducerQuietFrame
<1> QED
  BY <1>7, <1>8

\* The loop body leaves a count that fits under the limit.
LEMMA TryClaimBodySafe ==
    ASSUME TypeOK, TypeOK', SafetyInv, NEW p \in Producers,
           pc[p] \notin {"claimWait", "write", "publish"},
           NEW next \in Int, next <= m_nextClaimable, NEW limit \in Int,
           \A c \in Consumers : limit <= m_lastPublished[c] + BufferSize,
           difference(limit, next) = limit - next,
           TryClaimBody(p, next, limit),
           UNCHANGED <<m_lastPublished, m_nextClaimable, m_published, readerVars, seq>>
    PROVE  SafetyInv'
<1> USE DEF TryClaimBody
<1>1. p \in Threads /\ count[p] \in Nat
  BY Constants DEF TypeOK
<1>2. /\ pc'[p] = "tryCas" /\ sequence'[p] = next /\ published'[p] = limit
      /\ size'[p] = Smaller(count[p], limit - next + 1)
      /\ \A u \in Threads \ {p} : Still(u)
  BY <1>1, GotoStill, TypesOfScans DEF TypeOK
<1>3. size'[p] \in Int /\ size'[p] <= limit - next + 1
  BY <1>1, <1>2 DEF Smaller
<1>4. ProducerKnows(p)'
  BY <1>2, <1>3 DEF ProducerKnows, LimitIsSafe, RangeLast, RangeEnd
<1>5. Reserved(p)' = Reserved(p) /\ Held(p)' = Held(p)
  BY <1>2, NoClaim
<1>6. \A q \in Producers \ {p} : sequence'[q] = sequence[q] /\ size'[q] = size[q]
                                 /\ published'[q] = published[q]
  BY DEF TypeOK
<1> QED
  BY <1>2, <1>4, <1>5, <1>6, ProducerQuietFrame

LEMMA ClaimFailsSafe ==
    ASSUME TypeOK, TypeOK', SafetyInv, NEW p \in Producers,
           pc[p] \notin {"claimWait", "write", "publish"}, ClaimFails(p),
           UNCHANGED <<m_lastPublished, m_nextClaimable, m_published, readerVars, seq>>
    PROVE  SafetyInv'
<1> USE DEF ClaimFails
<1>1. p \in Threads
  BY Constants
<1>2. pc'[p] = "idle" /\ \A u \in Threads \ {p} : Still(u)
  BY <1>1, GotoStill, TypesOfScans
<1>3. Reserved(p)' = Reserved(p) /\ Held(p)' = Held(p)
  BY <1>2, NoClaim
<1>4. ProducerKnows(p)'
  BY <1>2 DEF ProducerKnows, LimitIsSafe
<1>5. \A q \in Producers \ {p} : sequence'[q] = sequence[q] /\ size'[q] = size[q]
                                 /\ published'[q] = published[q]
  BY DEF TypeOK
<1> QED
  BY <1>2, <1>3, <1>4, <1>5, ProducerQuietFrame

\* A round of the loop for the current value of the counter.
LEMMA TryClaimRoundSafe ==
    ASSUME TypeOK, TypeOK', SafetyInv, ActiveWindow, NEW p \in Producers,
           pc[p] \in {"tryLoad", "tryCas"},
           \/ TryClaimBody(p, m_nextClaimable, published[p])
           \/ TryClaimNoRoom(p, m_nextClaimable),
           UNCHANGED <<m_lastPublished, m_nextClaimable, m_published, readerVars, seq>>
    PROVE  SafetyInv'
<1>1. p \in Threads /\ m_nextClaimable \in Int /\ published[p] \in Int
  BY Constants DEF TypeOK
<1>2. \A c \in Consumers : published[p] <= m_lastPublished[c] + BufferSize
  BY DEF SafetyInv, LimitInv, ProducerKnows, LimitIsSafe
<1>3. CASE TryClaimBody(p, m_nextClaimable, published[p])
  <2>1. PICK c \in Consumers : TRUE
    BY SomeReader
  <2>2. /\ m_lastPublished[c] \in Int /\ m_lastPublished[c] < m_nextClaimable
        /\ m_nextClaimable - m_lastPublished[c] < HalfModulus - BufferSize
    BY <2>1, ReaderWindow
  <2>3. m_nextClaimable - published[p] < HalfModulus - BufferSize
    BY ProducerWindow
  <2>4. BufferSize \in Nat /\ HalfModulus \in Nat
    BY Constants
  <2>5. /\ -HalfModulus <= published[p] - m_nextClaimable
        /\ published[p] - m_nextClaimable < HalfModulus
    BY <1>1, <1>2, <2>1, <2>2, <2>3, <2>4
  <2>6. difference(published[p], m_nextClaimable) = published[p] - m_nextClaimable
    BY <1>1, <2>5, DifferenceExact
  <2> QED
    BY <1>1, <1>2, <1>3, <2>6, TryClaimBodySafe
<1>4. CASE ClaimFails(p)
  BY <1>4, ClaimFailsSafe
<1>5. CASE TryClaimNoRoom(p, m_nextClaimable) /\ ~ClaimFails(p)
  <2>1. /\ Goto(p, "timedWait")
        /\ sequence' = [sequence EXCEPT ![p] = m_nextClaimable]
        /\ size' = [size EXCEPT ![p] = 0] /\ UNCHANGED published
    BY <1>5 DEF TryClaimNoRoom
  <2>2. /\ pc'[p] = "timedWait" /\ idx'[p] = 0 /\ sequence'[p] = m_nextClaimable
        /\ \A u \in Threads \ {p} : Still(u)
    BY <1>1, <2>1, GotoStill, TypesOfScans DEF TypeOK
  <2>3. ProducerKnows(p)'
    BY <1>1, <2>2 DEF ProducerKnows, LimitIsSafe, ScannedSoFar
  <2>4. Reserved(p)' = Reserved(p) /\ Held(p)' = Held(p)
    BY <2>2, NoClaim
  <2>5. \A q \in Producers \ {p} : sequence'[q] = sequence[q] /\ size'[q] = size[q]
                                   /\ published'[q] = published[q]
    BY <2>1 DEF TypeOK
  <2> QED
    BY <2>2, <2>3, <2>4, <2>5, ProducerQuietFrame
<1> QED
  BY <1>3, <1>4, <1>5

LEMMA TryClaimCasSafe ==
    ASSUME TypeOK, TypeOK', SafetyInv, ActiveWindow, NEW p \in Producers,
           TryClaimCas(p)
    PROVE  SafetyInv'
<1> USE DEF TryClaimCas
<1>1. /\ p \in Threads /\ pc[p] = "tryCas" /\ m_nextClaimable \in Int
      /\ sequence[p] \in Int /\ size[p] \in Nat /\ published[p] \in Int
  BY Constants DEF TypeOK
<1>2. CASE ~SameWord(m_nextClaimable, sequence[p])
  BY <1>1, <1>2, TryClaimRoundSafe
<1>3. CASE SameWord(m_nextClaimable, sequence[p])
  <2>1. /\ sequence[p] <= m_nextClaimable
        /\ RangeLast(sequence[p], size[p]) <= published[p]
        /\ \A c \in Consumers : published[p] <= m_lastPublished[c] + BufferSize
    BY <1>1 DEF SafetyInv, LimitInv, ProducerKnows, LimitIsSafe
  <2>2. m_nextClaimable - sequence[p] < HalfModulus - BufferSize
    BY <1>1, ProducerWindow
  <2>3. m_nextClaimable = sequence[p]
    <3>1. BufferSize \in Nat /\ HalfModulus \in Nat /\ SeqModulus = 2 * HalfModulus
      BY Constants
    <3>2. /\ -SeqModulus < m_nextClaimable - sequence[p]
          /\ m_nextClaimable - sequence[p] < SeqModulus
      BY <1>1, <2>1, <2>2, <3>1, HalfModulusAssumption
    <3> QED
      BY <1>1, <1>3, <3>2, SameWordExact
  <2>4. /\ m_nextClaimable' = m_nextClaimable + size[p]
        /\ ClaimReturns(p, size[p]) /\ UNCHANGED <<sequence, size>>
        /\ UNCHANGED <<m_lastPublished, readerVars, m_published, seq>>
    BY <1>3
  <2>5. /\ pc'[p] = (IF size[p] = 0 THEN "idle" ELSE "write") /\ idx'[p] = 0
        /\ \A u \in Threads \ {p} : Still(u)
        /\ \A q \in Producers \ {p} : published'[q] = published[q]
    BY <1>1, <2>4, GotoStill, TypesOfScans DEF ClaimReturns, TypeOK
  <2>6. /\ Reserved(p)' = m_nextClaimable .. m_nextClaimable + size[p] - 1
        /\ Held(p)' = Reserved(p)'
    BY <1>1, <2>3, <2>4, <2>5 DEF Reserved, Held, RangeLast, RangeEnd
  <2>7. ASSUME NEW s \in Held(p)', NEW c \in Consumers
        PROVE  s <= m_lastPublished[c] + BufferSize
    <3>1. s \in Int /\ s <= RangeLast(sequence[p], size[p])
      BY <1>1, <2>3, <2>6, <2>7 DEF RangeLast, RangeEnd
    <3>2. m_lastPublished[c] \in Int /\ RangeLast(sequence[p], size[p]) \in Int
      BY <1>1, Constants DEF TypeOK, RangeLast, RangeEnd
    <3> QED
      BY <1>1, <2>1, <3>1, <3>2, Constants
  <2>8. ProducerKnows(p)'
    BY <1>1, <2>4, <2>5 DEF ProducerKnows, LimitIsSafe
  <2>9. Reserved(p) = {} /\ Held(p) = {}
    BY <1>1, NoClaim
  <2> QED
    BY <1>1, <2>4, <2>5, <2>6, <2>7, <2>8, <2>9, NewClaimFrame
<1> QED
  BY <1>2, <1>3

\* A scan of the claim barrier on the way to a claim.
LEMMA ClaimScanSafe ==
    ASSUME TypeOK, TypeOK', SafetyInv, NEW p \in Producers,
           pc[p] \in {"claimWait", "timedWait"}, NEW floor \in Int,
           pc[p] = "claimWait" => floor = ClaimFloor(sequence[p], size[p]),
           pc[p] = "timedWait" => floor = sequence[p] - BufferSize,
           \A c \in Consumers : /\ -HalfModulus <= m_lastPublished[c] - floor
                                /\ m_lastPublished[c] - floor < HalfModulus,
           Rescan(p, ClaimBarriers, floor) \/ ScanOn(p, ClaimBarriers, floor),
           UNCHANGED <<sequence, size, published, m_nextClaimable, m_published,
                       readerVars, seq>>
    PROVE  SafetyInv'
<1>1. /\ p \in Threads /\ pc[p] \in Scanning
      /\ ClaimBarriers = ScannedGroup(p, pc[p]) /\ ClaimBarriers \in Seq(Barriers)
  BY GroupTypes, Constants DEF Scanning, ScannedGroup
<1>2. ScannedSoFar(p, ClaimBarriers, floor)
  BY DEF SafetyInv, LimitInv, ProducerKnows
<1>3. /\ pc' = pc /\ UNCHANGED m_lastPublished
      /\ \A u \in Threads \ {p} : Still(u)
      /\ \A i \in 1 .. idx'[p] :
            acc'[p] >= 0 /\ floor + acc'[p] <= m_lastPublished'[ClaimBarriers[i]]
  BY <1>1, <1>2, ScanStep, TypesOfScans, GroupComparable
<1>4. ProducerKnows(p)
  BY DEF SafetyInv, LimitInv
<1>5. ProducerKnows(p)'
  <2>1. pc'[p] = "claimWait" =>
          ScannedSoFar(p, ClaimBarriers, ClaimFloor(sequence[p], size[p]))'
    BY <1>3 DEF ScannedSoFar, ClaimFloor, RangeLast, RangeEnd
  <2>2. pc'[p] = "timedWait" =>
          ScannedSoFar(p, ClaimBarriers, sequence[p] - BufferSize)'
    BY <1>3 DEF ScannedSoFar
  <2> QED
    BY <1>3, <1>4, <2>1, <2>2 DEF ProducerKnows, LimitIsSafe
<1>6. Reserved(p)' = Reserved(p) /\ Held(p)' = Held(p)
  BY <1>3 DEF Reserved, Held, RangeLast, RangeEnd
<1> QED
  BY <1>3, <1>5, <1>6, ProducerQuietFrame

\* The barriers are less than half the modulus from what a claim waits for.
LEMMA ClaimComparable ==
    ASSUME TypeOK, SafetyInv, ActiveWindow, NEW p \in Producers,
           pc[p] \in {"claimWait", "timedWait"}, NEW floor \in Int,
           pc[p] = "claimWait" => floor = ClaimFloor(sequence[p], size[p]),
           pc[p] = "timedWait" => floor = sequence[p] - BufferSize,
           NEW c \in Consumers
    PROVE  /\ -HalfModulus <= m_lastPublished[c] - floor
           /\ m_lastPublished[c] - floor < HalfModulus
<1>1. /\ sequence[p] \in Int /\ size[p] \in Nat /\ m_nextClaimable \in Int
      /\ BufferSize \in Nat /\ HalfModulus \in Nat
  BY Constants DEF TypeOK
<1>2. /\ m_nextClaimable - sequence[p] < HalfModulus - BufferSize
      /\ pc[p] = "claimWait" => sequence[p] + size[p] <= m_nextClaimable
      /\ pc[p] = "timedWait" => sequence[p] <= m_nextClaimable
  BY ProducerWindow DEF SafetyInv, LimitInv, ProducerKnows
<1>3. /\ m_lastPublished[c] \in Int /\ m_lastPublished[c] < m_nextClaimable
      /\ m_nextClaimable - m_lastPublished[c] < HalfModulus - BufferSize
  BY ReaderWindow
<1>4. CASE pc[p] = "claimWait"
  <2>1. floor = sequence[p] + size[p] - 1 - BufferSize
    BY <1>1, <1>4 DEF ClaimFloor, RangeLast, RangeEnd
  <2>2. sequence[p] + size[p] <= m_nextClaimable
    BY <1>2, <1>4
  <2> QED
    BY <1>1, <1>2, <1>3, <2>1, <2>2
<1>5. CASE pc[p] = "timedWait"
  <2>1. floor = sequence[p] - BufferSize /\ sequence[p] <= m_nextClaimable
    BY <1>2, <1>5
  <2> QED
    BY <1>1, <1>2, <1>3, <2>1
<1> QED
  BY <1>4, <1>5

LEMMA TryClaimTimedWaitSafe ==
    ASSUME TypeOK, TypeOK', SafetyInv, ActiveWindow, NEW p \in Producers,
           TryClaimTimedWait(p)
    PROVE  SafetyInv'
<1> DEFINE floor == sequence[p] - BufferSize
<1>1. /\ p \in Threads /\ pc[p] = "timedWait" /\ pc[p] \in Scanning
      /\ ClaimBarriers = ScannedGroup(p, pc[p]) /\ ClaimBarriers \in Seq(Barriers)
      /\ sequence[p] \in Int /\ floor \in Int /\ m_nextClaimable \in Int
      /\ BufferSize \in Nat /\ HalfModulus \in Nat
  BY GroupTypes, Constants DEF TryClaimTimedWait, Scanning, ScannedGroup, TypeOK
<1>0. floor = sequence[p] - BufferSize
  OBVIOUS
<1>2. /\ sequence[p] <= m_nextClaimable /\ ScannedSoFar(p, ClaimBarriers, floor)
      /\ m_nextClaimable - sequence[p] < HalfModulus - BufferSize
  BY <1>1, ProducerWindow DEF SafetyInv, LimitInv, ProducerKnows
<1>i. /\ sequence[p] \in Int /\ floor \in Int /\ m_nextClaimable \in Int
      /\ BufferSize \in Nat /\ HalfModulus \in Nat
      /\ sequence[p] <= m_nextClaimable
      /\ m_nextClaimable - sequence[p] < HalfModulus - BufferSize
  BY <1>1, <1>2
<1> HIDE DEF floor
<1>3. \A c \in Consumers : /\ -HalfModulus <= m_lastPublished[c] - floor
                           /\ m_lastPublished[c] - floor < HalfModulus
  BY <1>0, <1>1, ClaimComparable
<1>4. CASE /\ Rescan(p, ClaimBarriers, floor) \/ ScanOn(p, ClaimBarriers, floor)
           /\ UNCHANGED <<sequence, size, count, published>>
  BY <1>0, <1>1, <1>3, <1>4, ClaimScanSafe DEF TryClaimTimedWait
<1>5. CASE ClaimFails(p) /\ UNCHANGED m_lastPublished
  BY <1>1, <1>5, ClaimFailsSafe DEF TryClaimTimedWait
<1>6. CASE /\ ScanDone(p, ClaimBarriers, floor)
           /\ TryClaimBody(p, sequence[p],
                           ScanResult(p, ClaimBarriers, floor) + BufferSize)
           /\ UNCHANGED m_lastPublished
  <2> DEFINE r == ScanResult(p, ClaimBarriers, floor)
  <2>1. /\ r \in Int /\ floor <= r
        /\ \A b \in Elems(ClaimBarriers) : b \in Consumers /\ r <= m_lastPublished[b]
    BY <1>1, <1>2, <1>3, <1>6, ScanDoneBounds, TypesOfScans, GroupComparable
  <2> HIDE DEF r
  <2>2. \A c \in Consumers : r <= m_lastPublished[c] /\ m_lastPublished[c] \in Int
    BY <2>1, GatesCoverAll, Constants DEF TypeOK
  <2> DEFINE limit == r + BufferSize
  <2>3. \A c \in Consumers : limit <= m_lastPublished[c] + BufferSize
    BY <1>i, <2>1, <2>2
  <2>4. PICK c \in Consumers : TRUE
    BY SomeReader
  <2>5. r <= m_lastPublished[c] /\ m_lastPublished[c] \in Int
    BY <2>2, <2>4
  <2>6. r \in Int /\ floor <= r /\ m_lastPublished[c] - floor < HalfModulus
    BY <1>3, <2>1, <2>4
  <2>7. /\ limit \in Int /\ -HalfModulus <= limit - sequence[p]
        /\ limit - sequence[p] < HalfModulus
    BY <1>0, <1>i, <2>5, <2>6
  <2>8. TryClaimBody(p, sequence[p], limit)
    BY <1>6 DEF r
  <2> HIDE DEF limit
  <2>9. difference(limit, sequence[p]) = limit - sequence[p]
    BY <1>i, <2>7, DifferenceExact
  <2>10. /\ pc[p] \notin {"claimWait", "write", "publish"}
         /\ UNCHANGED <<m_lastPublished, m_nextClaimable, m_published, readerVars, seq>>
    BY <1>1, <1>6 DEF TryClaimTimedWait
  <2> QED
    BY <1>i, <2>3, <2>7, <2>8, <2>9, <2>10, TryClaimBodySafe
<1> QED
  BY <1>0, <1>4, <1>5, <1>6 DEF TryClaimTimedWait

\* A claim's wait returns the range it has reserved.
LEMMA ClaimGrantedSafe ==
    ASSUME TypeOK, TypeOK', SafetyInv, NEW p \in Producers, pc[p] = "claimWait",
           \A c \in Consumers :
              RangeLast(sequence[p], size[p]) <= m_lastPublished[c] + BufferSize,
           ClaimReturns(p, size[p]),
           UNCHANGED <<m_lastPublished, readerVars, m_nextClaimable, m_published,
                       sequence, size, seq>>
    PROVE  SafetyInv'
<1>1. /\ p \in Threads /\ sequence[p] \in Int /\ size[p] \in Nat
      /\ m_nextClaimable \in Int /\ BufferSize \in Nat
  BY Constants DEF TypeOK
<1>2. /\ pc'[p] = (IF size[p] = 0 THEN "idle" ELSE "write") /\ idx'[p] = 0
      /\ \A u \in Threads \ {p} : Still(u)
      /\ \A q \in Producers \ {p} : published'[q] = published[q]
  BY <1>1, GotoStill, TypesOfScans DEF ClaimReturns, TypeOK
<1>3. Reserved(p)' = Reserved(p) /\ Held(p)' = Reserved(p) /\ Held(p) = {}
  BY <1>1, <1>2 DEF Reserved, Held, RangeLast, RangeEnd
<1>4. \A q \in Producers \ {p} : Still(q)
  BY <1>2, Constants
<1>5. \A c \in Consumers : Still(c)
  BY <1>2, Constants
<1>6. EntriesGrow /\ m_nextClaimable' >= m_nextClaimable
  BY <1>1 DEF EntriesGrow, TypeOK
<1>7. ReaderInv' /\ BarriersInv'
  BY <1>5, <1>6, ReadersStay DEF readerVars
<1>8. ProducerKnows(p)'
  BY <1>1, <1>2 DEF ProducerKnows, LimitIsSafe
<1>9. /\ LimitInv'
      /\ \A q \in Producers \ {p} : Reserved(q)' = Reserved(q) /\ Held(q)' = Held(q)
  BY <1>2, <1>4, <1>6, <1>8, OtherProducersStay
<1>10. EntriesInv'
  BY DEF SafetyInv, EntriesInv
<1>11. ClaimInv'
  <2>1. ASSUME NEW s \in Held(p)', NEW c \in Consumers
        PROVE  s <= m_lastPublished[c] + BufferSize
    <3>1. /\ s \in Int /\ s <= RangeLast(sequence[p], size[p])
          /\ RangeLast(sequence[p], size[p]) \in Int
      BY <1>1, <1>3, <2>1 DEF Reserved, RangeLast, RangeEnd
    <3>2. m_lastPublished[c] \in Int
      BY Constants DEF TypeOK
    <3> QED
      BY <1>1, <3>1, <3>2
  <2>2. \A q \in Producers : \A s \in Held(q)', c \in Consumers :
          s <= m_lastPublished[c] + BufferSize
    BY <2>1, <1>9 DEF SafetyInv, ClaimInv
  <2>3. \A q \in Producers : \A s \in Reserved(q)' :
          0 <= s /\ s < m_nextClaimable /\ ~Published(s)
    BY <1>3, <1>9 DEF SafetyInv, ClaimInv
  <2> QED
    BY <2>2, <2>3 DEF ClaimInv, Published
<1>12. OwnersInv'
  <2>1. \A q \in Producers : Reserved(q)' = Reserved(q)
    BY <1>3, <1>9
  <2> QED
    BY <2>1 DEF SafetyInv, OwnersInv, Published
<1>13. ItemsInv'
  <2>1. \A k \in Slots : \/ m_published[k] < 0
                         \/ buffer[k] = m_published[k]
                         \/ \E q \in Producers : k \in SlotsOf(Held(q))'
    BY <1>3, <1>9 DEF SafetyInv, ItemsInv, SlotsOf
  <2>2. ASSUME NEW q \in Producers
        PROVE  /\ pc'[q] = "write" => \A i \in 0 .. idx'[q] - 1 :
                    buffer[Slot(RangeAt(sequence'[q], i))] = RangeAt(sequence'[q], i)
               /\ pc'[q] = "publish" => \A s \in Held(q)' : buffer[Slot(s)] = s
    <3>1. CASE q = p
      BY <3>1, <1>2
    <3>2. CASE q # p
      BY <3>2, <1>4, <1>9 DEF SafetyInv, ItemsInv, Still
    <3> QED
      BY <3>1, <3>2
  <2> QED
    BY <2>1, <2>2 DEF ItemsInv, readerVars
<1> QED
  BY <1>7, <1>9, <1>10, <1>11, <1>12, <1>13 DEF SafetyInv

LEMMA ClaimWaitSafe ==
    ASSUME TypeOK, TypeOK', SafetyInv, ActiveWindow, NEW p \in Producers, ClaimWait(p)
    PROVE  SafetyInv'
<1> DEFINE floor == ClaimFloor(sequence[p], size[p])
<1>1. /\ p \in Threads /\ pc[p] = "claimWait" /\ pc[p] \in Scanning
      /\ ClaimBarriers = ScannedGroup(p, pc[p]) /\ ClaimBarriers \in Seq(Barriers)
  BY GroupTypes, Constants DEF ClaimWait, Scanning, ScannedGroup
<1>2. ScannedSoFar(p, ClaimBarriers, floor)
  BY <1>1 DEF SafetyInv, LimitInv, ProducerKnows
<1>i. /\ sequence[p] \in Int /\ size[p] \in Nat /\ m_nextClaimable \in Int
      /\ BufferSize \in Nat /\ HalfModulus \in Nat
      /\ sequence[p] + size[p] <= m_nextClaimable
      /\ m_nextClaimable - sequence[p] < HalfModulus - BufferSize
  BY <1>1, ProducerWindow, Constants DEF SafetyInv, LimitInv, ProducerKnows, TypeOK
<1>0. floor = sequence[p] + size[p] - 1 - BufferSize
  BY <1>i DEF ClaimFloor, RangeLast, RangeEnd
<1>j. floor \in Int
  BY <1>0, <1>i
<1>c. /\ \/ /\ Rescan(p, ClaimBarriers, floor) \/ ScanOn(p, ClaimBarriers, floor)
            /\ UNCHANGED published
         \/ /\ ScanDone(p, ClaimBarriers, floor) /\ ClaimReturns(p, size[p])
            /\ UNCHANGED m_lastPublished
      /\ UNCHANGED <<readerVars, m_nextClaimable, m_published, sequence, size, seq>>
  BY DEF ClaimWait
<1>f. floor = ClaimFloor(sequence[p], size[p])
  OBVIOUS
<1> HIDE DEF floor
<1>3. \A c \in Consumers : /\ -HalfModulus <= m_lastPublished[c] - floor
                           /\ m_lastPublished[c] - floor < HalfModulus
  BY <1>1, <1>f, <1>j, ClaimComparable
<1>4. CASE /\ Rescan(p, ClaimBarriers, floor) \/ ScanOn(p, ClaimBarriers, floor)
           /\ UNCHANGED published
  BY <1>1, <1>3, <1>4, <1>c, <1>f, <1>j, ClaimScanSafe
<1>5. CASE /\ ScanDone(p, ClaimBarriers, floor) /\ ClaimReturns(p, size[p])
           /\ UNCHANGED m_lastPublished
  <2> DEFINE r == ScanResult(p, ClaimBarriers, floor)
  <2>1. /\ r \in Int /\ floor <= r
        /\ \A b \in Elems(ClaimBarriers) : b \in Consumers /\ r <= m_lastPublished[b]
    BY <1>1, <1>2, <1>3, <1>5, <1>j, ScanDoneBounds, TypesOfScans, GroupComparable
  <2> HIDE DEF r
  <2>2. \A c \in Consumers :
          RangeLast(sequence[p], size[p]) <= m_lastPublished[c] + BufferSize
    <3> SUFFICES ASSUME NEW c \in Consumers
                 PROVE  RangeLast(sequence[p], size[p]) <= m_lastPublished[c] + BufferSize
      OBVIOUS
    <3>1. r <= m_lastPublished[c]
      BY <2>1, GatesCoverAll
    <3>2. m_lastPublished[c] \in Int
      BY Constants DEF TypeOK
    <3> QED
      BY <1>0, <1>i, <1>j, <2>1, <3>1, <3>2 DEF RangeLast, RangeEnd
  <2> QED
    BY <1>1, <1>5, <1>c, <2>2, ClaimGrantedSafe
<1> QED
  BY <1>c, <1>4, <1>5

LEMMA WriteItemSafe ==
    ASSUME TypeOK, TypeOK', SafetyInv, NEW p \in Producers, WriteItem(p)
    PROVE  SafetyInv'
<1> DEFINE s == RangeAt(sequence[p], idx[p])
<1>1. /\ p \in Threads /\ pc[p] = "write" /\ idx[p] < size[p]
      /\ sequence[p] \in Int /\ size[p] \in Nat /\ idx[p] \in Nat
  BY Constants DEF WriteItem, SafetyInv, LimitInv, ProducerKnows, TypeOK
<1>2. /\ buffer' = [buffer EXCEPT ![Slot(s)] = s]
      /\ UNCHANGED <<m_lastPublished, nextToRead, target, available, claimVars, seq>>
      /\ \/ idx[p] + 1 = size[p] /\ Goto(p, "publish")
         \/ idx[p] + 1 # size[p] /\ Again(p, 0)
  BY DEF WriteItem
<1>3. /\ \A u \in Threads \ {p} : Still(u)
      /\ \/ idx[p] + 1 = size[p] /\ pc'[p] = "publish" /\ idx'[p] = 0
         \/ idx[p] + 1 < size[p] /\ pc'[p] = "write" /\ idx'[p] = idx[p] + 1
  BY <1>1, <1>2 DEF Goto, Again, Still, TypeOK
<1>4. /\ Held(p) = sequence[p] .. RangeLast(sequence[p], size[p])
      /\ Reserved(p) = Held(p) /\ Held(p)' = Held(p) /\ Reserved(p)' = Held(p)
  BY <1>1, <1>2, <1>3 DEF Held, Reserved, RangeLast, RangeEnd, claimVars
<1>5. s \in Held(p) /\ s \in Int
  BY <1>1, <1>4 DEF RangeAt, RangeLast, RangeEnd
<1>6. \A q \in Producers \ {p} : Still(q)
  BY <1>3, Constants
<1>7. \A c \in Consumers : Still(c)
  BY <1>3, Constants
<1>8. EntriesGrow /\ m_nextClaimable' >= m_nextClaimable
  BY <1>2 DEF EntriesGrow, TypeOK, claimVars
<1>9. ReaderInv' /\ BarriersInv'
  BY <1>2, <1>7, <1>8, ReadersStay
<1>10. ProducerKnows(p)'
  BY <1>1, <1>2, <1>3 DEF ProducerKnows, LimitIsSafe, claimVars
<1>11. /\ LimitInv'
       /\ \A q \in Producers \ {p} : Reserved(q)' = Reserved(q) /\ Held(q)' = Held(q)
  BY <1>2, <1>6, <1>8, <1>10, OtherProducersStay DEF claimVars
<1>12. \A q \in Producers : Reserved(q)' = Reserved(q) /\ Held(q)' = Held(q)
  BY <1>4, <1>11
<1>13. m_nextClaimable' >= 0 /\ EntriesInv' /\ ClaimInv' /\ OwnersInv'
  BY <1>2, <1>12 DEF SafetyInv, EntriesInv, ClaimInv, OwnersInv, Published, claimVars
<1>14. /\ Slot(s) \in Slots /\ buffer'[Slot(s)] = s
       /\ \A k \in Slots \ {Slot(s)} : buffer'[k] = buffer[k]
  BY <1>2, <1>5, SlotType DEF TypeOK
<1> HIDE DEF s
<1>15. ASSUME NEW q \in Producers, NEW t \in Held(q), t # s
       PROVE  buffer'[Slot(t)] = buffer[Slot(t)]
  <2>1. Slot(t) # Slot(s)
    BY <1>5, <1>15, HeldSlotsDistinct
  <2>2. t \in Int
    BY <1>15, HeldType
  <2> QED
    BY <1>14, <2>1, <2>2, SlotType
<1>16. ItemsInv'
  <2>1. ASSUME NEW k \in Slots
        PROVE  \/ m_published'[k] < 0
               \/ buffer'[k] = m_published'[k]
               \/ \E q \in Producers : k \in SlotsOf(Held(q))'
    <3>1. CASE k = Slot(s)
      BY <1>4, <1>5, <3>1 DEF SlotsOf
    <3>2. CASE k # Slot(s)
      BY <1>2, <1>12, <1>14, <3>2 DEF SafetyInv, ItemsInv, SlotsOf, claimVars
    <3> QED
      BY <3>1, <3>2
  <2>2. ASSUME NEW q \in Producers, pc'[q] = "write", NEW i \in 0 .. idx'[q] - 1
        PROVE  buffer'[Slot(RangeAt(sequence'[q], i))] = RangeAt(sequence'[q], i)
    <3> DEFINE t == RangeAt(sequence[q], i)
    <3>1. sequence' = sequence /\ size' = size
      BY <1>2 DEF claimVars
    <3>2. CASE t = s
      BY <1>14, <3>1, <3>2
    <3>3. CASE t # s
      <4>1. pc[q] = "write" /\ i \in 0 .. idx[q] - 1
        <5>1. CASE q = p
          BY <1>1, <1>3, <2>2, <3>3, <5>1 DEF s, RangeAt
        <5>2. CASE q # p
          BY <1>6, <2>2, <5>2 DEF Still
        <5> QED
          BY <5>1, <5>2
      <4>2. buffer[Slot(t)] = t
        BY <4>1 DEF SafetyInv, ItemsInv
      <4>3. t \in Held(q)
        <5>1. /\ sequence[q] \in Int /\ size[q] \in Nat /\ idx[q] \in Nat
              /\ idx[q] < size[q]
          BY <4>1, HeldType DEF SafetyInv, LimitInv, ProducerKnows
        <5> QED
          BY <4>1, <5>1 DEF Held, RangeAt, RangeLast, RangeEnd
      <4> QED
        BY <1>15, <3>1, <3>3, <4>2, <4>3
    <3> QED
      BY <3>2, <3>3
  <2>3. ASSUME NEW q \in Producers, pc'[q] = "publish", NEW t \in Held(q)'
        PROVE  buffer'[Slot(t)] = t
    <3>1. t \in Held(q)
      BY <1>12, <2>3
    <3>2. CASE t = s
      BY <1>14, <3>2
    <3>3. CASE t # s /\ q # p
      <4>1. pc[q] = "publish"
        BY <1>6, <2>3, <3>3 DEF Still
      <4>2. buffer[Slot(t)] = t
        BY <3>1, <4>1 DEF SafetyInv, ItemsInv
      <4> QED
        BY <1>15, <3>1, <3>3, <4>2
    <3>4. CASE t # s /\ q = p
      <4>1. idx[p] + 1 = size[p]
        BY <1>3, <2>3, <3>4
      <4> DEFINE i == t - sequence[p]
      <4>2. i \in 0 .. idx[p] - 1 /\ t = RangeAt(sequence[p], i)
        BY <1>1, <1>4, <3>1, <3>4, <4>1 DEF s, RangeAt, RangeLast, RangeEnd
      <4>3. buffer[Slot(t)] = t
        <5> HIDE DEF i
        <5> QED
          BY <1>1, <4>2 DEF SafetyInv, ItemsInv
      <4> QED
        BY <1>15, <3>1, <3>4, <4>3
    <3> QED
      BY <3>2, <3>3, <3>4
  <2> QED
    BY <2>1, <2>2, <2>3 DEF ItemsInv
<1> QED
  BY <1>9, <1>11, <1>13, <1>16 DEF SafetyInv

LEMMA PublishSafe ==
    ASSUME TypeOK, TypeOK', SafetyInv, NEW p \in Producers, Publish(p)
    PROVE  SafetyInv'
<1> DEFINE s == RangeAt(sequence[p], idx[p])
<1>1. /\ p \in Threads /\ pc[p] = "publish" /\ idx[p] < size[p]
      /\ sequence[p] \in Int /\ size[p] \in Nat /\ idx[p] \in Nat
  BY Constants DEF Publish, SafetyInv, LimitInv, ProducerKnows, TypeOK
<1>2. /\ m_published' = [m_published EXCEPT ![Slot(s)] = s]
      /\ UNCHANGED <<m_lastPublished, readerVars, m_nextClaimable, published, seq>>
      /\ \/ idx[p] + 1 < size[p] /\ Again(p, 0) /\ UNCHANGED <<sequence, size>>
         \/ /\ idx[p] + 1 = size[p] /\ Goto(p, "idle")
            /\ sequence' = [sequence EXCEPT ![p] = 0] /\ size' = [size EXCEPT ![p] = 0]
  BY DEF Publish, set_published
<1>3. /\ \A u \in Threads \ {p} : Still(u)
      /\ \A q \in Producers \ {p} : sequence'[q] = sequence[q] /\ size'[q] = size[q]
      /\ \/ idx[p] + 1 = size[p] /\ pc'[p] = "idle" /\ idx'[p] = 0
         \/ /\ idx[p] + 1 < size[p] /\ pc'[p] = "publish" /\ idx'[p] = idx[p] + 1
            /\ sequence'[p] = sequence[p] /\ size'[p] = size[p]
  BY <1>1, <1>2 DEF Goto, Again, Still, TypeOK
<1>4. /\ Held(p) = sequence[p] + idx[p] .. RangeLast(sequence[p], size[p])
      /\ Reserved(p) = Held(p) /\ Reserved(p)' = Held(p)'
  BY <1>1, <1>3 DEF Held, Reserved, RangeLast, RangeEnd
<1>5. s \in Held(p) /\ s \in Int /\ Slot(s) \in Slots
  BY <1>1, <1>4, SlotType DEF RangeAt, RangeLast, RangeEnd
<1>6. Held(p)' = Held(p) \ {s}
  BY <1>1, <1>3, <1>4 DEF Held, RangeAt, RangeLast, RangeEnd
<1>7. \A q \in Producers \ {p} : Still(q)
  BY <1>3, Constants
<1>8. \A c \in Consumers : Still(c)
  BY <1>3, Constants
<1>9. m_published[Slot(s)] < s /\ m_published[Slot(s)] \in Int
  <2>1. s \in Reserved(p)
    BY <1>4, <1>5
  <2>2. ~Published(s)
    BY <2>1 DEF SafetyInv, ClaimInv
  <2> QED
    BY <1>5, <2>2 DEF Published, TypeOK
<1> HIDE DEF s
<1>10. /\ m_published'[Slot(s)] = s
       /\ \A k \in Slots \ {Slot(s)} : m_published'[k] = m_published[k]
       /\ \A k \in Slots : m_published[k] \in Int
  BY <1>2, <1>5 DEF TypeOK
<1>11. EntriesGrow /\ m_nextClaimable' >= m_nextClaimable
  BY <1>2, <1>5, <1>9, <1>10 DEF EntriesGrow, TypeOK
<1>12. ReaderInv' /\ BarriersInv'
  BY <1>2, <1>8, <1>11, ReadersStay DEF readerVars
<1>13. ProducerKnows(p)'
  BY <1>1, <1>3 DEF ProducerKnows, LimitIsSafe
<1>14. /\ LimitInv'
       /\ \A q \in Producers \ {p} : Reserved(q)' = Reserved(q) /\ Held(q)' = Held(q)
  BY <1>2, <1>3, <1>7, <1>11, <1>13, OtherProducersStay
<1>15. \A q \in Producers : /\ Reserved(q)' = Reserved(q) \ {s}
                             /\ Held(q)' = Held(q) \ {s}
  <2>1. ASSUME NEW q \in Producers \ {p}
        PROVE  s \notin Reserved(q) /\ s \notin Held(q)
    <3>1. Reserved(p) \cap Reserved(q) = {}
      BY DEF SafetyInv, OwnersInv
    <3> QED
      BY <1>4, <1>5, <3>1, HeldType
  <2> QED
    BY <1>4, <1>6, <1>14, <2>1
<1>16. \A c \in Consumers : s <= m_lastPublished[c] + BufferSize
  BY <1>5 DEF SafetyInv, ClaimInv
<1>17. 0 <= s /\ s < m_nextClaimable
  BY <1>4, <1>5 DEF SafetyInv, ClaimInv
<1>18. EntriesInv'
  <2> SUFFICES ASSUME NEW k \in Slots
               PROVE  /\ Slot(m_published'[k]) = k
                      /\ m_published'[k] < m_nextClaimable
                      /\ \A c \in Consumers :
                            m_published'[k] <= m_lastPublished[c] + BufferSize
    BY <1>2 DEF EntriesInv
  <2>1. CASE k = Slot(s)
    BY <1>10, <1>16, <1>17, <2>1
  <2>2. CASE k # Slot(s)
    BY <1>10, <2>2 DEF SafetyInv, EntriesInv
  <2> QED
    BY <2>1, <2>2
<1>19. ClaimInv'
  <2>1. ASSUME NEW q \in Producers, NEW t \in Reserved(q)'
        PROVE  0 <= t /\ t < m_nextClaimable' /\ ~Published(t)'
    <3>1. t \in Reserved(q) /\ t # s
      BY <1>15, <2>1
    <3>2. t \in Int /\ Slot(t) \in Slots
      BY <3>1, HeldType, SlotType
    <3>3. 0 <= t /\ t < m_nextClaimable /\ ~Published(t)
      BY <3>1 DEF SafetyInv, ClaimInv
    <3>4. CASE Slot(t) # Slot(s)
      BY <1>2, <1>10, <3>2, <3>3, <3>4 DEF Published
    <3>5. CASE Slot(t) = Slot(s)
      <4>1. ~(t < s)
        <5> SUFFICES ASSUME t < s PROVE FALSE
          OBVIOUS
        <5>1. PICK c \in Consumers : TRUE
          BY SomeReader
        <5>2. t + BufferSize <= s
          BY <1>5, <3>2, <3>5, SlotApart
        <5>3. /\ m_lastPublished[c] \in Int /\ BufferSize \in Nat
              /\ s <= m_lastPublished[c] + BufferSize
          BY <1>16, <5>1, Constants DEF TypeOK
        <5>4. t <= m_lastPublished[c]
          BY <1>5, <3>2, <5>2, <5>3
        <5>5. t \in -BufferSize .. m_lastPublished[c]
          BY <3>2, <3>3, <5>3, <5>4
        <5>6. PublishedUpTo(m_lastPublished[c])
          BY <5>1 DEF SafetyInv, BarriersInv
        <5> QED
          BY <3>3, <5>5, <5>6 DEF PublishedUpTo
      <4>2. m_published'[Slot(t)] = s
        BY <1>10, <3>5
      <4>3. ~(s >= t)
        BY <1>5, <3>1, <3>2, <4>1
      <4>4. ~Published(t)'
        BY <4>2, <4>3 DEF Published
      <4> QED
        BY <1>2, <3>3, <4>4
    <3> QED
      BY <3>4, <3>5
  <2>2. ASSUME NEW q \in Producers, NEW t \in Held(q)', NEW c \in Consumers
        PROVE  t <= m_lastPublished'[c] + BufferSize
    BY <1>2, <1>15, <2>2 DEF SafetyInv, ClaimInv
  <2> QED
    BY <2>1, <2>2 DEF ClaimInv
<1>20. OwnersInv'
  <2>1. \A q, r \in Producers : q # r => Reserved(q)' \cap Reserved(r)' = {}
    <3> SUFFICES ASSUME NEW q \in Producers, NEW r \in Producers, q # r
                 PROVE  Reserved(q)' \cap Reserved(r)' = {}
      OBVIOUS
    <3>1. Reserved(q) \cap Reserved(r) = {}
      BY DEF SafetyInv, OwnersInv
    <3> QED
      BY <1>15, <3>1
  <2>2. ASSUME NEW t \in 0 .. m_nextClaimable - 1
        PROVE  Published(t)' \/ \E q \in Producers : t \in Reserved(q)'
    <3>0. t \in Int
      BY DEF TypeOK
    <3>1. CASE t = s
      BY <1>5, <1>10, <3>1 DEF Published
    <3>2. CASE Published(t)
      BY <1>11, <3>0, <3>2, PublishedStays
    <3>3. CASE t # s /\ \E q \in Producers : t \in Reserved(q)
      BY <1>15, <3>3
    <3>4. Published(t) \/ \E q \in Producers : t \in Reserved(q)
      BY DEF SafetyInv, OwnersInv
    <3> QED
      BY <3>1, <3>2, <3>3, <3>4
  <2> QED
    BY <1>2, <2>1, <2>2 DEF OwnersInv
<1>21. ItemsInv'
  <2>0. buffer' = buffer
    BY <1>2 DEF readerVars
  <2>1. ASSUME NEW k \in Slots
        PROVE  \/ m_published'[k] < 0
               \/ buffer'[k] = m_published'[k]
               \/ \E q \in Producers : k \in SlotsOf(Held(q))'
    <3>1. CASE k = Slot(s)
      <4>1. buffer[Slot(s)] = s
        BY <1>1, <1>5 DEF SafetyInv, ItemsInv
      <4> QED
        BY <1>10, <2>0, <3>1, <4>1
    <3>2. CASE k # Slot(s)
      <4>1. m_published'[k] = m_published[k]
        BY <1>10, <3>2
      <4>2. ASSUME NEW q \in Producers, k \in SlotsOf(Held(q))
            PROVE  k \in SlotsOf(Held(q))'
        <5>1. PICK t \in Held(q) : k = Slot(t)
          BY <4>2 DEF SlotsOf
        <5>2. t \in Held(q)'
          BY <1>15, <3>2, <5>1
        <5> QED
          BY <5>1, <5>2 DEF SlotsOf
      <4> QED
        BY <2>0, <4>1, <4>2 DEF SafetyInv, ItemsInv
    <3> QED
      BY <3>1, <3>2
  <2>2. ASSUME NEW q \in Producers
        PROVE  /\ pc'[q] = "write" => \A i \in 0 .. idx'[q] - 1 :
                    buffer'[Slot(RangeAt(sequence'[q], i))] = RangeAt(sequence'[q], i)
               /\ pc'[q] = "publish" => \A t \in Held(q)' : buffer'[Slot(t)] = t
    <3>1. CASE q = p
      BY <1>1, <1>3, <1>6, <2>0, <3>1 DEF SafetyInv, ItemsInv
    <3>2. CASE q # p
      BY <1>3, <1>7, <1>14, <2>0, <3>2 DEF SafetyInv, ItemsInv, Still
    <3> QED
      BY <3>1, <3>2
  <2> QED
    BY <2>1, <2>2 DEF ItemsInv
<1>22. m_nextClaimable' >= 0
  BY <1>2 DEF SafetyInv
<1> QED
  BY <1>12, <1>14, <1>18, <1>19, <1>20, <1>21, <1>22 DEF SafetyInv

LEMMA ProducerStepSafe ==
    ASSUME TypeOK, TypeOK', SafetyInv, ActiveWindow, NEW p \in Producers,
           ClaimFetchAdd(p) \/ TryClaimBegin(p) \/ ProducerWorks(p)
    PROVE  SafetyInv'
<1>1. CASE ClaimFetchAdd(p)
  BY <1>1, ClaimFetchAddSafe
<1>2. CASE TryClaimBegin(p)
  BY <1>2, TryClaimBeginSafe
<1>3. CASE ClaimWait(p)
  BY <1>3, ClaimWaitSafe
<1>4. CASE TryClaimScan(p)
  BY <1>4, TryClaimScanSafe
<1>5. CASE TryClaimLoad(p)
  BY <1>5, TryClaimRoundSafe DEF TryClaimLoad
<1>6. CASE TryClaimCas(p)
  BY <1>6, TryClaimCasSafe
<1>7. CASE TryClaimTimedWait(p)
  BY <1>7, TryClaimTimedWaitSafe
<1>8. CASE WriteItem(p)
  BY <1>8, WriteItemSafe
<1>9. CASE Publish(p)
  BY <1>9, PublishSafe
<1> QED
  BY <1>1, <1>2, <1>3, <1>4, <1>5, <1>6, <1>7, <1>8, <1>9 DEF ProducerWorks

LEMMA SafetyStutters ==
    ASSUME SafetyInv, UNCHANGED vars
    PROVE  SafetyInv'
<1> USE DEF vars, barrierVars, readerVars, claimVars
<1>1. /\ \A q \in Producers : Reserved(q)' = Reserved(q) /\ Held(q)' = Held(q)
      /\ \A x : Published(x)' = Published(x)
  BY DEF Reserved, Held, RangeLast, RangeEnd, Published
<1>2. EntriesInv' /\ BarriersInv'
  BY DEF SafetyInv, EntriesInv, BarriersInv, PublishedUpTo, Published
<1>3. ReaderInv'
  BY DEF SafetyInv, ReaderInv, ReaderKnows, PublishedUpTo, Published, ScannedSoFar
<1>4. LimitInv'
  BY DEF SafetyInv, LimitInv, ProducerKnows, LimitIsSafe, ScannedSoFar
<1>5. ClaimInv' /\ OwnersInv'
  BY <1>1 DEF SafetyInv, ClaimInv, OwnersInv
<1>6. ItemsInv'
  BY <1>1 DEF SafetyInv, ItemsInv, SlotsOf
<1> QED
  BY <1>2, <1>3, <1>4, <1>5, <1>6 DEF SafetyInv

LEMMA SafetyStep ==
    ASSUME TypeOK, TypeOK', SafetyInv, ActiveWindow, [Next]_vars
    PROVE  SafetyInv'
<1>1. CASE \E p \in Producers :
              ClaimFetchAdd(p) \/ TryClaimBegin(p) \/ ProducerWorks(p)
  BY <1>1, ProducerStepSafe
<1>2. CASE \E c \in Consumers : ReaderBegins(c) \/ ConsumerWorks(c)
  BY <1>2, ReaderStepSafe
<1>3. CASE Terminated \/ UNCHANGED vars
  BY <1>3, SafetyStutters DEF Terminated
<1> QED
  BY <1>1, <1>2, <1>3 DEF Next

-----------------------------------------------------------------------------
(***************************************************************************)
(* What a step leaves alone.                                               *)
(***************************************************************************)

\* Every thread but t is where it was, with the locals it had.
OthersStay(t) ==
    /\ \A u \in Threads \ {t} : Still(u)
    /\ \A q \in Producers \ {t} : /\ sequence'[q] = sequence[q] /\ size'[q] = size[q]
                                  /\ published'[q] = published[q]
    /\ \A d \in Consumers \ {t} :
          /\ m_lastPublished'[d] = m_lastPublished[d] /\ target'[d] = target[d]
          /\ seq'[d] = seq[d] /\ available'[d] = available[d]

LEMMA ProducerStepFrame ==
    ASSUME TypeOK, NEW p \in Producers,
           ClaimFetchAdd(p) \/ TryClaimBegin(p) \/ ProducerWorks(p)
    PROVE  OthersStay(p) /\ UNCHANGED <<m_lastPublished, target, seq, available>>
<1>1. \E label : Goto(p, label) \/ \E value : Again(p, value)
  <2>1. CASE ClaimFetchAdd(p) \/ TryClaimBegin(p) \/ TryClaimScan(p) \/ WriteItem(p)
             \/ Publish(p)
    BY <2>1 DEF ClaimFetchAdd, TryClaimBegin, TryClaimScan, WriteItem, Publish
  <2>2. CASE ClaimWait(p)
    BY <2>2 DEF ClaimWait, ClaimReturns, Rescan, ScanOn
  <2>3. CASE TryClaimLoad(p) \/ TryClaimCas(p)
    BY <2>3 DEF TryClaimLoad, TryClaimCas, TryClaimBody, TryClaimNoRoom, ClaimFails,
                ClaimReturns
  <2>4. CASE TryClaimTimedWait(p)
    BY <2>4 DEF TryClaimTimedWait, TryClaimBody, ClaimFails, Rescan, ScanOn
  <2> QED
    BY <2>1, <2>2, <2>3, <2>4 DEF ProducerWorks
<1>2. /\ \E x : sequence' = [sequence EXCEPT ![p] = x] \/ sequence' = sequence
      /\ \E x : size' = [size EXCEPT ![p] = x] \/ size' = size
      /\ \E x : published' = [published EXCEPT ![p] = x] \/ published' = published
      /\ UNCHANGED <<m_lastPublished, target, seq, available>>
  <2>1. CASE ClaimFetchAdd(p) \/ TryClaimBegin(p) \/ TryClaimScan(p) \/ WriteItem(p)
             \/ Publish(p)
    BY <2>1 DEF ClaimFetchAdd, TryClaimBegin, TryClaimScan, WriteItem, Publish, claimVars,
                readerVars
  <2>2. CASE ClaimWait(p)
    BY <2>2 DEF ClaimWait, ClaimReturns, Rescan, ScanOn, readerVars
  <2>3. CASE TryClaimLoad(p) \/ TryClaimCas(p)
    BY <2>3 DEF TryClaimLoad, TryClaimCas, TryClaimBody, TryClaimNoRoom, ClaimFails,
                ClaimReturns, readerVars
  <2>4. CASE TryClaimTimedWait(p)
    BY <2>4 DEF TryClaimTimedWait, TryClaimBody, ClaimFails, Rescan, ScanOn, readerVars
  <2> QED
    BY <2>1, <2>2, <2>3, <2>4 DEF ProducerWorks
<1>3. \A u \in Threads \ {p} : Still(u)
  BY <1>1 DEF Goto, Again, Still, TypeOK
<1>4. \A q \in Producers \ {p} : /\ sequence'[q] = sequence[q] /\ size'[q] = size[q]
                                 /\ published'[q] = published[q]
  BY <1>2 DEF TypeOK
<1> QED
  BY <1>2, <1>3, <1>4 DEF OthersStay

LEMMA ReaderFrame ==
    ASSUME TypeOK, NEW c \in Consumers, ReaderBegins(c) \/ ConsumerWorks(c)
    PROVE  OthersStay(c) /\ UNCHANGED <<claimVars, buffer>>
<1> USE DEF ReaderBegins, BeginWait, EndCall, CheckPublished, AwaitPublished, NextSeq,
            LastPublishedAfter, ReaderAction, WaitUpstream, Rescan, ScanOn,
            BatchAvailable, WaitTimedOut, ReadItem, PublishConsumed, PublishBarrier,
            ConsumerWorks
<1>1. UNCHANGED barrierVars \/ \E label : Goto(c, label) \/ \E value : Again(c, value)
  OBVIOUS
<1>2. /\ \E x : m_lastPublished' = [m_lastPublished EXCEPT ![c] = x]
                \/ m_lastPublished' = m_lastPublished
      /\ UNCHANGED <<claimVars, buffer>>
  BY DEF readerVars, barrierVars
<1>3. \E x : target' = [target EXCEPT ![c] = x] \/ target' = target
  BY DEF readerVars, barrierVars
<1>4. \E x : seq' = [seq EXCEPT ![c] = x] \/ seq' = seq
  BY DEF readerVars, barrierVars
<1>5. \E x : available' = [available EXCEPT ![c] = x] \/ available' = available
  BY DEF readerVars, barrierVars
<1>6. \A u \in Threads \ {c} : Still(u)
  BY <1>1 DEF Goto, Again, Still, TypeOK, barrierVars
<1>7. \A d \in Consumers \ {c} :
         /\ m_lastPublished'[d] = m_lastPublished[d] /\ target'[d] = target[d]
         /\ seq'[d] = seq[d] /\ available'[d] = available[d]
  BY <1>2, <1>3, <1>4, <1>5, Constants DEF TypeOK
<1> QED
  BY <1>2, <1>6, <1>7 DEF OthersStay, claimVars

-----------------------------------------------------------------------------
(***************************************************************************)
(* The theorems.  Each assumes []ActiveWindow: no thread sleeps, between   *)
(* the load of a word and its use, through half of all sequence numbers.   *)
(***************************************************************************)

\* SafetyInv is inductive: whatever the numbers of producers, readers, slots and
\* items, and however the readers depend on each other, every access to shared
\* memory of claim, try_claim, publish and wait_until_published preserves it.
THEOREM Safety == Spec /\ []ActiveWindow => []SafetyInv
<1>1. TypeOK /\ TypeOK' /\ SafetyInv /\ ActiveWindow /\ [Next]_vars => SafetyInv'
  BY SafetyStep
<1> QED
  BY <1>1, SafetyInit, TypeCorrectness, PTL DEF Spec

\* No producer writes a slot that another producer holds or that a reader has
\* been told of and has not read: claims exclude each other, on every lap.
THEOREM SlotsAreExclusive == Spec /\ []ActiveWindow => []SlotExclusion
BY Safety, TypeCorrectness, InvImpliesSlotExclusion, PTL

\* set_published's assertion holds on every call: the entry it overwrites is
\* the one of the lap before, in whatever order producers publish.
THEOREM SetPublishedNeverAsserts == Spec /\ []ActiveWindow => []SetPublishedAssertion
BY Safety, TypeCorrectness, InvImpliesSetPublishedAssertion, PTL

\* Every sequence the counter has handed out is published or reserved by
\* exactly one producer, whatever compare-exchanges and fetch_adds interleave.
THEOREM ClaimsAreAccounted == Spec /\ []ActiveWindow => []EveryClaimAccounted
BY Safety, TypeCorrectness, InvImpliesEveryClaimAccounted, PTL

\* wait_until_published never reports a sequence whose item is not in its slot.
THEOREM AvailableItemsAreWritten == Spec /\ []ActiveWindow => []AvailableIsWritten
BY Safety, TypeCorrectness, InvImpliesAvailableIsWritten, PTL

\* A claim returns no sequence more than a lap ahead of any reader, those that
\* gate the producers only through other readers included.
THEOREM ClaimsStayWithinBuffer == Spec /\ []ActiveWindow => []ClaimsWithinBuffer
<1>1. SafetyInv => ClaimsWithinBuffer
  BY DEF SafetyInv, ClaimInv, ClaimsWithinBuffer
<1> QED
  BY <1>1, Safety, PTL

\* The limit try_claim computes from a scan of the claim barrier, made load by
\* load while the readers move, never exceeds what every reader has released.
THEOREM LimitsAreSafe == Spec /\ []ActiveWindow => []KnownLimitIsSafe
<1>1. SafetyInv => KnownLimitIsSafe
  BY DEF SafetyInv, LimitInv, ProducerKnows, KnownLimitIsSafe
<1> QED
  BY <1>1, Safety, PTL

\* A reader's progress, the only thing that lets producers reuse slots, never
\* goes back and never covers a sequence the reader has not read.
THEOREM ReadersKeepOrder == Spec /\ []ActiveWindow => ReadersPublishInOrder
<1> DEFINE Order == \A c \in Consumers : /\ m_lastPublished'[c] >= m_lastPublished[c]
                                         /\ m_lastPublished'[c] < nextToRead'[c]
<1>1. TypeOK /\ TypeOK' /\ SafetyInv /\ SafetyInv' /\ [Next]_vars => [Order]_vars
  <2> SUFFICES ASSUME TypeOK, TypeOK', SafetyInv, SafetyInv', [Next]_vars,
                      NEW c \in Consumers, vars' # vars
               PROVE  /\ m_lastPublished'[c] >= m_lastPublished[c]
                      /\ m_lastPublished'[c] < nextToRead'[c]
    OBVIOUS
  <2>1. /\ m_lastPublished[c] \in Int /\ m_lastPublished'[c] \in Int
        /\ nextToRead[c] \in Int /\ nextToRead'[c] \in Int /\ available[c] \in Int
    BY Constants DEF TypeOK
  <2>2. m_lastPublished'[c] < nextToRead'[c]
    <3>1. ReaderKnows(c)'
      BY DEF SafetyInv, ReaderInv
    <3> QED
      BY <2>1, <3>1 DEF ReaderKnows
  <2>3. m_lastPublished' = m_lastPublished \/ \E d \in Consumers : PublishConsumed(d)
    <3>1. ASSUME NEW p \in Producers,
                 ClaimFetchAdd(p) \/ TryClaimBegin(p) \/ ProducerWorks(p)
          PROVE  m_lastPublished' = m_lastPublished
      BY <3>1 DEF ProducerWorks, ClaimFetchAdd, TryClaimBegin, ClaimWait, TryClaimScan,
                  TryClaimLoad, TryClaimCas, TryClaimTimedWait, WriteItem, Publish,
                  Rescan, ScanOn
    <3>2. ASSUME NEW d \in Consumers, ReaderBegins(d) \/ ConsumerWorks(d)
          PROVE  m_lastPublished' = m_lastPublished \/ PublishConsumed(d)
      BY <3>2 DEF ReaderBegins, BeginWait, ConsumerWorks, CheckPublished, AwaitPublished,
                  NextSeq, LastPublishedAfter, BatchAvailable, ReaderAction,
                  WaitUpstream, WaitTimedOut, ReadItem, Rescan, ScanOn, barrierVars
    <3> QED
      BY <3>1, <3>2 DEF Next, Terminated
  <2>4. ASSUME NEW d \in Consumers, PublishConsumed(d)
        PROVE  m_lastPublished'[c] >= m_lastPublished[c]
    <3>1. CASE d # c
      BY <2>1, <2>4, <3>1, Constants DEF PublishConsumed, PublishBarrier, TypeOK
    <3>2. CASE d = c
      <4>1. m_lastPublished[c] < nextToRead[c] /\ nextToRead[c] = available[c] + 1
        BY <2>4, <3>2 DEF PublishConsumed, SafetyInv, ReaderInv, ReaderKnows
      <4>2. m_lastPublished'[c] = available[c]
        BY <2>4, <3>2, Constants DEF PublishConsumed, PublishBarrier, TypeOK
      <4> QED
        BY <2>1, <4>1, <4>2
    <3> QED
      BY <3>1, <3>2
  <2> QED
    BY <2>1, <2>2, <2>3, <2>4
<1> QED
  BY <1>1, Safety, TypeCorrectness, PTL DEF Spec, ReadersPublishInOrder

-----------------------------------------------------------------------------
(***************************************************************************)
(* ActiveWindow need not be assumed of the first half of the words: in a   *)
(* program that never claims more than 2^63 sequences, less a lap, no word *)
(* in use is ever too old, however long a thread is preempted.             *)
(***************************************************************************)

LEMMA WordsInUse ==
    WordsFromStart <=>
        /\ \A c \in Consumers : m_lastPublished[c] >= -1
        /\ \A p \in Producers :
              /\ pc[p] = "tryScan" /\ idx[p] > 0 => acc[p] >= -1
              /\ pc[p] \in {"tryLoad", "tryCas"} => published[p] >= -1
              /\ pc[p] \in {"claimWait", "tryCas", "timedWait"} => sequence[p] >= -1
BY DEF WordsFromStart, ActiveWords

LEMMA FewClaimsWindow ==
    ASSUME TypeOK, FewClaims, WordsFromStart
    PROVE  ActiveWindow
<1> SUFFICES ASSUME NEW x \in ActiveWords
             PROVE  m_nextClaimable - x < HalfModulus - BufferSize
  BY DEF ActiveWindow
<1>1. x \in Int
  BY Constants DEF ActiveWords, TypeOK
<1>2. x >= -1 /\ m_nextClaimable + BufferSize + 1 < HalfModulus
  BY DEF WordsFromStart, FewClaims
<1> QED
  BY <1>1, <1>2, Constants DEF TypeOK

\* The words a producer loads or computes in its step.
LEMMA ProducerWordsStep ==
    ASSUME TypeOK, TypeOK', SafetyInv, ActiveWindow, WordsFromStart, NEW p \in Producers,
           ClaimFetchAdd(p) \/ TryClaimBegin(p) \/ ProducerWorks(p)
    PROVE  /\ pc'[p] = "tryScan" /\ idx'[p] > 0 => acc'[p] >= -1
           /\ pc'[p] \in {"tryLoad", "tryCas"} => published'[p] >= -1
           /\ pc'[p] \in {"claimWait", "tryCas", "timedWait"} => sequence'[p] >= -1
<1>0. /\ p \in Threads /\ m_nextClaimable \in Int /\ m_nextClaimable >= -1
      /\ BufferSize \in Nat /\ published[p] \in Int /\ sequence[p] \in Int
      /\ size[p] \in Nat /\ acc[p] \in Int /\ idx[p] \in Nat
  BY Constants DEF TypeOK, SafetyInv
<1>1. /\ \A c \in Consumers : m_lastPublished[c] >= -1
      /\ pc[p] = "tryScan" /\ idx[p] > 0 => acc[p] >= -1
      /\ pc[p] \in {"tryLoad", "tryCas"} => published[p] >= -1
      /\ pc[p] \in {"claimWait", "tryCas", "timedWait"} => sequence[p] >= -1
  BY WordsInUse
<1>2. CASE ClaimFetchAdd(p) \/ TryClaimBegin(p)
  <2>1. \/ pc'[p] = "claimWait" /\ sequence'[p] = m_nextClaimable
        \/ pc'[p] = "tryScan" /\ idx'[p] = 0
    BY <1>0, <1>2 DEF ClaimFetchAdd, TryClaimBegin, Goto, TypeOK
  <2> QED
    BY <1>0, <2>1
<1>3. CASE ClaimWait(p)
  <2>1. /\ pc'[p] \in {"claimWait", "idle", "write"} /\ sequence'[p] = sequence[p]
        /\ pc[p] = "claimWait"
    BY <1>0, <1>3 DEF ClaimWait, Rescan, ScanOn, ClaimReturns, Goto, Again, TypeOK
  <2> QED
    BY <1>1, <2>1
<1>4. CASE TryClaimScan(p)
  <2> DEFINE m == MinimumNow(p, ClaimBarriers)
  <2>1. m \in Int /\ m >= -1
    BY <1>1, <1>4, ClaimMinimum DEF TryClaimScan
  <2>2. \/ pc'[p] = "tryScan" /\ acc'[p] = m
        \/ pc'[p] = "tryLoad" /\ published'[p] = m + BufferSize
    BY <1>0, <1>4 DEF TryClaimScan, Goto, Again, TypeOK
  <2> HIDE DEF m
  <2> QED
    BY <1>0, <2>1, <2>2
<1>5. CASE TryClaimLoad(p) \/ TryClaimCas(p)
  <2>1. /\ pc[p] \in {"tryLoad", "tryCas"}
        /\ \/ /\ pc'[p] = "tryCas" /\ sequence'[p] = m_nextClaimable
              /\ published'[p] = published[p]
           \/ pc'[p] = "timedWait" /\ sequence'[p] = m_nextClaimable
           \/ pc'[p] \in {"idle", "write"}
    BY <1>0, <1>5 DEF TryClaimLoad, TryClaimCas, TryClaimBody, TryClaimNoRoom, ClaimFails,
                      ClaimReturns, Goto, TypeOK
  <2> QED
    BY <1>0, <1>1, <2>1
<1>6. CASE TryClaimTimedWait(p)
  <2> DEFINE floor == sequence[p] - BufferSize
             r == ScanResult(p, ClaimBarriers, floor)
  <2>1. /\ pc[p] = "timedWait"
        /\ \/ pc'[p] = "timedWait" /\ sequence'[p] = sequence[p]
           \/ /\ pc'[p] = "tryCas" /\ sequence'[p] = sequence[p]
              /\ published'[p] = r + BufferSize /\ ScanDone(p, ClaimBarriers, floor)
           \/ pc'[p] = "idle"
    BY <1>0, <1>6 DEF TryClaimTimedWait, Rescan, ScanOn, TryClaimBody, ClaimFails, Goto,
                      Again, TypeOK
  <2>2. ASSUME ScanDone(p, ClaimBarriers, floor)
        PROVE  r \in Int /\ floor <= r
    <3>1. /\ pc[p] \in Scanning /\ ClaimBarriers = ScannedGroup(p, pc[p])
          /\ ClaimBarriers \in Seq(Barriers)
      BY <2>1, GroupTypes DEF Scanning, ScannedGroup
    <3>2. ScannedSoFar(p, ClaimBarriers, floor)
      BY <2>1 DEF SafetyInv, LimitInv, ProducerKnows
    <3>3. floor \in Int
      BY <1>0
    <3>4. Comparable(ClaimBarriers, floor)
      BY <2>1, <3>1, <3>3, ClaimComparable, GroupComparable
    <3> QED
      BY <1>0, <2>2, <3>1, <3>2, <3>3, <3>4, ScanDoneBounds, TypesOfScans
  <2>3. floor = sequence[p] - BufferSize
    OBVIOUS
  <2> HIDE DEF floor, r
  <2> QED
    BY <1>0, <1>1, <2>1, <2>2, <2>3
<1>7. CASE WriteItem(p) \/ Publish(p)
  <2>1. pc'[p] \in {"write", "publish", "idle"}
    BY <1>0, <1>7 DEF WriteItem, Publish, Goto, Again, TypeOK
  <2> QED
    BY <2>1
<1> QED
  BY <1>2, <1>3, <1>4, <1>5, <1>6, <1>7 DEF ProducerWorks

LEMMA WordsStep ==
    ASSUME TypeOK, TypeOK', SafetyInv, SafetyInv', ActiveWindow, WordsFromStart,
           [Next]_vars
    PROVE  WordsFromStart'
<1> DEFINE WordsOf(p) ==
              /\ pc[p] = "tryScan" /\ idx[p] > 0 => acc[p] >= -1
              /\ pc[p] \in {"tryLoad", "tryCas"} => published[p] >= -1
              /\ pc[p] \in {"claimWait", "tryCas", "timedWait"} => sequence[p] >= -1
<1>1. \A c \in Consumers : m_lastPublished'[c] >= -1
  BY DEF SafetyInv, BarriersInv
<1>2. \A p \in Producers : WordsOf(p)
  BY WordsInUse
<1>3. ASSUME NEW q \in Producers PROVE WordsOf(q)'
  <2>1. ASSUME NEW p \in Producers,
               ClaimFetchAdd(p) \/ TryClaimBegin(p) \/ ProducerWorks(p)
        PROVE  WordsOf(q)'
    <3>1. CASE q = p
      BY <2>1, <3>1, ProducerWordsStep
    <3>2. CASE q # p
      <4>1. Still(q) /\ sequence'[q] = sequence[q] /\ published'[q] = published[q]
        BY <2>1, <3>2, Constants, ProducerStepFrame DEF OthersStay
      <4> QED
        BY <1>2, <4>1 DEF Still
    <3> QED
      BY <3>1, <3>2
  <2>2. ASSUME NEW c \in Consumers, ReaderBegins(c) \/ ConsumerWorks(c)
        PROVE  WordsOf(q)'
    <3>1. Still(q) /\ sequence'[q] = sequence[q] /\ published'[q] = published[q]
      BY <2>2, Constants, ReaderFrame DEF OthersStay
    <3> QED
      BY <1>2, <3>1 DEF Still
  <2>3. CASE UNCHANGED vars
    BY <1>2, <2>3 DEF vars, barrierVars, claimVars
  <2> QED
    BY <2>1, <2>2, <2>3 DEF Next, Terminated
<1> QED
  BY <1>1, <1>3 DEF WordsFromStart, ActiveWords

LEMMA WordsInit == Init => WordsFromStart
BY Constants DEF Init, BarriersInit, WordsFromStart, ActiveWords

\* While the counter is in the first half of the words no assumption is needed: no
\* word that claim, try_claim or wait_until_published compares is too old for
\* difference or the compare-exchange, and SafetyInv holds with all it implies.
THEOREM WindowOfFirstHalf == Spec /\ []FewClaims => [](ActiveWindow /\ SafetyInv)
<1>1. TypeOK /\ FewClaims /\ WordsFromStart => ActiveWindow
  BY FewClaimsWindow
<1>2. TypeOK /\ TypeOK' /\ SafetyInv /\ ActiveWindow /\ [Next]_vars => SafetyInv'
  BY SafetyStep
<1>3. TypeOK /\ TypeOK' /\ SafetyInv /\ SafetyInv' /\ ActiveWindow /\ WordsFromStart
         /\ [Next]_vars => WordsFromStart'
  BY WordsStep
<1> QED
  BY <1>1, <1>2, <1>3, SafetyInit, WordsInit, TypeCorrectness, PTL DEF Spec

=============================================================================
