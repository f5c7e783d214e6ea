----------------------- MODULE MultiThreadedRefinement -----------------------
(***************************************************************************)
(* MultiThreadedClaimStrategy implements BroadcastRing, for all constants  *)
(* and while ActiveWindow holds: each of its accesses to shared memory is  *)
(* one step of the ring or changes nothing the ring shows.                 *)
(***************************************************************************)
EXTENDS MultiThreadedSafety

\* The ring's held and published.
AllHeld == UNION {Held(p) : p \in Producers}
PublishedItems == {s \in 0 .. m_nextClaimable - 1 : m_published[Slot(s)] >= s}

\* What producers hold was free to be granted, and the entries of m_published alone
\* say what is published.
RingViews ==
    /\ \A s \in AllHeld : /\ s \in Nat /\ s \notin PublishedItems
                          /\ \A c \in Consumers : s <= m_lastPublished[c] + BufferSize
    /\ \A s : s \in PublishedItems <=> s \in Nat /\ Published(s)

LEMMA InvImpliesRingViews == TypeOK /\ SafetyInv => RingViews
<1> SUFFICES ASSUME TypeOK, SafetyInv PROVE RingViews
  OBVIOUS
<1>1. ASSUME NEW s \in Nat, Published(s) PROVE s \in 0 .. m_nextClaimable - 1
  <2>1. Slot(s) \in Slots
    BY SlotType
  <2> QED
    BY <1>1, <2>1 DEF Published, SafetyInv, EntriesInv, TypeOK
<1>2. \A s : s \in PublishedItems <=> s \in Nat /\ Published(s)
  <2>1. \A s \in 0 .. m_nextClaimable - 1 : s \in Nat
    BY DEF TypeOK
  <2> QED
    BY <1>1, <2>1 DEF PublishedItems, Published
<1>3. ASSUME NEW p \in Producers, NEW s \in Held(p)
      PROVE  /\ s \in Nat /\ s \notin PublishedItems
             /\ \A c \in Consumers : s <= m_lastPublished[c] + BufferSize
  <2>1. s \in Int /\ 0 <= s /\ ~Published(s)
    BY HeldType DEF SafetyInv, ClaimInv
  <2> QED
    BY <2>1, <1>2 DEF SafetyInv, ClaimInv
<1> QED
  BY <1>2, <1>3 DEF RingViews, AllHeld

LEMMA RingInit == Init => Ring!Init
<1> SUFFICES ASSUME Init PROVE Ring!Init
  OBVIOUS
<1> USE DEF Init, BarriersInit, ReadersInit
<1>1. UNION {Held(p) : p \in Producers} = {}
  BY Constants DEF Held
<1>2. {s \in 0 .. m_nextClaimable - 1 : m_published[Slot(s)] >= s} = {}
  OBVIOUS
<1>3. m_lastPublished = [c \in Consumers |-> -1]
  BY BarriersAssumption
<1> QED
  BY <1>1, <1>2, <1>3 DEF Ring!Init, Slots, NoItem

-----------------------------------------------------------------------------
(***************************************************************************)
(* Steps of a producer.                                                    *)
(***************************************************************************)

\* A producer's step leaves what the other producers hold alone.
LEMMA OthersHold ==
    ASSUME TypeOK, NEW p \in Producers,
           ClaimFetchAdd(p) \/ TryClaimBegin(p) \/ ProducerWorks(p)
    PROVE  \A q \in Producers \ {p} : Held(q)' = Held(q)
<1>1. OthersStay(p)
  BY ProducerStepFrame
<1> QED
  BY <1>1, Constants, ClaimsFrame DEF OthersStay, Still

\* A claim that returns is a grant of its sequences; a reservation, a failed or
\* repeated compare-exchange and a scan are not visible in the ring.
LEMMA ClaimRefines ==
    ASSUME TypeOK, SafetyInv, RingViews, RingViews', NEW p \in Producers,
           \/ ClaimFetchAdd(p) \/ TryClaimBegin(p) \/ ClaimWait(p) \/ TryClaimScan(p)
           \/ TryClaimLoad(p) \/ TryClaimCas(p) \/ TryClaimTimedWait(p)
    PROVE  Ring!Grant \/ UNCHANGED Ring!vars
<1>1. /\ pc[p] \in {"idle", "claimWait", "tryScan", "tryLoad", "tryCas", "timedWait"}
      /\ UNCHANGED <<m_lastPublished, readerVars, m_published>>
  BY DEF ClaimFetchAdd, TryClaimBegin, ClaimWait, TryClaimScan, TryClaimLoad,
         TryClaimCas, TryClaimTimedWait, Rescan, ScanOn
<1>2. Held(p) = {}
  BY <1>1 DEF Held
<1>3. \A q \in Producers \ {p} : Held(q)' = Held(q)
  BY OthersHold DEF ProducerWorks
<1>4. AllHeld \subseteq AllHeld'
  BY <1>2, <1>3 DEF AllHeld
<1>5. PublishedItems' = PublishedItems
  <2>1. \A s : Published(s)' = Published(s)
    BY <1>1 DEF Published
  <2> QED
    BY <2>1 DEF RingViews
<1>6. CASE AllHeld' = AllHeld
  BY <1>1, <1>5, <1>6 DEF Ring!vars, AllHeld, PublishedItems, readerVars
<1>7. CASE AllHeld' # AllHeld
  <2>1. \A s \in AllHeld' \ AllHeld :
           /\ s \in Nat /\ s \notin AllHeld \cup PublishedItems
           /\ \A c \in Consumers : s <= m_lastPublished[c] + BufferSize
    BY <1>1, <1>5 DEF RingViews
  <2> QED
    BY <1>1, <1>4, <1>5, <1>7, <2>1
       DEF Ring!Grant, Ring!Grantable, AllHeld, PublishedItems, readerVars
<1> QED
  BY <1>6, <1>7

LEMMA WriteItemRefines ==
    ASSUME TypeOK, SafetyInv, RingViews, RingViews', NEW p \in Producers, WriteItem(p)
    PROVE  Ring!Write
<1> DEFINE s == RangeAt(sequence[p], idx[p])
<1>1. /\ p \in Threads /\ pc[p] = "write" /\ idx[p] < size[p]
      /\ sequence[p] \in Int /\ size[p] \in Nat /\ idx[p] \in Nat
  BY Constants DEF WriteItem, SafetyInv, LimitInv, ProducerKnows, TypeOK
<1>2. s \in Held(p)
  BY <1>1 DEF Held, RangeAt, RangeLast, RangeEnd
<1>3. /\ buffer' = [buffer EXCEPT ![s % BufferSize] = s]
      /\ UNCHANGED <<m_lastPublished, nextToRead, claimVars>>
  BY DEF WriteItem, Slot
<1>4. /\ pc'[p] = "write" \/ (pc'[p] = "publish" /\ idx'[p] = 0)
  BY <1>1 DEF WriteItem, Goto, Again, TypeOK
<1>5. Held(p)' = Held(p)
  <2>1. sequence'[p] = sequence[p] /\ size'[p] = size[p]
    BY <1>3 DEF claimVars
  <2> QED
    BY <1>1, <1>4, <2>1 DEF Held, RangeLast, RangeEnd
<1>6. AllHeld' = AllHeld
  <2>1. \A q \in Producers \ {p} : Held(q)' = Held(q)
    BY OthersHold DEF ProducerWorks
  <2> QED
    BY <1>5, <2>1 DEF AllHeld
<1>7. PublishedItems' = PublishedItems
  BY <1>3 DEF PublishedItems, claimVars
<1>8. s \in AllHeld
  BY <1>2 DEF AllHeld
<1> QED
  BY <1>3, <1>6, <1>7, <1>8 DEF Ring!Write, Ring!Cell, AllHeld, PublishedItems

\* set_published publishes one sequence, and with it no other of its slot.
LEMMA PublishRefines ==
    ASSUME TypeOK, SafetyInv, RingViews, RingViews', NEW p \in Producers, Publish(p)
    PROVE  Ring!Publish
<1> DEFINE s == RangeAt(sequence[p], idx[p])
<1>1. /\ p \in Threads /\ pc[p] = "publish" /\ idx[p] < size[p]
      /\ sequence[p] \in Int /\ size[p] \in Nat /\ idx[p] \in Nat
  BY Constants DEF Publish, SafetyInv, LimitInv, ProducerKnows, TypeOK
<1>2. s \in Held(p) /\ s \in Int /\ Slot(s) \in Slots
  BY <1>1, SlotType DEF Held, RangeAt, RangeLast, RangeEnd
<1>3. buffer[Slot(s)] = s
  BY <1>1, <1>2 DEF SafetyInv, ItemsInv
<1>4. \/ idx[p] + 1 = size[p] /\ pc'[p] = "idle"
      \/ /\ idx[p] + 1 < size[p] /\ pc'[p] = "publish" /\ idx'[p] = idx[p] + 1
         /\ sequence'[p] = sequence[p] /\ size'[p] = size[p]
  BY <1>1 DEF Publish, Goto, Again, TypeOK
<1>5. Held(p)' = Held(p) \ {s}
  BY <1>1, <1>4 DEF Held, RangeAt, RangeLast, RangeEnd
<1>6. /\ m_published' = [m_published EXCEPT ![Slot(s)] = s]
      /\ UNCHANGED <<m_lastPublished, buffer, nextToRead>>
  BY DEF Publish, set_published, readerVars
<1> HIDE DEF s
<1>7. AllHeld' = AllHeld \ {s}
  <2>1. ASSUME NEW q \in Producers \ {p}
        PROVE  Held(q)' = Held(q) /\ s \notin Held(q)
    <3>1. Reserved(p) \cap Reserved(q) = {}
      BY DEF SafetyInv, OwnersInv
    <3>2. Held(q)' = Held(q)
      BY OthersHold DEF ProducerWorks
    <3> QED
      BY <1>2, <3>1, <3>2, HeldType
  <2> QED
    BY <1>5, <2>1 DEF AllHeld
<1>8. m_published[Slot(s)] = s - BufferSize
  BY <1>2, EntryBeforePublish
<1>9. ASSUME NEW t \in Nat
      PROVE  Published(t)' <=> (Published(t) \/ t = s)
  <2>1. Slot(t) \in Slots
    BY SlotType
  <2>2. CASE Slot(t) # Slot(s)
    BY <1>2, <1>6, <2>1, <2>2 DEF Published, TypeOK
  <2>3. CASE Slot(t) = Slot(s)
    <3>1. m_published'[Slot(t)] = s /\ m_published[Slot(t)] = s - BufferSize
      BY <1>2, <1>6, <1>8, <2>3 DEF TypeOK
    <3>2. t < s => t + BufferSize <= s
      BY <1>2, <2>3, SlotApart
    <3>3. t < s \/ t = s \/ s < t
      BY <1>2
    <3> QED
      BY <1>2, <3>1, <3>2, <3>3, Constants DEF Published
  <2> QED
    BY <2>2, <2>3
<1>10. PublishedItems' = PublishedItems \cup {s}
  <2>1. s \in AllHeld
    BY <1>2 DEF AllHeld
  <2>2. s \in Nat
    BY <2>1 DEF RingViews
  <2>3. \A t : t \in PublishedItems' <=> t \in PublishedItems \cup {s}
    BY <1>9, <2>2 DEF RingViews
  <2> QED
    BY <2>3
<1>11. {s} \in SUBSET AllHeld /\ {s} # {}
  BY <1>2 DEF AllHeld
<1>12. \A t \in {s} : buffer[t % BufferSize] = t
  BY <1>3 DEF Slot
<1> QED
  BY <1>6, <1>7, <1>10, <1>11, <1>12
     DEF Ring!Publish, Ring!Cell, AllHeld, PublishedItems

-----------------------------------------------------------------------------
(***************************************************************************)
(* Steps of a reader.                                                      *)
(***************************************************************************)

LEMMA ReaderHoldsNothing ==
    ASSUME TypeOK, NEW c \in Consumers, UNCHANGED claimVars,
           \/ \E label : Goto(c, label) \/ \E value : Again(c, value)
           \/ UNCHANGED barrierVars
    PROVE  AllHeld' = AllHeld /\ PublishedItems' = PublishedItems
<1>1. \A q \in Producers : Held(q)' = Held(q)
  <2> SUFFICES ASSUME NEW q \in Producers PROVE Held(q)' = Held(q)
    OBVIOUS
  <2>1. /\ pc'[q] = pc[q] /\ idx'[q] = idx[q]
        /\ sequence'[q] = sequence[q] /\ size'[q] = size[q]
    BY Constants DEF Goto, Again, TypeOK, claimVars, barrierVars
  <2> QED
    BY <2>1, ClaimsFrame
<1> QED
  BY <1>1 DEF AllHeld, PublishedItems, claimVars

LEMMA ReadItemRefines ==
    ASSUME TypeOK, SafetyInv, RingViews, NEW c \in Consumers, ReadItem(c),
           UNCHANGED claimVars
    PROVE  Ring!Read(c)
<1>1. /\ pc[c] = "read" /\ nextToRead[c] \in Int /\ available[c] \in Int
      /\ m_lastPublished[c] \in Int
  BY Constants DEF ReadItem, TypeOK
<1>2. /\ m_lastPublished[c] < nextToRead[c] /\ nextToRead[c] <= available[c]
      /\ m_lastPublished[c] >= -1 /\ PublishedUpTo(available[c])
      /\ \A d \in Ancestors[c] : available[c] <= m_lastPublished[d]
  BY <1>1 DEF SafetyInv, ReaderInv, ReaderKnows, BarriersInv
<1>3. nextToRead[c] \in PublishedItems
  <2>1. nextToRead[c] \in -BufferSize .. available[c] /\ nextToRead[c] \in Nat
    BY <1>1, <1>2, Constants
  <2> QED
    BY <1>2, <2>1 DEF RingViews, PublishedUpTo
<1>4. buffer[nextToRead[c] % BufferSize] = nextToRead[c]
  <2>1. nextToRead[c] \in Unread(c)
    BY <1>1, <1>2 DEF Unread
  <2> QED
    BY <2>1, InvImpliesAvailableIsWritten DEF AvailableIsWritten, Slot
<1>5. \A d \in Ancestors[c] : nextToRead[c] <= m_lastPublished[d]
  <2> SUFFICES ASSUME NEW d \in Ancestors[c] PROVE nextToRead[c] <= m_lastPublished[d]
    OBVIOUS
  <2>1. m_lastPublished[d] \in Int
    BY TopologyAssumption, Constants DEF TypeOK
  <2> QED
    BY <1>1, <1>2, <2>1
<1>6. AllHeld' = AllHeld /\ PublishedItems' = PublishedItems
  BY ReaderHoldsNothing DEF ReadItem
<1>7. /\ nextToRead' = [nextToRead EXCEPT ![c] = @ + 1]
      /\ UNCHANGED <<m_lastPublished, buffer>>
  BY DEF ReadItem
<1> QED
  BY <1>3, <1>4, <1>5, <1>6, <1>7 DEF Ring!Read, Ring!Cell, AllHeld, PublishedItems

\* A reader that publishes what it has published already changes nothing.
LEMMA PublishConsumedRefines ==
    ASSUME TypeOK, SafetyInv, NEW c \in Consumers, PublishConsumed(c), UNCHANGED claimVars
    PROVE  Ring!Release(c) \/ UNCHANGED Ring!vars
<1>1. /\ pc[c] = "consumed" /\ nextToRead[c] \in Int /\ available[c] \in Int
      /\ m_lastPublished[c] \in Int
  BY Constants DEF PublishConsumed, TypeOK
<1>2. m_lastPublished[c] < nextToRead[c] /\ nextToRead[c] = available[c] + 1
  BY <1>1 DEF SafetyInv, ReaderInv, ReaderKnows
<1>3. AllHeld' = AllHeld /\ PublishedItems' = PublishedItems
  BY ReaderHoldsNothing DEF PublishConsumed
<1>4. /\ m_lastPublished' = [m_lastPublished EXCEPT ![c] = nextToRead[c] - 1]
      /\ UNCHANGED <<buffer, nextToRead>>
  <2>1. available[c] = nextToRead[c] - 1
    BY <1>1, <1>2
  <2> QED
    BY <2>1 DEF PublishConsumed, PublishBarrier, readerVars
<1>5. CASE m_lastPublished[c] < nextToRead[c] - 1
  BY <1>3, <1>4, <1>5 DEF Ring!Release, AllHeld, PublishedItems
<1>6. CASE m_lastPublished[c] = nextToRead[c] - 1
  <2>1. m_lastPublished' = m_lastPublished
    BY <1>4, <1>6 DEF TypeOK
  <2> QED
    BY <1>3, <1>4, <2>1 DEF Ring!vars, AllHeld, PublishedItems
<1> QED
  BY <1>1, <1>2, <1>5, <1>6

-----------------------------------------------------------------------------
LEMMA RingStep ==
    ASSUME TypeOK, SafetyInv, RingViews, RingViews', [Next]_vars
    PROVE  Ring!Next \/ UNCHANGED Ring!vars
<1>1. ASSUME NEW p \in Producers,
             ClaimFetchAdd(p) \/ TryClaimBegin(p) \/ ProducerWorks(p)
      PROVE  Ring!Next \/ UNCHANGED Ring!vars
  <2>1. CASE WriteItem(p)
    BY <2>1, WriteItemRefines DEF Ring!Next
  <2>2. CASE Publish(p)
    BY <2>2, PublishRefines DEF Ring!Next
  <2> QED
    BY <1>1, <2>1, <2>2, ClaimRefines DEF Ring!Next, ProducerWorks
<1>2. ASSUME NEW c \in Consumers,
             \/ ReaderBegins(c) \/ CheckPublished(c) \/ AwaitPublished(c)
             \/ LastPublishedAfter(c) \/ (WaitUpstream(c) /\ UNCHANGED claimVars)
      PROVE  UNCHANGED Ring!vars
  <2>1. /\ UNCHANGED <<m_lastPublished, buffer, nextToRead, claimVars>>
        /\ \/ \E label : Goto(c, label) \/ \E value : Again(c, value)
           \/ UNCHANGED barrierVars
    BY <1>2 DEF ReaderBegins, BeginWait, CheckPublished, AwaitPublished, NextSeq,
                LastPublishedAfter, WaitUpstream, Rescan, ScanOn, BatchAvailable,
                WaitTimedOut, readerVars, barrierVars
  <2>2. AllHeld' = AllHeld /\ PublishedItems' = PublishedItems
    BY <2>1, ReaderHoldsNothing
  <2> QED
    BY <2>1, <2>2 DEF Ring!vars, AllHeld, PublishedItems
<1>3. ASSUME NEW c \in Consumers, ReadItem(c) \/ PublishConsumed(c), UNCHANGED claimVars
      PROVE  Ring!Next \/ UNCHANGED Ring!vars
  BY <1>3, ReadItemRefines, PublishConsumedRefines DEF Ring!Next
<1>4. CASE UNCHANGED vars
  <2>1. \A q \in Producers : Held(q)' = Held(q)
    BY <1>4, ClaimsFrame DEF vars, barrierVars, claimVars
  <2>2. AllHeld' = AllHeld /\ PublishedItems' = PublishedItems
    BY <1>4, <2>1 DEF AllHeld, PublishedItems, vars, claimVars
  <2> QED
    BY <1>4, <2>2 DEF Ring!vars, AllHeld, PublishedItems, vars, barrierVars, readerVars
<1> QED
  BY <1>1, <1>2, <1>3, <1>4
     DEF Next, ConsumerWorks, ReaderAction, Terminated

\* The shared counter, the entries of m_published and the readers' barriers, each
\* accessed on its own and in any interleaving of any number of producers and
\* readers, implement the ring in which a claim, a publication and a read are each
\* one step.
THEOREM Refinement == Spec /\ []ActiveWindow => ImplementsRing
<1>1. TypeOK /\ SafetyInv /\ RingViews /\ RingViews' /\ [Next]_vars
         => [Ring!Next]_(Ring!vars)
  BY RingStep
<1> QED
  BY <1>1, RingInit, Safety, TypeCorrectness, InvImpliesRingViews, PTL
     DEF Spec, ImplementsRing, Ring!Spec

=============================================================================
