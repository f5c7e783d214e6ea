------------------------- MODULE BlockingRefinement -------------------------
(***************************************************************************)
(* The multi-producer system with the blocking_wait_strategy implements    *)
(* the one that spins, for all constants: a thread that sleeps leaves out  *)
(* scans that a spinning thread would make in vain.                        *)
(***************************************************************************)
EXTENDS BlockingDisruptor, MultiThreadedRefinement

\* Where producers and readers wait, and that the barriers a thread has scanned so
\* far did not precede what it waits for; a reader that waits for an entry of
\* m_published is in no loop over barriers.
WaitPlaces ==
    \A t \in Threads :
        /\ pc[t] = "claimWait" => t \in Producers
        /\ pc[t] \in {"upstream", "await"} => t \in Consumers
        /\ pc[t] = "await" => idx[t] = 0 /\ acc[t] = 0
        /\ pc[t] \in {"claimWait", "upstream"} /\ idx[t] > 0 => acc[t] >= 0

\* No thread waits at first.
LEMMA WaitPlacesInit == Init => WaitPlaces
BY DEF Init, BarriersInit, WaitPlaces

\* A step of t leaves the places of the other threads alone.
LEMMA WaitPlacesFrame ==
    ASSUME TypeOK, WaitPlaces, NEW t \in Threads,
           \/ \E label : Goto(t, label) /\ label \notin {"claimWait", "upstream", "await"}
           \/ \E label : /\ Goto(t, label)
                         /\ label = "claimWait" => t \in Producers
                         /\ label \in {"upstream", "await"} => t \in Consumers
           \/ /\ pc[t] # "await"
              /\ \E value : /\ Again(t, value)
                            /\ pc[t] \in {"claimWait", "upstream"} => value >= 0
           \/ UNCHANGED <<pc, idx, acc>>
    PROVE  WaitPlaces'
BY DEF TypeOK, WaitPlaces, Goto, Again

\* The places of a producer are a producer's.
LEMMA ProducerWaitPlaces ==
    ASSUME TypeOK, WaitPlaces, NEW p \in Producers,
           ClaimFetchAdd(p) \/ TryClaimBegin(p) \/ ProducerWorks(p)
    PROVE  WaitPlaces'
<1>1. p \in Threads /\ p \notin Consumers
  BY ThreadsAssumption
<1>2. CASE \E label : Goto(p, label) /\ label \notin {"upstream", "await"}
  BY <1>1, <1>2, WaitPlacesFrame
<1>3. CASE /\ pc[p] # "await"
           /\ \E value : /\ Again(p, value)
                         /\ pc[p] \in {"claimWait", "upstream"} => value >= 0
  BY <1>1, <1>3, WaitPlacesFrame
<1>4. CASE ClaimFetchAdd(p)
  BY <1>2, <1>4 DEF ClaimFetchAdd
<1>5. CASE TryClaimBegin(p)
  BY <1>2, <1>5 DEF TryClaimBegin
<1>6. CASE ClaimWait(p)
  BY <1>2, <1>3, <1>6 DEF ClaimWait, Rescan, ScanOn, ClaimReturns
<1>7. CASE TryClaimScan(p)
  BY <1>2, <1>3, <1>7 DEF TryClaimScan
<1>8. CASE TryClaimLoad(p)
  BY <1>2, <1>8 DEF TryClaimLoad, TryClaimBody, TryClaimNoRoom, ClaimFails
<1>9. CASE TryClaimCas(p)
  BY <1>2, <1>9 DEF TryClaimCas, TryClaimBody, TryClaimNoRoom, ClaimFails, ClaimReturns
<1>10. CASE TryClaimTimedWait(p)
  BY <1>2, <1>3, <1>10 DEF TryClaimTimedWait, TryClaimBody, ClaimFails, Rescan, ScanOn
<1>11. CASE WriteItem(p)
  BY <1>2, <1>3, <1>11 DEF WriteItem
<1>12. CASE Publish(p)
  BY <1>2, <1>3, <1>12 DEF Publish
<1> QED
  BY <1>4, <1>5, <1>6, <1>7, <1>8, <1>9, <1>10, <1>11, <1>12 DEF ProducerWorks

\* The places of a reader are a reader's.
LEMMA ConsumerWaitPlaces ==
    ASSUME TypeOK, WaitPlaces, NEW c \in Consumers, ReaderBegins(c) \/ ConsumerWorks(c)
    PROVE  WaitPlaces'
<1>1. c \in Threads
  BY ThreadsAssumption
<1>2. CASE \E label : Goto(c, label) /\ label # "claimWait"
  BY <1>1, <1>2, WaitPlacesFrame
<1>3. CASE /\ pc[c] # "await"
           /\ \E value : /\ Again(c, value)
                         /\ pc[c] \in {"claimWait", "upstream"} => value >= 0
  BY <1>1, <1>3, WaitPlacesFrame
<1>4. CASE ReaderBegins(c)
  BY <1>2, <1>4 DEF ReaderBegins, BeginWait
<1>5. CASE CheckPublished(c) \/ AwaitPublished(c)
  BY <1>2, <1>5 DEF CheckPublished, AwaitPublished, NextSeq
<1>6. CASE LastPublishedAfter(c)
  <2>1. CASE UNCHANGED barrierVars
    BY <1>1, <2>1, WaitPlacesFrame DEF barrierVars
  <2> QED
    BY <1>2, <1>6, <2>1 DEF LastPublishedAfter, BatchAvailable
<1>7. CASE WaitUpstream(c)
  BY <1>2, <1>3, <1>7 DEF WaitUpstream, Rescan, ScanOn, BatchAvailable, WaitTimedOut
<1>8. CASE ReadItem(c) \/ PublishConsumed(c)
  BY <1>2, <1>8 DEF ReadItem, PublishConsumed
<1> QED
  BY <1>4, <1>5, <1>6, <1>7, <1>8 DEF ConsumerWorks, ReaderAction

\* Steps of the spinning system keep types and places.
LEMMA SpinningStep == TypeOK /\ WaitPlaces /\ [Next]_vars => TypeOK' /\ WaitPlaces'
<1> SUFFICES ASSUME TypeOK, WaitPlaces, [Next]_vars
             PROVE  TypeOK' /\ WaitPlaces'
  OBVIOUS
<1>1. CASE UNCHANGED vars
  BY <1>1, StutterTypeStep DEF WaitPlaces, vars, barrierVars
<1>2. ASSUME NEW p \in Producers,
             ClaimFetchAdd(p) \/ TryClaimBegin(p) \/ ProducerWorks(p)
      PROVE  TypeOK' /\ WaitPlaces'
  BY <1>2, ProducerTypeStep, ProducerWaitPlaces
<1>3. ASSUME NEW c \in Consumers, ReaderBegins(c) \/ ConsumerWorks(c)
      PROVE  TypeOK' /\ WaitPlaces'
  BY <1>3, ConsumerTypeStep, ConsumerWaitPlaces
<1> QED
  BY <1>1, <1>2, <1>3 DEF Next, Terminated

-----------------------------------------------------------------------------
\* A predicate that fails under the lock is a scan that fails when spinning.
LEMMA PredicateFailsSpins ==
    ASSUME TypeOK, WaitPlaces, NEW t \in Threads, PredicateFails(t)
    PROVE  Next \/ UNCHANGED vars
<1>1. CASE /\ pc[t] = "claimWait"
           /\ MinDeltaNow(t, ClaimBarriers, ClaimFloor(sequence[t], size[t])) < 0
  <2>1. t \in Producers
    BY <1>1 DEF WaitPlaces
  <2>2. ClaimWait(t)
    BY <1>1 DEF PredicateFails, ClaimWait, Rescan, claimVars
  <2> QED
    BY <2>1, <2>2 DEF Next, ProducerWorks
<1>2. CASE pc[t] = "upstream" /\ MinDeltaNow(t, Upstream[t], target[t]) < 0
  <2>1. t \in Consumers
    BY <1>2 DEF WaitPlaces
  <2>2. ReaderAction(t)
    BY <1>2 DEF PredicateFails, ReaderAction, WaitUpstream, Rescan
  <2> QED
    BY <2>1, <2>2 DEF Next, ConsumerWorks
<1>3. CASE pc[t] = "await"
  <2>1. idx[t] = 0 /\ acc[t] = 0
    BY <1>3 DEF WaitPlaces
  <2>2. pc' = pc /\ idx' = idx /\ acc' = acc
    BY <2>1 DEF PredicateFails, Goto, TypeOK
  <2> QED
    BY <2>2 DEF PredicateFails, vars, barrierVars
<1> QED
  BY <1>1, <1>2, <1>3 DEF PredicateFails, LoadFails

\* Every step of the blocking system is one of the spinning system or stutters.
LEMMA BlockingStep ==
    TypeOK /\ WaitPlaces /\ [BlockingNext]_allVars => [Next]_vars
<1> SUFFICES ASSUME TypeOK, WaitPlaces, [BlockingNext]_allVars
             PROVE  Next \/ UNCHANGED vars
  OBVIOUS
<1>1. CASE UNCHANGED allVars
  BY <1>1 DEF allVars
<1>2. ASSUME NEW t \in Threads, Calls(t)
      PROVE  Next
  BY <1>2 DEF Calls, Next
<1>3. ASSUME NEW t \in Threads, Works(t)
      PROVE  Next
  BY <1>3 DEF Works, Next
<1>4. ASSUME NEW t \in Threads, ThreadStep(t)
      PROVE  Next \/ UNCHANGED vars
  <2>1. CASE Runs(t) \/ Checks(t)
    BY <1>3, <2>1 DEF Runs, Checks
  <2>2. CASE InStrategy(t)
    BY <2>2 DEF InStrategy
  <2> QED
    BY <1>4, <2>1, <2>2, PredicateFailsSpins DEF ThreadStep
<1> QED
  BY <1>1, <1>2, <1>4 DEF BlockingNext, Terminated

\* Threads that sleep on the condition variable of blocking_wait_strategy, are
\* woken for nothing and look again under the mutex only take steps that threads
\* spinning with spin_wait_strategy could take.
THEOREM BlockingImplementsSpinning == BlockingSpec => ImplementsSpinning
<1>1. BlockingInit => Init /\ TypeOK /\ WaitPlaces
  BY TypeInit, WaitPlacesInit DEF BlockingInit
<1>2. TypeOK /\ WaitPlaces /\ [BlockingNext]_allVars => TypeOK' /\ WaitPlaces'
  BY BlockingStep, SpinningStep
<1> QED
  BY <1>1, <1>2, BlockingStep, PTL DEF BlockingSpec, ImplementsSpinning, Spec

\* With the blocking wait strategy too no producer writes an element that another
\* producer holds or a reader has yet to read.
THEOREM BlockingSlotsAreExclusive == BlockingSpec /\ []ActiveWindow => []SlotExclusion
BY BlockingImplementsSpinning, SlotsAreExclusive, PTL DEF ImplementsSpinning

\* With the blocking wait strategy too every item reported to a reader is the one
\* written for its sequence.
THEOREM BlockingItemsAreWritten == BlockingSpec /\ []ActiveWindow => []AvailableIsWritten
BY BlockingImplementsSpinning, AvailableItemsAreWritten, PTL DEF ImplementsSpinning

\* With the blocking wait strategy too the counter, the entries and the barriers
\* amount to the ring, whichever threads sleep on the condition variable.
THEOREM BlockingImplementsRing == BlockingSpec /\ []ActiveWindow => ImplementsRing
BY BlockingImplementsSpinning, Refinement, PTL DEF ImplementsSpinning

=============================================================================
