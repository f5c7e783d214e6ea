-------------------------- MODULE BlockingWakeUps --------------------------
(***************************************************************************)
(* No wake-up is lost by the blocking_wait_strategy, for all constants.    *)
(***************************************************************************)
EXTENDS BlockingRefinement

Phases == {"running", "locking", "checking", "unmet", "asleep", "signalling"}

\* The mutex is held by the one thread that is between its lock and its sleep;
\* the wait set holds sleeping threads; only threads that wait are in the
\* strategy's wait, and none with a timeout.
MutexInv ==
    /\ phase \in [Threads -> Phases]
    /\ m_cv \subseteq Threads
    /\ \A t \in m_cv : phase[t] = "asleep"
    /\ \A t \in Threads :
          /\ phase[t] \in {"checking", "unmet"} => m_mutex = t
          /\ phase[t] \in {"locking", "checking", "unmet", "asleep"} =>
                pc[t] \in {"claimWait", "upstream", "await"}
          /\ ~timed[t]

\* A store has been made whose notification is still to come.
SignalPending ==
    \E u \in Threads : phase[u] = "signalling" \/ (pc[u] = "publish" /\ idx[u] > 0)

\* The strengthening of NoLostWakeUp: it covers the thread that has found its
\* predicate false and still holds the mutex.
WakeUpInv ==
    \A t \in Threads :
        (t \in m_cv \/ phase[t] = "unmet") => (Satisfied(t) => SignalPending)

BlockingInv == TypeOK /\ WaitPlaces /\ MutexInv /\ WakeUpInv

-----------------------------------------------------------------------------
\* A load that fails shows that what the thread waits for is not there.
LEMMA FailedLoad ==
    ASSUME TypeOK, WaitPlaces, NEW t \in Threads, LoadFails(t)
    PROVE  ~Satisfied(t)
<1>1. ASSUME NEW group \in Seq(Barriers), NEW floor \in Int,
             pc[t] \in {"claimWait", "upstream"}, group = ScannedGroup(t, pc[t]),
             MinDeltaNow(t, group, floor) < 0
      PROVE  \E b \in Elems(group) : ~(difference(m_lastPublished[b], floor) >= 0)
  <2>1. idx[t] + 1 \in 1 .. Len(group)
    BY <1>1 DEF TypeOK, ScanInBounds, Scanning
  <2>2. group[idx[t] + 1] \in Elems(group) /\ group[idx[t] + 1] \in Barriers
    BY <1>1, <2>1, BarriersAssumption DEF Elems
  <2>3. Loaded(t, group) \in Int
    BY <2>2 DEF Loaded, TypeOK
  <2>4. difference(Loaded(t, group), floor) \in Int
    BY <1>1, <2>3, DifferenceType
  <2>5. idx[t] \in Nat /\ acc[t] \in Int /\ (idx[t] > 0 => acc[t] >= 0)
    BY <1>1 DEF TypeOK, WaitPlaces
  <2>6. difference(Loaded(t, group), floor) < 0
    BY <1>1, <2>4, <2>5 DEF MinDeltaNow, MinDeltaStep, Smaller
  <2> QED
    BY <2>2, <2>4, <2>6 DEF Loaded
<1>2. CASE /\ pc[t] = "claimWait"
           /\ MinDeltaNow(t, ClaimBarriers, ClaimFloor(sequence[t], size[t])) < 0
  <2>1. t \in Producers
    BY <1>2 DEF WaitPlaces
  <2>2. ClaimFloor(sequence[t], size[t]) \in Int
    BY <2>1, BufferSizeAssumption DEF TypeOK, ClaimFloor, RangeLast, RangeEnd
  <2>3. ClaimBarriers \in Seq(Barriers) /\ ClaimBarriers = ScannedGroup(t, pc[t])
    BY <1>2, GroupTypes DEF ScannedGroup
  <2> QED
    BY <1>1, <1>2, <2>2, <2>3 DEF Satisfied
<1>3. CASE pc[t] = "upstream" /\ MinDeltaNow(t, Upstream[t], target[t]) < 0
  <2>1. t \in Consumers
    BY <1>3 DEF WaitPlaces
  <2>2. target[t] \in Int /\ Upstream[t] \in Seq(Barriers)
    BY <2>1, GroupTypes DEF TypeOK
  <2>3. Upstream[t] = ScannedGroup(t, pc[t])
    BY <1>3 DEF ScannedGroup
  <2> QED
    BY <1>1, <1>3, <2>2, <2>3 DEF Satisfied
<1>4. CASE pc[t] = "await" /\ difference(m_published[Slot(seq[t])], seq[t]) < 0
  <2>1. seq[t] \in Int /\ m_published[Slot(seq[t])] \in Int
    BY <1>4, SlotType DEF WaitPlaces, TypeOK
  <2>2. difference(m_published[Slot(seq[t])], seq[t]) \in Int
    BY <2>1, DifferenceType
  <2> QED
    BY <1>4, <2>2 DEF Satisfied
<1> QED
  BY <1>2, <1>3, <1>4 DEF LoadFails

-----------------------------------------------------------------------------
\* What decides whether a thread's wait is satisfied.
SameWait(t) ==
    /\ m_lastPublished' = m_lastPublished /\ m_published' = m_published
    /\ pc'[t] = pc[t]
    /\ pc[t] = "claimWait" => sequence'[t] = sequence[t] /\ size'[t] = size[t]
    /\ pc[t] = "upstream" => target'[t] = target[t]
    /\ pc[t] = "await" => seq'[t] = seq[t]

\* It stays as it is when none of that changes.
LEMMA SatisfiedStays ==
    ASSUME NEW t \in Threads, SameWait(t), Satisfied(t)'
    PROVE  Satisfied(t)
BY DEF SameWait, Satisfied

\* A producer's step changes no other thread's locals, and only Publish stores.
LEMMA ProducerLocal ==
    ASSUME TypeOK, NEW p \in Producers,
           ClaimFetchAdd(p) \/ TryClaimBegin(p) \/ ProducerWorks(p)
    PROVE  /\ \A t \in Threads \ {p} : pc'[t] = pc[t] /\ idx'[t] = idx[t]
           /\ \A q \in Producers \ {p} : sequence'[q] = sequence[q] /\ size'[q] = size[q]
           /\ target' = target /\ seq' = seq
           /\ m_lastPublished' = m_lastPublished
           /\ m_published' = m_published \/ Publish(p)
<1> USE DEF TypeOK, Goto, Again
<1>1. CASE ClaimFetchAdd(p) \/ TryClaimBegin(p)
  BY <1>1 DEF ClaimFetchAdd, TryClaimBegin, readerVars
<1>2. CASE ClaimWait(p)
  BY <1>2 DEF ClaimWait, ClaimReturns, Rescan, ScanOn, readerVars
<1>3. CASE TryClaimScan(p)
  BY <1>3 DEF TryClaimScan, readerVars
<1>4. CASE TryClaimLoad(p)
  BY <1>4 DEF TryClaimLoad, TryClaimBody, TryClaimNoRoom, ClaimFails, readerVars
<1>5. CASE TryClaimCas(p)
  BY <1>5 DEF TryClaimCas, TryClaimBody, TryClaimNoRoom, ClaimFails, ClaimReturns,
              readerVars
<1>6. CASE TryClaimTimedWait(p)
  BY <1>6 DEF TryClaimTimedWait, TryClaimBody, ClaimFails, Rescan, ScanOn, readerVars
<1>7. CASE WriteItem(p)
  BY <1>7 DEF WriteItem, claimVars
<1>8. CASE Publish(p)
  BY <1>8 DEF Publish, readerVars
<1> QED
  BY <1>1, <1>2, <1>3, <1>4, <1>5, <1>6, <1>7, <1>8 DEF ProducerWorks

\* A reader's step likewise, and only PublishConsumed stores.
LEMMA ConsumerLocal ==
    ASSUME TypeOK, NEW c \in Consumers, ReaderBegins(c) \/ ConsumerWorks(c)
    PROVE  /\ \A t \in Threads \ {c} : pc'[t] = pc[t] /\ idx'[t] = idx[t]
           /\ \A d \in Consumers \ {c} : target'[d] = target[d] /\ seq'[d] = seq[d]
           /\ sequence' = sequence /\ size' = size
           /\ m_published' = m_published
           /\ m_lastPublished' = m_lastPublished \/ PublishConsumed(c)
<1> USE DEF TypeOK, Goto, Again, claimVars
<1>1. CASE ReaderBegins(c)
  BY <1>1 DEF ReaderBegins, BeginWait
<1>2. CASE CheckPublished(c) \/ AwaitPublished(c)
  BY <1>2 DEF CheckPublished, AwaitPublished, NextSeq, readerVars
<1>3. CASE LastPublishedAfter(c)
  BY <1>3 DEF LastPublishedAfter, BatchAvailable, EndCall, barrierVars, readerVars
<1>4. CASE WaitUpstream(c) /\ UNCHANGED <<claimVars, seq>>
  BY <1>4 DEF WaitUpstream, Rescan, ScanOn, BatchAvailable, WaitTimedOut, EndCall,
              readerVars
<1>5. CASE (ReadItem(c) \/ PublishConsumed(c)) /\ UNCHANGED <<claimVars, seq>>
  BY <1>5 DEF ReadItem, PublishConsumed, readerVars
<1> QED
  BY <1>1, <1>2, <1>3, <1>4, <1>5 DEF ConsumerWorks, ReaderAction

\* Nothing of what another thread waits for changes, unless the step stores.
LEMMA StepLocal ==
    ASSUME TypeOK, WaitPlaces, NEW u \in Threads, Works(u) \/ Calls(u)
    PROVE  /\ \A t \in Threads \ {u} : pc'[t] = pc[t] /\ idx'[t] = idx[t]
           /\ \/ \A t \in Threads \ {u} : SameWait(t)
              \/ u \in Producers /\ Publish(u)
              \/ u \in Consumers /\ PublishConsumed(u)
<1>1. CASE /\ u \in Producers
           /\ ClaimFetchAdd(u) \/ TryClaimBegin(u) \/ ProducerWorks(u)
  BY <1>1, ProducerLocal DEF SameWait, WaitPlaces
<1>2. CASE u \in Consumers /\ (ReaderBegins(u) \/ ConsumerWorks(u))
  BY <1>2, ConsumerLocal DEF SameWait, WaitPlaces
<1> QED
  BY <1>1, <1>2 DEF Works, Calls

\* No call has a timeout.
LEMMA Untimed ==
    ASSUME TypeOK, NEW u \in Threads, Works(u) \/ Calls(u),
           \A t \in Threads : ~timed[t]
    PROVE  \A t \in Threads : ~timed'[t]
<1> USE DEF TypeOK
<1>1. CASE u \in Producers /\ ClaimFetchAdd(u)
  BY <1>1 DEF ClaimFetchAdd
<1>2. CASE u \in Producers /\ TryClaimBegin(u)
  BY <1>2, UntimedAssumption DEF TryClaimBegin
<1>3. CASE u \in Producers /\ (ClaimWait(u) \/ TryClaimScan(u) \/ TryClaimLoad(u))
  BY <1>3 DEF ClaimWait, ClaimReturns, Rescan, ScanOn, TryClaimScan, TryClaimLoad,
              TryClaimBody, TryClaimNoRoom, ClaimFails
<1>4. CASE u \in Producers /\ (TryClaimCas(u) \/ TryClaimTimedWait(u))
  BY <1>4 DEF TryClaimCas, TryClaimTimedWait, TryClaimBody, TryClaimNoRoom, ClaimFails,
              ClaimReturns, Rescan, ScanOn
<1>5. CASE u \in Producers /\ (WriteItem(u) \/ Publish(u))
  BY <1>5 DEF WriteItem, Publish
<1>6. CASE u \in Consumers /\ ReaderBegins(u)
  BY <1>6, UntimedAssumption DEF ReaderBegins, BeginWait
<1>7. CASE u \in Consumers /\ (CheckPublished(u) \/ AwaitPublished(u))
  BY <1>7 DEF CheckPublished, AwaitPublished, NextSeq
<1>8. CASE u \in Consumers /\ (LastPublishedAfter(u) \/ WaitUpstream(u))
  BY <1>8 DEF LastPublishedAfter, WaitUpstream, Rescan, ScanOn, BatchAvailable,
              WaitTimedOut, EndCall, barrierVars
<1>9. CASE u \in Consumers /\ (ReadItem(u) \/ PublishConsumed(u))
  BY <1>9 DEF ReadItem, PublishConsumed
<1> QED
  BY <1>1, <1>2, <1>3, <1>4, <1>5, <1>6, <1>7, <1>8, <1>9
     DEF Works, Calls, ProducerWorks, ConsumerWorks, ReaderAction

\* A thread whose load fails waits on where it is.
LEMMA FailedLoadStays ==
    ASSUME TypeOK, WaitPlaces, NEW u \in Threads, ~timed[u], LoadFails(u), Works(u)
    PROVE  pc'[u] \in {"claimWait", "upstream"}
<1>1. CASE /\ pc[u] = "claimWait"
           /\ MinDeltaNow(u, ClaimBarriers, ClaimFloor(sequence[u], size[u])) < 0
  <2>1. u \in Producers /\ u \notin Consumers
    BY <1>1, ThreadsAssumption DEF WaitPlaces
  <2>2. ClaimWait(u)
    BY <1>1, <2>1 DEF Works, ProducerWorks, TryClaimScan, TryClaimLoad, TryClaimCas,
                      TryClaimTimedWait, WriteItem, Publish
  <2>3. ClaimFloor(sequence[u], size[u]) \in Int
    BY <2>1, BufferSizeAssumption DEF TypeOK, ClaimFloor, RangeLast, RangeEnd
  <2>4. MinDeltaNow(u, ClaimBarriers, ClaimFloor(sequence[u], size[u])) \in Int
    BY <1>1, <2>3, ScanTypes, TypesOfScans, GroupTypes DEF Scanning, ScannedGroup
  <2>5. Goto(u, "claimWait")
    BY <1>1, <2>2, <2>4 DEF ClaimWait, Rescan, ScanOn, ScanDone
  <2> QED
    BY <2>5 DEF Goto, TypeOK
<1>2. CASE pc[u] = "upstream" /\ MinDeltaNow(u, Upstream[u], target[u]) < 0
  <2>1. u \in Consumers /\ u \notin Producers
    BY <1>2, ThreadsAssumption DEF WaitPlaces
  <2>2. WaitUpstream(u)
    BY <1>2, <2>1 DEF Works, ConsumerWorks, CheckPublished, AwaitPublished,
                      LastPublishedAfter, ReaderAction, ReadItem, PublishConsumed
  <2>3. target[u] \in Int /\ Upstream[u] \in Seq(Barriers)
    BY <2>1, GroupTypes DEF TypeOK
  <2>4. MinDeltaNow(u, Upstream[u], target[u]) \in Int
    BY <1>2, <2>3, ScanTypes, TypesOfScans DEF Scanning, ScannedGroup
  <2>5. Goto(u, "upstream")
    BY <1>2, <2>2, <2>4 DEF WaitUpstream, Rescan, ScanOn, ScanDone, TimesOut
  <2> QED
    BY <2>5 DEF Goto, TypeOK
<1>3. CASE pc[u] = "await" /\ difference(m_published[Slot(seq[u])], seq[u]) < 0
  <2>1. u \in Consumers /\ u \notin Producers
    BY <1>3, ThreadsAssumption DEF WaitPlaces
  <2>2. AwaitPublished(u)
    BY <1>3, <2>1 DEF Works, ConsumerWorks, CheckPublished, LastPublishedAfter,
                      ReaderAction, WaitUpstream, ReadItem, PublishConsumed
  <2>3. ~Satisfied(u)
    BY FailedLoad
  <2> QED
    BY <1>3, <2>2, <2>3 DEF AwaitPublished, Satisfied
<1> QED
  BY <1>1, <1>2, <1>3 DEF LoadFails

\* A thread inside publish(range) stores.
LEMMA PublishingStores ==
    ASSUME NEW u \in Threads, pc[u] = "publish", Works(u) \/ Calls(u)
    PROVE  u \in Producers /\ Publish(u)
BY DEF Works, Calls, ProducerWorks, ClaimFetchAdd, TryClaimBegin, ClaimWait,
       TryClaimScan, TryClaimLoad, TryClaimCas, TryClaimTimedWait, WriteItem,
       ReaderBegins, BeginWait, ConsumerWorks, CheckPublished, AwaitPublished,
       LastPublishedAfter, ReaderAction, WaitUpstream, ReadItem, PublishConsumed

\* A notification that is to come is still to come after a step that makes none.
LEMMA PendingStays ==
    ASSUME TypeOK, WaitPlaces, NEW u \in Threads, Works(u) \/ Calls(u), SignalPending,
           ~(u \in Producers /\ Publish(u)),
           phase[u] # "signalling",
           \A t \in Threads \ {u} : phase'[t] = phase[t]
    PROVE  SignalPending'
<1>1. PICK w \in Threads : phase[w] = "signalling" \/ (pc[w] = "publish" /\ idx[w] > 0)
  BY DEF SignalPending
<1>2. w # u
  BY <1>1, PublishingStores
<1>3. phase'[w] = phase[w] /\ pc'[w] = pc[w] /\ idx'[w] = idx[w]
  BY <1>2, StepLocal
<1> QED
  BY <1>1, <1>3 DEF SignalPending

-----------------------------------------------------------------------------
\* Steps of a thread outside of the wait set lose no wake-up if a store is
\* followed by a signal.
LEMMA WakeUpFrame ==
    ASSUME BlockingInv, NEW u \in Threads, Works(u) \/ Calls(u),
           phase[u] \in {"running", "checking"}, phase'[u] # "unmet", m_cv' = m_cv,
           \A t \in Threads \ {u} : phase'[t] = phase[t],
           u \in Producers /\ Publish(u) => SignalPending',
           u \in Consumers /\ PublishConsumed(u) => SignalPending'
    PROVE  WakeUpInv'
<1> USE DEF BlockingInv
<1> SUFFICES ASSUME NEW t \in Threads, t \in m_cv' \/ phase'[t] = "unmet",
                    Satisfied(t)', ~SignalPending'
             PROVE  FALSE
  BY DEF WakeUpInv
<1>1. t # u
  BY DEF MutexInv
<1>2. SameWait(t)
  BY <1>1, StepLocal
<1>3. Satisfied(t)
  BY <1>2, SatisfiedStays
<1>4. SignalPending
  BY <1>1, <1>3 DEF WakeUpInv
<1> QED
  BY <1>4, PendingStays

\* A store made outside of the wait strategy is followed by a signal.
LEMMA StoreSignals ==
    ASSUME TypeOK, MutexInv, NEW u \in Threads, Runs(u),
           \/ u \in Producers /\ Publish(u)
           \/ u \in Consumers /\ PublishConsumed(u)
    PROVE  SignalPending'
<1>1. pc[u] \in {"publish", "consumed"} /\ ~LoadFails(u)
  BY DEF Publish, PublishConsumed, LoadFails
<1>2. CASE u \in Producers /\ Publish(u) /\ idx[u] + 1 < size[u]
  BY <1>2 DEF Publish, Again, TypeOK, SignalPending
<1>3. CASE Goto(u, "idle")
  <2>1. pc'[u] = "idle"
    BY <1>3 DEF Goto, TypeOK
  <2>2. Signals(u) /\ Enter(u, "signalling")
    BY <1>1, <2>1 DEF Runs, Signals
  <2> QED
    BY <2>2 DEF Enter, MutexInv, SignalPending
<1> QED
  BY <1>2, <1>3 DEF Publish, PublishConsumed

\* Steps outside of the wait strategy.
LEMMA RunsKeeps ==
    ASSUME BlockingInv, NEW u \in Threads, Runs(u)
    PROVE  MutexInv' /\ WakeUpInv'
<1> USE DEF BlockingInv
<1>1. phase[u] = "running" /\ Works(u)
  BY DEF Runs
<1>2. /\ m_mutex' = m_mutex /\ m_cv' = m_cv
      /\ phase' \in [Threads -> Phases]
      /\ \A t \in Threads \ {u} : phase'[t] = phase[t]
      /\ \/ phase'[u] \in {"running", "signalling"}
         \/ phase'[u] = "locking" /\ (LoadFails(u) \/ pc'[u] = "await")
  BY <1>1 DEF Runs, Enter, blockingVars, MutexInv, Phases
<1>3. phase'[u] = "locking" => pc'[u] \in {"claimWait", "upstream", "await"}
  BY <1>1, <1>2, FailedLoadStays DEF MutexInv
<1>4. MutexInv'
  <2>1. \A t \in Threads \ {u} : pc'[t] = pc[t]
    BY <1>1, StepLocal
  <2>2. \A t \in Threads : ~timed'[t]
    BY <1>1, Untimed DEF MutexInv
  <2>3. u \notin m_cv
    BY <1>1 DEF MutexInv
  <2> QED
    BY <1>2, <1>3, <2>1, <2>2, <2>3 DEF MutexInv
<1> QED
  BY <1>1, <1>2, <1>4, StoreSignals, WakeUpFrame

\* Calls of the drivers.
LEMMA CallsKeep ==
    ASSUME BlockingInv, NEW u \in Threads, Calls(u)
    PROVE  MutexInv' /\ WakeUpInv'
<1> USE DEF BlockingInv
<1>1. phase[u] = "running" /\ UNCHANGED blockingVars
  BY DEF Calls
<1>2. pc[u] = "idle"
  BY DEF Calls, ClaimFetchAdd, TryClaimBegin, ReaderBegins, BeginWait
<1>3. MutexInv'
  <2>1. \A t \in Threads \ {u} : pc'[t] = pc[t]
    BY StepLocal
  <2>2. \A t \in Threads : ~timed'[t]
    BY Untimed DEF MutexInv
  <2> QED
    BY <1>1, <2>1, <2>2 DEF MutexInv, blockingVars
<1> QED
  BY <1>1, <1>2, <1>3, WakeUpFrame DEF blockingVars, Publish, PublishConsumed

\* Loads of the predicate that find what they look for, under the mutex.
LEMMA ChecksKeeps ==
    ASSUME BlockingInv, NEW u \in Threads, Checks(u)
    PROVE  MutexInv' /\ WakeUpInv'
<1> USE DEF BlockingInv
<1>1. phase[u] = "checking" /\ Works(u) /\ m_mutex = u
  BY DEF Checks, MutexInv
<1>2. pc[u] \in {"claimWait", "upstream", "await"} /\ u \notin m_cv
  BY <1>1 DEF MutexInv
<1>3. /\ m_cv' = m_cv
      /\ phase' \in [Threads -> Phases]
      /\ \A t \in Threads \ {u} : phase'[t] = phase[t]
      /\ \/ phase'[u] = "running"
         \/ phase'[u] = "checking" /\ m_mutex' = m_mutex /\ pc'[u] = pc[u]
  BY <1>1 DEF Checks, WaitReturns, Leave, blockingVars, MutexInv, Phases
<1>4. MutexInv'
  <2>1. \A t \in Threads \ {u} : pc'[t] = pc[t]
    BY <1>1, StepLocal
  <2>2. \A t \in Threads : ~timed'[t]
    BY <1>1, Untimed DEF MutexInv
  <2>3. \A t \in Threads \ {u} : phase[t] \notin {"checking", "unmet"}
    BY <1>1 DEF MutexInv
  <2> QED
    BY <1>1, <1>2, <1>3, <2>1, <2>2, <2>3 DEF MutexInv
<1> QED
  BY <1>1, <1>2, <1>3, <1>4, WakeUpFrame DEF Publish, PublishConsumed

\* The predicate fails: what the thread waits for is not there, and it holds the
\* mutex, so that nobody can notify before it sleeps.
LEMMA PredicateFailsKeeps ==
    ASSUME BlockingInv, NEW u \in Threads, PredicateFails(u)
    PROVE  MutexInv' /\ WakeUpInv'
<1> USE DEF BlockingInv
<1>1. /\ phase[u] = "checking" /\ LoadFails(u)
      /\ phase' = [phase EXCEPT ![u] = "unmet"]
      /\ m_mutex' = m_mutex /\ m_cv' = m_cv
      /\ pc' = pc /\ timed' = timed
      /\ m_lastPublished' = m_lastPublished /\ m_published' = m_published
      /\ sequence' = sequence /\ size' = size /\ target' = target /\ seq' = seq
  BY DEF PredicateFails, Enter, Goto, TypeOK, readerVars, claimVars
<1>2. \A t \in Threads \ {u} : idx'[t] = idx[t]
  BY DEF PredicateFails, Goto, TypeOK
<1>3. pc[u] \in {"claimWait", "upstream", "await"}
  BY <1>1 DEF MutexInv
<1>4. MutexInv'
  BY <1>1 DEF MutexInv, Phases
<1>5. \A t \in Threads : Satisfied(t)' => Satisfied(t)
  BY <1>1, SatisfiedStays DEF SameWait
<1>6. ~Satisfied(u)
  BY <1>1, FailedLoad
<1>7. SignalPending => SignalPending'
  BY <1>1, <1>2, <1>3 DEF SignalPending, MutexInv
<1>8. WakeUpInv'
  BY <1>1, <1>5, <1>6, <1>7 DEF WakeUpInv, MutexInv
<1> QED
  BY <1>4, <1>8

\* Locking, sleeping, notifying and waking up.
LEMMA StrategyKeeps ==
    ASSUME BlockingInv, NEW u \in Threads, UNCHANGED vars,
           LockMutex(u) \/ CvWait(u) \/ signal_all_when_blocking(u) \/ SpuriousWakeUp(u)
    PROVE  MutexInv' /\ WakeUpInv'
<1> USE DEF BlockingInv
<1>1. /\ pc' = pc /\ idx' = idx /\ timed' = timed
      /\ \A t \in Threads : SameWait(t)
  BY DEF vars, barrierVars, readerVars, claimVars, SameWait
<1>2. \A t \in Threads : Satisfied(t)' => Satisfied(t)
  BY <1>1, SatisfiedStays
<1>3. CASE LockMutex(u)
  <2>1. /\ phase' = [phase EXCEPT ![u] = "checking"] /\ phase[u] = "locking"
        /\ m_mutex = NoThread /\ m_mutex' = u /\ m_cv' = m_cv
    BY <1>3 DEF LockMutex
  <2>2. \A t \in Threads : phase[t] \notin {"checking", "unmet"}
    BY <2>1, BlockingAssumption DEF MutexInv
  <2>3. MutexInv'
    BY <1>1, <2>1, <2>2 DEF MutexInv, Phases
  <2>4. SignalPending => SignalPending'
    BY <1>1, <2>1 DEF SignalPending, MutexInv
  <2> QED
    BY <1>2, <2>1, <2>2, <2>3, <2>4 DEF WakeUpInv, MutexInv
<1>4. CASE CvWait(u)
  <2>1. /\ phase' = [phase EXCEPT ![u] = "asleep"] /\ phase[u] = "unmet"
        /\ m_mutex' = NoThread /\ m_cv' = m_cv \cup {u}
    BY <1>4 DEF CvWait, Leave
  <2>2. \A t \in Threads \ {u} : phase[t] \notin {"checking", "unmet"}
    BY <2>1 DEF MutexInv
  <2>3. MutexInv'
    BY <1>1, <2>1, <2>2 DEF MutexInv, Phases
  <2>4. SignalPending => SignalPending'
    BY <1>1, <2>1 DEF SignalPending, MutexInv
  <2> QED
    BY <1>2, <2>1, <2>2, <2>3, <2>4 DEF WakeUpInv, MutexInv
<1>5. CASE signal_all_when_blocking(u)
  <2>1. /\ m_mutex = NoThread /\ m_mutex' = m_mutex /\ m_cv' = {}
        /\ phase' = [t \in Threads |-> IF t = u THEN "running"
                                       ELSE IF t \in m_cv THEN "locking"
                                       ELSE phase[t]]
    BY <1>5 DEF signal_all_when_blocking, NotifyAll
  <2>2. \A t \in Threads : phase[t] \notin {"checking", "unmet"}
    BY <2>1, BlockingAssumption DEF MutexInv
  <2>3. MutexInv'
    BY <1>1, <2>1, <2>2 DEF MutexInv, Phases
  <2> QED
    BY <2>1, <2>2, <2>3 DEF WakeUpInv
<1>6. CASE SpuriousWakeUp(u)
  <2>1. /\ phase' = [phase EXCEPT ![u] = "locking"] /\ phase[u] = "asleep"
        /\ m_mutex' = m_mutex /\ m_cv' = m_cv \ {u}
    BY <1>6 DEF SpuriousWakeUp, MutexInv
  <2>2. MutexInv'
    BY <1>1, <2>1 DEF MutexInv, Phases
  <2>3. SignalPending => SignalPending'
    BY <1>1, <2>1 DEF SignalPending, MutexInv
  <2> QED
    BY <1>2, <2>1, <2>2, <2>3 DEF WakeUpInv, MutexInv
<1> QED
  BY <1>3, <1>4, <1>5, <1>6

\* Steps that change nothing.
LEMMA BlockingStutters ==
    ASSUME MutexInv, WakeUpInv, UNCHANGED allVars
    PROVE  MutexInv' /\ WakeUpInv'
BY DEF allVars, vars, barrierVars, readerVars, claimVars, blockingVars, MutexInv,
       WakeUpInv, SignalPending, Satisfied

\* With blocking_wait_strategy no thread sleeps on a sequence that is published
\* unless its publisher has yet to notify, although publishers store without the
\* mutex: signal_all_when_blocking cannot come between a check and a sleep.
THEOREM NoWakeUpIsLost == BlockingSpec => []NoLostWakeUp
<1>1. BlockingInit => BlockingInv
  <2> SUFFICES ASSUME BlockingInit PROVE BlockingInv
    OBVIOUS
  <2>1. TypeOK /\ WaitPlaces
    BY TypeInit, WaitPlacesInit DEF BlockingInit
  <2>2. MutexInv /\ WakeUpInv
    BY DEF BlockingInit, MutexInit, Init, BarriersInit, MutexInv, WakeUpInv, Phases
  <2> QED
    BY <2>1, <2>2 DEF BlockingInv
<1>2. BlockingInv /\ [BlockingNext]_allVars => BlockingInv'
  <2> SUFFICES ASSUME BlockingInv, [BlockingNext]_allVars PROVE BlockingInv'
    OBVIOUS
  <2>1. TypeOK' /\ WaitPlaces'
    BY BlockingStep, SpinningStep DEF BlockingInv
  <2>2. ASSUME UNCHANGED allVars
        PROVE  MutexInv' /\ WakeUpInv'
    BY <2>2, BlockingStutters DEF BlockingInv
  <2>3. ASSUME NEW u \in Threads,
               Calls(u) \/ ThreadStep(u) \/ (SpuriousWakeUp(u) /\ UNCHANGED vars)
        PROVE  MutexInv' /\ WakeUpInv'
    BY <2>3, CallsKeep, RunsKeeps, ChecksKeeps, PredicateFailsKeeps, StrategyKeeps
       DEF ThreadStep, InStrategy
  <2>4. ASSUME Terminated, UNCHANGED blockingVars
        PROVE  MutexInv' /\ WakeUpInv'
    BY <2>2, <2>4 DEF Terminated, allVars
  <2>5. MutexInv' /\ WakeUpInv'
    BY <2>2, <2>3, <2>4 DEF BlockingNext, BlockingInv
  <2> QED
    BY <2>1, <2>5 DEF BlockingInv
<1>3. BlockingInv => NoLostWakeUp
  BY DEF BlockingInv, WakeUpInv, MutexInv, SignalPending, NoLostWakeUp
<1> QED
  BY <1>1, <1>2, <1>3, PTL DEF BlockingSpec

=============================================================================
