------------------------- MODULE BlockingDisruptor -------------------------
(***************************************************************************)
(* The disruptor of MultiThreadedClaimStrategy with its barriers and its   *)
(* claim strategy constructed with the blocking_wait_strategy.  A step of  *)
(* a thread is a step it takes when spinning, except that a wait whose     *)
(* first scan fails enters the wait strategy, which scans with the mutex   *)
(* held, and that a publication ends with signal_all_when_blocking.        *)
(***************************************************************************)
EXTENDS MultiThreadedClaimStrategy, BlockingWaitStrategy

\* The strategy's waits with a timeout do not compile (the predicate is passed
\* in the place of the time), so no program calls them.  The timed wait of a
\* reader for the claim strategy drops its timeout and is the untimed one.
ASSUME UntimedAssumption == TimedWaits = {FALSE}

allVars == <<vars, blockingVars>>

BlockingInit == Init /\ MutexInit

\* The sequence t loads next precedes the one it waits for.
LoadFails(t) ==
    \/ /\ pc[t] = "claimWait"
       /\ MinDeltaNow(t, ClaimBarriers, ClaimFloor(sequence[t], size[t])) < 0
    \/ pc[t] = "upstream" /\ MinDeltaNow(t, Upstream[t], target[t]) < 0
    \/ pc[t] = "await" /\ difference(m_published[Slot(seq[t])], seq[t]) < 0

Works(t) ==
    \/ t \in Producers /\ ProducerWorks(t)
    \/ t \in Consumers /\ ConsumerWorks(t)

\* Mutant of Signals: a range is published without a signal.
SignalsUnlessRange(t) ==
    \/ pc[t] = "consumed"
    \/ pc[t] = "publish" /\ pc'[t] = "idle" /\ size[t] = 1

\* The last store of publish, of a barrier or of the claim strategy.
Signals(t) ==
    \/ pc[t] = "consumed"
    \/ pc[t] = "publish" /\ pc'[t] = "idle"

\* A step outside of the wait strategy.  A barrier is scanned once before the
\* strategy is called; for an entry of m_published is_published has been.
Runs(t) ==
    /\ phase[t] = "running"
    /\ Works(t)
    /\ CASE LoadFails(t) \/ pc'[t] = "await" -> Enter(t, "locking")
         [] Signals(t)                       -> Enter(t, "signalling")
         [] OTHER                            -> UNCHANGED blockingVars

\* Mutant of PredicateFails: a claim that was woken up does not look again.
ReturnsUnchecked(t) ==
    /\ phase[t] = "checking" /\ LoadFails(t)
    /\ pc[t] = "claimWait"
    /\ ClaimReturns(t, size[t])
    /\ WaitReturns(t)
    /\ UNCHANGED <<m_lastPublished, readerVars, m_nextClaimable, m_published,
                   sequence, size, seq>>

\* The predicate is false: the scan stops at this load.
PredicateFails(t) ==
    /\ phase[t] = "checking" /\ LoadFails(t)
    /\ Goto(t, pc[t])
    /\ Enter(t, "unmet")
    /\ UNCHANGED <<m_lastPublished, timed, readerVars, claimVars, seq>>

\* The predicate goes on to the next sequence, or holds after the last one.
Checks(t) ==
    /\ phase[t] = "checking" /\ ~LoadFails(t)
    /\ Works(t)
    /\ IF pc'[t] = pc[t] THEN UNCHANGED blockingVars ELSE WaitReturns(t)

InStrategy(t) ==
    /\ LockMutex(t) \/ CvWait(t) \/ signal_all_when_blocking(t)
    /\ UNCHANGED vars

Calls(t) ==
    /\ phase[t] = "running"
    /\ \/ t \in Producers /\ (ClaimFetchAdd(t) \/ TryClaimBegin(t))
       \/ t \in Consumers /\ ReaderBegins(t)
    /\ UNCHANGED blockingVars

ThreadStep(t) == Runs(t) \/ Checks(t) \/ PredicateFails(t) \/ InStrategy(t)

BlockingNext ==
    \/ \E t \in Threads :
          \/ Calls(t) \/ ThreadStep(t)
          \/ SpuriousWakeUp(t) /\ UNCHANGED vars
    \/ /\ Terminated
       /\ \A t \in Threads : phase[t] = "running"
       /\ UNCHANGED blockingVars

BlockingSpec == BlockingInit /\ [][BlockingNext]_allVars

\* Weak fairness of each thread's own steps: no fairness of the mutex, of
\* wake-ups without a notification, or of the order of waiters is assumed.
BlockingLiveSpec ==
    /\ BlockingSpec
    /\ \A t \in Threads : WF_allVars(ThreadStep(t)) /\ WF_allVars(Calls(t))

-----------------------------------------------------------------------------
(***************************************************************************)
(* Properties                                                              *)
(***************************************************************************)

\* What t waits for is there.
Satisfied(t) ==
    CASE pc[t] = "claimWait" -> \A b \in Elems(ClaimBarriers) :
            difference(m_lastPublished[b], ClaimFloor(sequence[t], size[t])) >= 0
      [] pc[t] = "upstream"  -> \A b \in Elems(Upstream[t]) :
            difference(m_lastPublished[b], target[t]) >= 0
      [] pc[t] = "await"     ->
            difference(m_published[Slot(seq[t])], seq[t]) >= 0
      [] OTHER               -> FALSE

\* No lost wake-up: when what a sleeping thread waits for is there, a publisher
\* still has to notify it, although the store was made without the mutex and
\* perhaps while the thread was between its check and its sleep.
NoLostWakeUp ==
    \A t \in m_cv : Satisfied(t) =>
        \E u \in Threads : phase[u] = "signalling" \/ (pc[u] = "publish" /\ idx[u] > 0)

\* Blocking threads only take steps that spinning threads could take, so all that
\* is proved of Spec holds with this wait strategy too.
ImplementsSpinning == Spec

=============================================================================
