------------------------ MODULE BlockingWaitStrategy ------------------------
(***************************************************************************)
(* blocking_wait_strategy.hpp: one mutex and one condition variable shared *)
(* by all barriers.  A waiting thread evaluates its predicate, a scan of   *)
(* the awaited sequences, with the mutex held; a publisher stores without  *)
(* the mutex and takes it only to notify.  phase[t] says where thread t is *)
(* in the strategy:                                                        *)
(*   running     outside of it                                             *)
(*   locking     in wait_until_published, acquiring the mutex, at first or *)
(*               after a wake-up                                           *)
(*   checking    holding the mutex, in the predicate                       *)
(*   unmet       holding the mutex, the predicate false, not yet asleep    *)
(*   asleep      in the wait set of m_cv                                   *)
(*   signalling  in signal_all_when_blocking, acquiring the mutex          *)
(***************************************************************************)
EXTENDS BarrierGroups

CONSTANTS
    NoThread,           \* the owner of a mutex that is free
    SpuriousWakeUps     \* bound on wake-ups without a notification

ASSUME BlockingAssumption == NoThread \notin Threads /\ SpuriousWakeUps \in Nat

VARIABLES m_mutex, m_cv, phase, spurious

blockingVars == <<m_mutex, m_cv, phase, spurious>>

MutexInit ==
    /\ m_mutex = NoThread
    /\ m_cv = {}
    /\ phase = [t \in Threads |-> "running"]
    /\ spurious = 0

Enter(t, place) ==
    /\ phase' = [phase EXCEPT ![t] = place]
    /\ UNCHANGED <<m_mutex, m_cv, spurious>>

Leave(t, place) ==
    /\ phase' = [phase EXCEPT ![t] = place]
    /\ m_mutex' = NoThread
    /\ UNCHANGED spurious

\* std::unique_lock, and the relocking at the end of m_cv.wait.
LockMutex(t) ==
    /\ phase[t] = "locking" /\ m_mutex = NoThread
    /\ m_mutex' = t
    /\ phase' = [phase EXCEPT ![t] = "checking"]
    /\ UNCHANGED <<m_cv, spurious>>

\* wait_until_published returns: the predicate held and lock is destroyed.
WaitReturns(t) == Leave(t, "running") /\ UNCHANGED m_cv

\* m_cv.wait releases the mutex and puts t in the wait set in one step.
CvWait(t) ==
    /\ phase[t] = "unmet"
    /\ Leave(t, "asleep")
    /\ m_cv' = m_cv \cup {t}

\* A condition variable may wake a thread that nobody notified.
SpuriousWakeUp(t) ==
    /\ t \in m_cv /\ spurious < SpuriousWakeUps
    /\ m_cv' = m_cv \ {t}
    /\ phase' = [phase EXCEPT ![t] = "locking"]
    /\ spurious' = spurious + 1
    /\ UNCHANGED m_mutex

\* Everyone in the wait set goes to relock the mutex, and t goes on.
NotifyAll(t) ==
    /\ m_cv' = {}
    /\ phase' = [u \in Threads |-> IF u = t THEN "running"
                                   ELSE IF u \in m_cv THEN "locking"
                                   ELSE phase[u]]
    /\ UNCHANGED <<m_mutex, spurious>>

\* Mutant of signal_all_when_blocking: it notifies without the lock.
signal_without_lock(t) == phase[t] = "signalling" /\ NotifyAll(t)

\* signal_all_when_blocking: lock, notify_all, unlock.  Nothing that others do
\* between these three depends on which of them has happened.
signal_all_when_blocking(t) ==
    /\ phase[t] = "signalling" /\ m_mutex = NoThread
    /\ NotifyAll(t)

=============================================================================
