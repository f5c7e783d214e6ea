------------------------------ MODULE SpinWait ------------------------------
(***************************************************************************)
(* spin_wait.hpp: the back-off counter of a thread that waits with the     *)
(* spin_wait_strategy.  Each call of the strategy has a spin_wait of its   *)
(* own.  What spin_once does to the processor is left out; the counter     *)
(* decides what it is (pause, yield or sleep) and when a timed wait looks  *)
(* at the clock.                                                           *)
(***************************************************************************)
EXTENDS BarrierGroups

CONSTANTS
    YieldAt,        \* 10, the value from which on spin_once yields
    SleepEvery,     \* 20, every how many yields are a sleep
    MaxValue,       \* 0xFFFFFFFF
    InitialValue    \* 0, or YieldAt where hardware_concurrency() <= 1

ASSUME SpinAssumption ==
    /\ YieldAt \in Nat \ {0} /\ SleepEvery \in Nat \ {0}
    /\ MaxValue \in Nat /\ YieldAt + SleepEvery <= MaxValue + 1
    /\ InitialValue \in {0, YieldAt}

VARIABLES
    m_value,    \* [Threads -> Int], the counter of the thread's spin_wait
    expired     \* [Threads -> BOOLEAN], timeoutTime < Clock::now()

spinVars == <<m_value, expired>>

NoSpinner == -1     \* the thread is not in the wait strategy

SpinInit ==
    /\ m_value = [t \in Threads |-> NoSpinner]
    /\ expired = [t \in Threads |-> FALSE]

next_spin_will_yield(t) == m_value[t] >= YieldAt

\* The next spin_once sleeps for a millisecond.
WillSleep(t) ==
    /\ next_spin_will_yield(t)
    /\ (m_value[t] - YieldAt) % SleepEvery = SleepEvery - 1

\* Mutants of spin_once: the counter stays, always and at its maximum.
SpinOnceStays(v) == v
SpinOnceSaturates(v) == IF v = MaxValue THEN v ELSE v + 1

\* The counter after spin_once: it wraps to the first value that yields.
spin_once(v) == IF v = MaxValue THEN YieldAt ELSE v + 1

\* The constructor, when the strategy is called, or spin_once.
Spin(t) ==
    /\ m_value' = [m_value EXCEPT
                       ![t] = IF @ = NoSpinner THEN InitialValue ELSE spin_once(@)]
    /\ UNCHANGED expired

\* The time given to t's call passes.
Expire(t) ==
    /\ timed[t] /\ ~expired[t]
    /\ expired' = [expired EXCEPT ![t] = TRUE]
    /\ UNCHANGED m_value

\* if (spinner.next_spin_will_yield() && timeoutTime < Clock::now())
OutOfTime(t) ==
    /\ m_value[t] # NoSpinner
    /\ timed[t] /\ next_spin_will_yield(t) /\ expired[t]

\* t's call returns.
SpinDone(t) ==
    /\ m_value' = [m_value EXCEPT ![t] = NoSpinner]
    /\ expired' = [expired EXCEPT ![t] = FALSE]

=============================================================================
