------------------------- MODULE SpinningDisruptor -------------------------
(***************************************************************************)
(* The disruptor of SingleThreadedClaimStrategy with the back-off and the  *)
(* clock of the spin_wait_strategy's loops.  There a timed wait may time   *)
(* out after any scan that fails, and is assumed to in the end; here it    *)
(* does when it looks at the clock and the time has passed.                *)
(***************************************************************************)
EXTENDS SingleThreadedClaimStrategy, SpinWait

allVars == <<vars, spinVars>>

SpinningInit == Init /\ SpinInit

\* The barrier t loads next precedes the sequence it waits for.
LoadFails(t) ==
    \/ /\ pc[t] \in {"claimWait", "timedWait"}
       /\ MinDeltaNow(t, ClaimBarriers, ClaimFloor) < 0
    \/ pc[t] = "upstream" /\ MinDeltaNow(t, Upstream[t], target[t]) < 0

Works(t) ==
    \/ t \in Producers /\ ProducerWorks(t)
    \/ t \in Consumers /\ ConsumerWorks(t)

\* A scan fails: the loop returns if it is out of time, and spins otherwise.
\* The first scan is the barrier's own, before it calls the strategy.
FailsScan(t) ==
    /\ LoadFails(t)
    /\ Works(t)
    /\ \/ ~OutOfTime(t) /\ pc'[t] = pc[t] /\ Spin(t)
       \/ OutOfTime(t) /\ pc'[t] # pc[t] /\ SpinDone(t)

\* Any other step; one that leaves the place where t is ends its wait.  A call
\* of try_claim_for/until goes on from try_claim to its wait.
GoesOn(t) ==
    /\ ~LoadFails(t)
    /\ Works(t)
    /\ IF pc'[t] \in {pc[t], "timedWait"} THEN UNCHANGED spinVars ELSE SpinDone(t)

Calls(t) ==
    /\ \/ t \in Producers /\ ClaimBegin(t)
       \/ t \in Consumers /\ ReaderBegins(t)
    /\ UNCHANGED spinVars

ThreadStep(t) == FailsScan(t) \/ GoesOn(t)

SpinningNext ==
    \/ \E t \in Threads :
          \/ Calls(t) \/ ThreadStep(t)
          \/ Expire(t) /\ UNCHANGED vars
    \/ Terminated /\ UNCHANGED spinVars

\* Threads inside a call keep running and time passes; nobody has to call.
SpinningSpec ==
    /\ SpinningInit
    /\ [][SpinningNext]_allVars
    /\ \A t \in Threads :
          WF_allVars(ThreadStep(t)) /\ WF_allVars(Expire(t) /\ UNCHANGED vars)

-----------------------------------------------------------------------------
(***************************************************************************)
(* Properties                                                              *)
(***************************************************************************)

\* The loops implement the timed waits of SingleThreadedClaimStrategy, with the
\* fairness it assumes of the clock: although the clock is only read when the next
\* spin yields, no timed wait spins past its time for ever.
ImplementsTimedWaits == TimedSpec

\* A thread that goes on waiting goes on sleeping now and then, also after its
\* counter has wrapped.
WaitersSleepAgain ==
    \A t \in Threads : []<>(m_value[t] = NoSpinner \/ WillSleep(t))

=============================================================================
