--------------------------- MODULE BarrierGroups ---------------------------
(***************************************************************************)
(* Sequence barriers (sequence_barrier.hpp), groups of them                *)
(* (sequence_barrier_group.hpp) and a thread waiting on a group with the   *)
(* spin_wait_strategy.  A group is a sequence of barriers.  A wait is a    *)
(* scan of the group, one load per step, repeated until no barrier         *)
(* precedes the awaited sequence.  The scan that the group makes before it *)
(* calls the wait strategy is the first of these scans.                    *)
(***************************************************************************)
EXTENDS SequenceNumbers

CONSTANTS Threads, Barriers

VARIABLES
    m_lastPublished,    \* [Barriers -> Int], one atomic sequence_t each
    pc,                 \* [Threads -> STRING], where each thread is
    idx,                \* [Threads -> Nat], the index of the loop it is in
    acc,                \* [Threads -> Int], minimum or minDelta of its scan
    timed               \* [Threads -> BOOLEAN], was a timeout given to its call

barrierVars == <<m_lastPublished, pc, idx, acc, timed>>

BarriersInit ==
    /\ m_lastPublished = [b \in Barriers |-> -1]
    /\ pc = [t \in Threads |-> "idle"]
    /\ idx = [t \in Threads |-> 0]
    /\ acc = [t \in Threads |-> 0]
    /\ timed = [t \in Threads |-> FALSE]

\* t goes to label, and the loop it enters there starts at index 0.
Goto(t, label) ==
    /\ pc' = [pc EXCEPT ![t] = label]
    /\ idx' = [idx EXCEPT ![t] = 0]
    /\ acc' = [acc EXCEPT ![t] = 0]

\* t goes round its loop once more, having accumulated value.
Again(t, value) ==
    /\ idx' = [idx EXCEPT ![t] = @ + 1]
    /\ acc' = [acc EXCEPT ![t] = value]
    /\ UNCHANGED pc

(***************************************************************************)
(* t loads the next barrier of the group.                                  *)
(***************************************************************************)
Loaded(t, group) == m_lastPublished[group[idx[t] + 1]]

IsLastLoad(t, group) == idx[t] + 1 = Len(group)

\* last_published() of a group: the minimum so far, with this load.
MinimumNow(t, group) == MinimumStep(idx[t], acc[t], Loaded(t, group))

\* wait_until_published(floor): minDelta with this load.
MinDeltaNow(t, group, floor) ==
    MinDeltaStep(idx[t], acc[t], Loaded(t, group), floor)

\* A barrier precedes floor: the scan stops short and, as long as the wait
\* has not timed out, starts again.
Rescan(t, group, floor) ==
    /\ MinDeltaNow(t, group, floor) < 0
    /\ Goto(t, pc[t])
    /\ UNCHANGED <<m_lastPublished, timed>>

\* The scan goes on to the next barrier.
ScanOn(t, group, floor) ==
    /\ MinDeltaNow(t, group, floor) >= 0
    /\ ~IsLastLoad(t, group)
    /\ Again(t, MinDeltaNow(t, group, floor))
    /\ UNCHANGED <<m_lastPublished, timed>>

\* Every barrier has reached floor: the wait returns ScanResult.
ScanDone(t, group, floor) ==
    /\ MinDeltaNow(t, group, floor) >= 0
    /\ IsLastLoad(t, group)

\* A barrier precedes floor and the time given to the wait has passed.
TimesOut(t, group, floor) ==
    /\ timed[t]
    /\ MinDeltaNow(t, group, floor) < 0

\* What the scan returns, static_cast<sequence_t>(minDelta + minimum).
ScanResult(t, group, floor) == floor + MinDeltaNow(t, group, floor)

\* sequence_barrier::publish: one store; the spin_wait_strategy's
\* signal_all_when_blocking does nothing.
PublishBarrier(b, sequence) ==
    m_lastPublished' = [m_lastPublished EXCEPT ![b] = sequence]

=============================================================================
