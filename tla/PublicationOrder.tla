-------------------------- MODULE PublicationOrder --------------------------
(***************************************************************************)
(* The memory orders of MultiThreadedClaimStrategy.  Elements of the ring  *)
(* buffer are plain memory: two accesses to one of them, of which one is a *)
(* write, must be ordered by the release stores and acquire loads of the   *)
(* barriers and of the entries of m_published.  The claim counter is       *)
(* accessed with memory_order_relaxed and orders nothing.  This module     *)
(* adds to every step which accesses to elements happen before it.         *)
(***************************************************************************)
EXTENDS MultiThreadedClaimStrategy

VARIABLES
    before,         \* [Threads -> SUBSET Access], before the thread's next step
    barrierCarries, \* [Barriers -> SUBSET Access], before the store of its value
    entryCarries    \* [Slots -> SUBSET Access], likewise, of m_published

orderVars == <<before, barrierCarries, entryCarries>>

\* One access to the element of sequence s, by t.
Access(t, isWrite, s) == [by |-> t, isWrite |-> isWrite, seq |-> s]

OrderInit ==
    /\ before = [t \in Threads |-> {}]
    /\ barrierCarries = [b \in Barriers |-> {}]
    /\ entryCarries = [k \in Slots |-> {}]

\* Mutant of Acquired: producers load the claim barrier with memory_order_relaxed.
AcquiredByReaders(t) ==
    CASE pc[t] = "upstream" -> barrierCarries[Upstream[t][idx[t] + 1]]
      [] pc[t] \in {"check", "await", "after"} -> entryCarries[Slot(seq[t])]
      [] OTHER -> {}

\* What happens before the store that t's load reads from: minimum_sequence,
\* minimum_sequence_after and is_published load with memory_order_acquire.
Acquired(t) ==
    CASE pc[t] \in {"claimWait", "tryScan", "timedWait"} ->
            barrierCarries[ClaimBarriers[idx[t] + 1]]
      [] pc[t] = "upstream" -> barrierCarries[Upstream[t][idx[t] + 1]]
      [] pc[t] \in {"check", "await", "after"} -> entryCarries[Slot(seq[t])]
      [] OTHER -> {}

\* The element t accesses.
Accessed(t) ==
    CASE pc[t] = "write" -> {Access(t, TRUE, RangeAt(sequence[t], idx[t]))}
      [] pc[t] = "read"  -> {Access(t, FALSE, nextToRead[t])}
      [] OTHER           -> {}

\* Mutant of Released: set_published stores with memory_order_relaxed.
ReleasedByBarriers(t) ==
    /\ barrierCarries' = IF pc[t] = "consumed"
                         THEN [barrierCarries EXCEPT ![t] = before[t]]
                         ELSE barrierCarries
    /\ entryCarries' = IF pc[t] = "publish"
                       THEN [entryCarries EXCEPT
                                 ![Slot(RangeAt(sequence[t], idx[t]))] = {}]
                       ELSE entryCarries

\* sequence_barrier::publish and set_published store with memory_order_release.
Released(t) ==
    /\ barrierCarries' = IF pc[t] = "consumed"
                         THEN [barrierCarries EXCEPT ![t] = before[t]]
                         ELSE barrierCarries
    /\ entryCarries' = IF pc[t] = "publish"
                       THEN [entryCarries EXCEPT
                                 ![Slot(RangeAt(sequence[t], idx[t]))] = before[t]]
                       ELSE entryCarries

OrderedStep(t) ==
    /\ \/ t \in Producers /\ ProducerWorks(t)
       \/ t \in Consumers /\ ConsumerWorks(t)
    /\ before' = [before EXCEPT ![t] = @ \cup Acquired(t) \cup Accessed(t)]
    /\ Released(t)

OrderedNext ==
    \/ \E t \in Threads : OrderedStep(t)
    \/ /\ \/ \E p \in Producers : ClaimFetchAdd(p) \/ TryClaimBegin(p)
          \/ \E c \in Consumers : ReaderBegins(c)
          \/ Terminated
       /\ UNCHANGED orderVars

OrderedSpec == Init /\ OrderInit /\ [][OrderedNext]_<<vars, orderVars>>

-----------------------------------------------------------------------------
\* All accesses made so far; each is before the next step of its own thread.
Accesses == UNION {before[t] : t \in Threads}

\* Freedom from data races: when a thread is about to access an element, every
\* earlier access that conflicts with it happens before this one, through however
\* many threads' publications, and through none of the relaxed accesses.
NoDataRace ==
    \A t \in Threads : \A mine \in Accessed(t) : \A other \in Accesses :
        (Slot(other.seq) = Slot(mine.seq) /\ (other.isWrite \/ mine.isWrite))
            => other \in before[t]

=============================================================================
