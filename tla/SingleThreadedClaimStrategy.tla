-------------------- MODULE SingleThreadedClaimStrategy --------------------
(***************************************************************************)
(* single_threaded_claim_strategy.hpp with the spin_wait_strategy, its one *)
(* producer thread and its readers.  The strategy's m_readBarrier is one   *)
(* more barrier, ReadBarrier: a reader of the strategy has it as its       *)
(* Upstream group.  As in MultiThreadedClaimStrategy every action is one   *)
(* access to shared memory.                                                *)
(***************************************************************************)
EXTENDS Readers

CONSTANT ReadBarrier

ASSUME SingleProducerAssumption ==
    /\ \E p \in Producers : Producers = {p}
    /\ ReadBarrier \notin Consumers
    /\ Barriers = Consumers \cup {ReadBarrier}
    /\ \A c \in Consumers : Upstream[c] # <<>>

\* A buffer of 2^63 elements fits no machine, so a lap is less than what the
\* difference of two words can tell apart.
ASSUME BufferFitsAssumption == BufferSize < HalfModulus

VARIABLES
    m_nextSequenceToClaim,  \* Int, the next sequence to be claimed
    sequence, size,         \* Int and Nat, the range the producer has claimed
    count,                  \* Nat, the count parameter of its call
    remaining               \* Nat, items it has yet to claim

claimVars == <<m_nextSequenceToClaim, sequence, size, count, remaining>>

vars == <<barrierVars, readerVars, claimVars>>

Init ==
    /\ BarriersInit
    /\ ReadersInit
    /\ m_nextSequenceToClaim = 0
    /\ sequence = 0 /\ size = 0 /\ count = 0
    /\ remaining = ItemsPerProducer

-----------------------------------------------------------------------------
\* The sequence the claim barrier must reach for one slot to be free.
ClaimFloor == m_nextSequenceToClaim - BufferSize

\* Mutant of TakeRange: the range may be one longer than there is room for.
TakeRangeOneMore(p, claimable) ==
    LET taken == Smaller(count, difference(claimable, m_nextSequenceToClaim) + 2)
    IN  /\ sequence' = m_nextSequenceToClaim
        /\ size' = taken
        /\ m_nextSequenceToClaim' = m_nextSequenceToClaim + taken
        /\ remaining' = remaining - taken
        /\ count' = 0
        /\ timed' = [timed EXCEPT ![p] = FALSE]
        /\ Goto(p, IF taken = 0 THEN "idle" ELSE "write")

\* Mutant of TakeRange: all that is free is taken, whatever was asked for.
TakeRangeAllFree(p, claimable) ==
    LET taken == difference(claimable, m_nextSequenceToClaim) + 1
    IN  /\ sequence' = m_nextSequenceToClaim
        /\ size' = taken
        /\ m_nextSequenceToClaim' = m_nextSequenceToClaim + taken
        /\ remaining' = remaining - taken
        /\ count' = 0
        /\ timed' = [timed EXCEPT ![p] = FALSE]
        /\ Goto(p, IF taken = 0 THEN "idle" ELSE "write")

\* The end of every claim: take what was asked for or what is free up to
\* claimable, whichever is less.  Of an empty range nothing is written.
TakeRange(p, claimable) ==
    LET taken == Smaller(count, difference(claimable, m_nextSequenceToClaim) + 1)
    IN  /\ sequence' = m_nextSequenceToClaim
        /\ size' = taken
        /\ m_nextSequenceToClaim' = m_nextSequenceToClaim + taken
        /\ remaining' = remaining - taken
        /\ count' = 0
        /\ timed' = [timed EXCEPT ![p] = FALSE]
        /\ Goto(p, IF taken = 0 THEN "idle" ELSE "write")

\* The call returns false.
ClaimFails(p) ==
    /\ Goto(p, "idle")
    /\ count' = 0
    /\ timed' = [timed EXCEPT ![p] = FALSE]
    /\ UNCHANGED <<m_nextSequenceToClaim, sequence, size, remaining>>

\* The writer calls claim_one or claim(count), try_claim(count), or
\* try_claim_for/until(count), for no more than it has left to write.
ClaimBegin(p) ==
    /\ pc[p] = "idle" /\ remaining > 0
    /\ \E n \in Counts : count' = Smaller(n, remaining)
    /\ \/ Goto(p, "claimWait") /\ UNCHANGED timed
       \/ /\ Goto(p, "tryScan")
          /\ \E withTimeout \in TimedWaits :
                timed' = [timed EXCEPT ![p] = withTimeout]
    /\ UNCHANGED <<m_lastPublished, readerVars, m_nextSequenceToClaim, sequence,
                   size, remaining>>

\* claim_one and claim, and after a failed try_claim try_claim_for/until: one
\* load of m_claimBarrier's wait for one slot, with or without a timeout.
ClaimWait(p) ==
    /\ pc[p] \in {"claimWait", "timedWait"}
    /\ \/ /\ \/ Rescan(p, ClaimBarriers, ClaimFloor)
             \/ ScanOn(p, ClaimBarriers, ClaimFloor)
          /\ UNCHANGED claimVars
       \/ /\ ScanDone(p, ClaimBarriers, ClaimFloor)
          /\ TakeRange(p, ScanResult(p, ClaimBarriers, ClaimFloor) + BufferSize)
          /\ UNCHANGED m_lastPublished
       \/ /\ TimesOut(p, ClaimBarriers, ClaimFloor)
          /\ ClaimFails(p)
          /\ UNCHANGED m_lastPublished
    /\ UNCHANGED readerVars

\* try_claim: one load of m_claimBarrier.last_published(), and after the last
\* one what the call makes of their minimum.
TryClaimScan(p) ==
    LET claimable == MinimumNow(p, ClaimBarriers) + BufferSize
        diff      == difference(claimable, m_nextSequenceToClaim)
    IN  /\ pc[p] = "tryScan"
        /\ \/ /\ ~IsLastLoad(p, ClaimBarriers)
              /\ Again(p, MinimumNow(p, ClaimBarriers))
              /\ UNCHANGED <<timed, claimVars>>
           \/ /\ IsLastLoad(p, ClaimBarriers) /\ diff >= 0
              /\ TakeRange(p, claimable)
           \/ /\ IsLastLoad(p, ClaimBarriers) /\ diff < 0 /\ ~timed[p]
              /\ ClaimFails(p)
           \/ /\ IsLastLoad(p, ClaimBarriers) /\ diff < 0 /\ timed[p]
              /\ Goto(p, "timedWait")
              /\ UNCHANGED <<timed, claimVars>>
        /\ UNCHANGED <<m_lastPublished, readerVars>>

\* The writer writes the next element of its range.
WriteItem(p) ==
    LET s == RangeAt(sequence, idx[p])
    IN  /\ pc[p] = "write"
        /\ buffer' = [buffer EXCEPT ![Slot(s)] = s]
        /\ IF idx[p] + 1 = size THEN Goto(p, "publish") ELSE Again(p, 0)
        /\ UNCHANGED <<m_lastPublished, timed, nextToRead, target, available,
                       claimVars>>

\* Mutants of Publish: the sequence after the range, and its first, is published.
PublishEnd(p) ==
    /\ pc[p] = "publish"
    /\ PublishBarrier(ReadBarrier, RangeEnd(sequence, size))
    /\ Goto(p, "idle")
    /\ sequence' = 0 /\ size' = 0
    /\ UNCHANGED <<timed, readerVars, m_nextSequenceToClaim, count, remaining>>

PublishFirst(p) ==
    /\ pc[p] = "publish"
    /\ PublishBarrier(ReadBarrier, sequence)
    /\ Goto(p, "idle")
    /\ sequence' = 0 /\ size' = 0
    /\ UNCHANGED <<timed, readerVars, m_nextSequenceToClaim, count, remaining>>

\* publish(range.last()): the whole range with one store.
Publish(p) ==
    /\ pc[p] = "publish"
    /\ PublishBarrier(ReadBarrier, RangeLast(sequence, size))
    /\ Goto(p, "idle")
    /\ sequence' = 0 /\ size' = 0
    /\ UNCHANGED <<timed, readerVars, m_nextSequenceToClaim, count, remaining>>

-----------------------------------------------------------------------------
\* wait_until_published, with and without lastKnownPublished, is that of the
\* read barrier.
ReaderBegins(c) == BeginWait(c, "upstream") /\ UNCHANGED claimVars

ConsumerWorks(c) ==
    /\ WaitUpstream(c) \/ ReadItem(c) \/ PublishConsumed(c)
    /\ UNCHANGED claimVars

ProducerWorks(p) ==
    ClaimWait(p) \/ TryClaimScan(p) \/ WriteItem(p) \/ Publish(p)

Terminated ==
    /\ \A t \in Threads : pc[t] = "idle"
    /\ remaining = 0
    /\ \A c \in Consumers : nextToRead[c] = TotalItems
    /\ UNCHANGED vars

Next ==
    \/ \E p \in Producers : ClaimBegin(p) \/ ProducerWorks(p)
    \/ \E c \in Consumers : ReaderBegins(c) \/ ConsumerWorks(c)
    \/ Terminated

Spec == Init /\ [][Next]_vars

\* A thread inside a call or a loop keeps running.
ThreadFairness ==
    /\ \A p \in Producers : WF_vars(ProducerWorks(p))
    /\ \A c \in Consumers : WF_vars(ConsumerWorks(c))

\* The clock passes every timeout: a wait that goes on finding that the
\* sequence is not there ends.
ClockFairness ==
    /\ \A c \in Consumers : SF_vars(WaitUpstream(c) /\ pc'[c] = "idle" /\ UNCHANGED claimVars)
    /\ \A p \in Producers : SF_vars(ClaimWait(p) /\ pc[p] = "timedWait" /\ pc'[p] = "idle")

\* The drivers call again while they have items to claim or to read.
DriverFairness ==
    /\ \A p \in Producers : WF_vars(ClaimBegin(p))
    /\ \A c \in Consumers : WF_vars(ReaderBegins(c))

TimedSpec == Spec /\ ThreadFairness /\ ClockFairness
LiveSpec == Spec /\ ThreadFairness /\ DriverFairness

-----------------------------------------------------------------------------
(***************************************************************************)
(* Properties                                                              *)
(***************************************************************************)

\* Every variable has its type: no range has a negative size, no call takes more
\* than the count it was given, which the writer has left to write, and no scan
\* reads past the end of its group's array.
TypeOK ==
    /\ m_lastPublished \in [Barriers -> Int]
    /\ pc \in [Threads -> PCs]
    /\ idx \in [Threads -> Nat]
    /\ acc \in [Threads -> Int]
    /\ timed \in [Threads -> BOOLEAN]
    /\ buffer \in [Slots -> Int]
    /\ nextToRead \in [Consumers -> Int]
    /\ target \in [Consumers -> Int]
    /\ available \in [Consumers -> Int]
    /\ m_nextSequenceToClaim \in Int
    /\ sequence \in Int /\ size \in Nat /\ count \in Nat /\ remaining \in Nat
    /\ count <= remaining
    /\ ScanInBounds

\* The sequences claimed and not yet published.
Held ==
    IF \E p \in Producers : pc[p] \in {"write", "publish"}
    THEN sequence .. RangeLast(sequence, size) ELSE {}

\* The producer writes no slot that a reader has been told of and has not
\* read, in any wiring and on both sides of the wrap of the words.
SlotExclusion == \A c \in Consumers : SlotsOf(Held) \cap SlotsOf(Unread(c)) = {}

\* Claimed slots are never more than the buffer size ahead of any reader, the
\* ones that gate the producer only through another reader included.
ClaimsWithinBuffer ==
    \A c \in Consumers : \A s \in Held : s <= m_lastPublished[c] + BufferSize

\* The chain of cursors: a reader is never ahead of the readers it waits for, and
\* none is ahead of what the producer has published, on any lap.
CursorsInOrder ==
    \A c \in Consumers :
        /\ m_lastPublished[c] <= m_lastPublished[ReadBarrier]
        /\ \A d \in Ancestors[c] : m_lastPublished[c] <= m_lastPublished[d]

\* Every item is in the end consumed by every reader, whichever claims fail and
\* whichever claims and waits time out.
AllConsumed ==
    <>[](\A c \in Consumers : m_lastPublished[c] = TotalItems - 1)

\* A wait with a timeout, of a reader or of a claim, ends whether or not the
\* threads it waits for go on.
TimedWaitReturns ==
    \A t \in Threads :
        (timed[t] /\ pc[t] \in {"upstream", "timedWait"})
            ~> pc[t] \notin {"upstream", "timedWait"}

(***************************************************************************)
(* The claim strategy as a broadcast ring.                                 *)
(***************************************************************************)
Ring == INSTANCE BroadcastRing WITH
    held <- Held,
    published <- 0 .. m_lastPublished[ReadBarrier],
    cells <- buffer,
    next <- nextToRead,
    released <- [c \in Consumers |-> m_lastPublished[c]]

\* The producer's counter, the read barrier and the readers' barriers, each loaded
\* and stored on its own, amount to the ring: a slot is granted only when it is free
\* for good, and an item is read only when it is published and intact.
ImplementsRing == Ring!Spec

\* With fair threads the producer's counter, the read barrier and the readers'
\* barriers amount to the fair ring: slots are granted when they are free for
\* good, items are read in order and intact, and none stays unpublished or unread.
ImplementsFairRing == Ring!FairSpec

=============================================================================
