--------------------- MODULE MultiThreadedClaimStrategy ---------------------
(***************************************************************************)
(* multi_threaded_claim_strategy.hpp with the spin_wait_strategy, its      *)
(* producer threads and its readers.  Every action is one access to shared *)
(* memory (a load, a store, a fetch_add, a compare-exchange or an access to*)
(* a ring buffer element) together with the local computation around it.   *)
(***************************************************************************)
EXTENDS Readers

\* Every barrier is a reader's: the strategy itself publishes per slot.
ASSUME BarriersAssumption == Barriers = Consumers

VARIABLES
    m_nextClaimable,    \* Int, the shared counter
    m_published,        \* [Slots -> Int], last sequence published per slot
    sequence,           \* [Producers -> Int], first sequence of its claim
    size,               \* [Producers -> Nat], the number of them
    count,              \* [Producers -> Nat], the count parameter
    published,          \* [Producers -> Int], last claimable sequence it knows
    remaining,          \* [Producers -> Nat], items it has yet to claim
    seq                 \* [Consumers -> Int], the sequence a reader examines

claimVars == <<m_nextClaimable, m_published, sequence, size, count, published,
               remaining>>

vars == <<barrierVars, readerVars, claimVars, seq>>

\* Mutant of PublishedInit: the entries are left zero.
PublishedZero == [i \in Slots |-> 0]

\* Sequences before 0 have already been published.
PublishedInit == [i \in Slots |-> i - BufferSize]

Init ==
    /\ BarriersInit
    /\ ReadersInit
    /\ m_nextClaimable = 0
    /\ m_published = PublishedInit
    /\ sequence = [p \in Producers |-> 0]
    /\ size = [p \in Producers |-> 0]
    /\ count = [p \in Producers |-> 0]
    /\ published = [p \in Producers |-> 0]
    /\ remaining = [p \in Producers |-> ItemsPerProducer]
    /\ seq = [c \in Consumers |-> 0]

is_published(s) == SameWord(m_published[Slot(s)], s)

-----------------------------------------------------------------------------
(***************************************************************************)
(* Claiming.  The callers are the writers of test_2.cpp: they ask for at   *)
(* most as many slots as they have items left.                             *)
(***************************************************************************)

\* The call returns n sequences starting at first; of an empty range nothing
\* is written or published.
ClaimReturns(p, n) ==
    /\ Goto(p, IF n = 0 THEN "idle" ELSE "write")
    /\ remaining' = [remaining EXCEPT ![p] = @ - n]
    /\ count' = [count EXCEPT ![p] = 0]
    /\ published' = [published EXCEPT ![p] = 0]
    /\ timed' = [timed EXCEPT ![p] = FALSE]

\* The call returns false.
ClaimFails(p) ==
    /\ Goto(p, "idle")
    /\ sequence' = [sequence EXCEPT ![p] = 0]
    /\ size' = [size EXCEPT ![p] = 0]
    /\ count' = [count EXCEPT ![p] = 0]
    /\ published' = [published EXCEPT ![p] = 0]
    /\ timed' = [timed EXCEPT ![p] = FALSE]

\* claim_one() and claim(count): the fetch_add.
ClaimFetchAdd(p) ==
    /\ pc[p] = "idle" /\ remaining[p] > 0
    /\ \E n \in Counts :
          LET taken == Smaller(Smaller(n, remaining[p]), BufferSize)
          IN  /\ sequence' = [sequence EXCEPT ![p] = m_nextClaimable]
              /\ size' = [size EXCEPT ![p] = taken]
              /\ m_nextClaimable' = m_nextClaimable + taken
    /\ Goto(p, "claimWait")
    /\ UNCHANGED <<m_lastPublished, timed, readerVars, m_published, count,
                   published, remaining, seq>>

\* Mutants of ClaimFloor: one slot, and one lap, too early.
ClaimFloorOneEarly(first, n) == RangeLast(first, n) - BufferSize - 1
ClaimFloorLapEarly(first, n) == RangeLast(first, n) - 2 * BufferSize

\* The sequence the claim barrier must reach for a range to be free.
ClaimFloor(first, n) == RangeLast(first, n) - BufferSize

\* claim_one() and claim(count): one load of m_claimBarrier's wait.
ClaimWait(p) ==
    LET floor == ClaimFloor(sequence[p], size[p])
    IN  /\ pc[p] = "claimWait"
        /\ \/ /\ Rescan(p, ClaimBarriers, floor) \/ ScanOn(p, ClaimBarriers, floor)
              /\ UNCHANGED <<remaining, count, published>>
           \/ /\ ScanDone(p, ClaimBarriers, floor)
              /\ ClaimReturns(p, size[p])
              /\ UNCHANGED m_lastPublished
        /\ UNCHANGED <<readerVars, m_nextClaimable, m_published, sequence, size, seq>>

\* try_claim(count) and, with a timeout, try_claim_until(count).
TryClaimBegin(p) ==
    /\ pc[p] = "idle" /\ remaining[p] > 0
    /\ \E n \in Counts, withTimeout \in TimedWaits :
          /\ count' = [count EXCEPT ![p] = Smaller(n, remaining[p])]
          /\ timed' = [timed EXCEPT ![p] = withTimeout]
    /\ Goto(p, "tryScan")
    /\ UNCHANGED <<m_lastPublished, readerVars, m_nextClaimable, m_published,
                   sequence, size, published, remaining, seq>>

\* One load of m_claimBarrier.last_published().
TryClaimScan(p) ==
    /\ pc[p] = "tryScan"
    /\ \/ /\ ~IsLastLoad(p, ClaimBarriers)
          /\ Again(p, MinimumNow(p, ClaimBarriers))
          /\ UNCHANGED published
       \/ /\ IsLastLoad(p, ClaimBarriers)
          /\ Goto(p, "tryLoad")
          /\ published' = [published EXCEPT
                               ![p] = MinimumNow(p, ClaimBarriers) + BufferSize]
    /\ UNCHANGED <<m_lastPublished, timed, readerVars, m_nextClaimable,
                   m_published, sequence, size, count, remaining, seq>>

\* Mutant of TryClaimBody: diff is not tested.
TryClaimBodyUnguarded(p, next, limit) ==
    LET reduced == Smaller(count[p], difference(limit, next) + 1)
    IN  /\ Goto(p, "tryCas")
        /\ sequence' = [sequence EXCEPT ![p] = next]
        /\ published' = [published EXCEPT ![p] = limit]
        /\ size' = [size EXCEPT ![p] = reduced]
        /\ count' = [count EXCEPT ![p] = IF timed[p] THEN @ ELSE reduced]
        /\ UNCHANGED timed

\* The body of the compare-exchange loop, for the value next of the counter
\* and the last claimable sequence limit.  try_claim shrinks count itself,
\* try_claim_until a copy.
TryClaimBody(p, next, limit) ==
    LET diff    == difference(limit, next)
        reduced == Smaller(count[p], diff + 1)
    IN  /\ diff >= 0
        /\ Goto(p, "tryCas")
        /\ sequence' = [sequence EXCEPT ![p] = next]
        /\ published' = [published EXCEPT ![p] = limit]
        /\ size' = [size EXCEPT ![p] = reduced]
        /\ count' = [count EXCEPT ![p] = IF timed[p] THEN @ ELSE reduced]
        /\ UNCHANGED timed

\* The body when no slot is known to be free: try_claim returns false,
\* try_claim_until waits.
TryClaimNoRoom(p, next) ==
    /\ difference(published[p], next) < 0
    /\ \/ ~timed[p] /\ ClaimFails(p)
       \/ /\ timed[p]
          /\ Goto(p, "timedWait")
          /\ sequence' = [sequence EXCEPT ![p] = next]
          /\ size' = [size EXCEPT ![p] = 0]
          /\ UNCHANGED <<count, published, timed>>

\* m_nextClaimable.load and the first round of the loop.
TryClaimLoad(p) ==
    /\ pc[p] = "tryLoad"
    /\ \/ TryClaimBody(p, m_nextClaimable, published[p])
       \/ TryClaimNoRoom(p, m_nextClaimable)
    /\ UNCHANGED <<m_lastPublished, readerVars, m_nextClaimable, m_published,
                   remaining, seq>>

\* Mutant of TryClaimCas: a store where the compare-exchange is.
TryClaimStore(p) ==
    /\ pc[p] = "tryCas"
    /\ m_nextClaimable' = sequence[p] + size[p]
    /\ ClaimReturns(p, size[p])
    /\ UNCHANGED <<m_lastPublished, readerVars, m_published, sequence, size, seq>>

\* The compare-exchange.  When it fails the loop goes round with the value
\* it found; a spurious failure finds the expected value and so changes
\* nothing.
TryClaimCas(p) ==
    /\ pc[p] = "tryCas"
    /\ \/ /\ SameWord(m_nextClaimable, sequence[p])
          /\ m_nextClaimable' = m_nextClaimable + size[p]
          /\ ClaimReturns(p, size[p])
          /\ UNCHANGED <<sequence, size>>
       \/ /\ ~SameWord(m_nextClaimable, sequence[p])
          /\ \/ TryClaimBody(p, m_nextClaimable, published[p])
             \/ TryClaimNoRoom(p, m_nextClaimable)
          /\ UNCHANGED <<m_nextClaimable, remaining>>
    /\ UNCHANGED <<m_lastPublished, readerVars, m_published, seq>>

\* try_claim_until: one load of m_claimBarrier's timed wait for one slot.
TryClaimTimedWait(p) ==
    LET floor == sequence[p] - BufferSize
    IN  /\ pc[p] = "timedWait"
        /\ \/ /\ Rescan(p, ClaimBarriers, floor) \/ ScanOn(p, ClaimBarriers, floor)
              /\ UNCHANGED <<sequence, size, count, published>>
           \/ /\ ScanDone(p, ClaimBarriers, floor)
              /\ TryClaimBody(p, sequence[p],
                              ScanResult(p, ClaimBarriers, floor) + BufferSize)
              /\ UNCHANGED m_lastPublished
           \/ /\ TimesOut(p, ClaimBarriers, floor)
              /\ ClaimFails(p)
              /\ UNCHANGED m_lastPublished
        /\ UNCHANGED <<readerVars, m_nextClaimable, m_published, remaining, seq>>

-----------------------------------------------------------------------------
(***************************************************************************)
(* Writing and publishing a claimed range, one element per step.           *)
(***************************************************************************)
WriteItem(p) ==
    LET s == RangeAt(sequence[p], idx[p])
    IN  /\ pc[p] = "write"
        /\ buffer' = [buffer EXCEPT ![Slot(s)] = s]
        /\ IF idx[p] + 1 = size[p] THEN Goto(p, "publish") ELSE Again(p, 0)
        /\ UNCHANGED <<m_lastPublished, timed, nextToRead, target, available,
                       claimVars, seq>>

\* The store of set_published; its assertion is SetPublishedAssertion below.
set_published(s) == m_published' = [m_published EXCEPT ![Slot(s)] = s]

\* Mutant of Publish: only the first sequence of the range is set.
PublishFirst(p) ==
    /\ pc[p] = "publish"
    /\ set_published(sequence[p])
    /\ Goto(p, "idle")
    /\ sequence' = [sequence EXCEPT ![p] = 0]
    /\ size' = [size EXCEPT ![p] = 0]
    /\ UNCHANGED <<m_lastPublished, timed, readerVars, m_nextClaimable, count,
                   published, remaining, seq>>

\* publish(range), and publish(sequence) for a range of one: set_published of
\* the next element; signal_all_when_blocking does nothing when spinning.
Publish(p) ==
    LET s == RangeAt(sequence[p], idx[p])
    IN  /\ pc[p] = "publish"
        /\ set_published(s)
        /\ \/ /\ idx[p] + 1 < size[p]
              /\ Again(p, 0)
              /\ UNCHANGED <<sequence, size>>
           \/ /\ idx[p] + 1 = size[p]
              /\ Goto(p, "idle")
              /\ sequence' = [sequence EXCEPT ![p] = 0]
              /\ size' = [size EXCEPT ![p] = 0]
        /\ UNCHANGED <<m_lastPublished, timed, readerVars, m_nextClaimable, count,
                       published, remaining, seq>>

-----------------------------------------------------------------------------
(***************************************************************************)
(* wait_until_published(sequence, lastKnownPublished) of a reader whose    *)
(* last known sequence is nextToRead - 1.  The overload with a timeout has *)
(* the same steps: it calls the wait strategy without its timeout.         *)
(***************************************************************************)
ReaderBegins(c) ==
    /\ BeginWait(c, "check")
    /\ seq' = [seq EXCEPT ![c] = nextToRead[c]]
    /\ UNCHANGED claimVars

\* seq[c] is published: go on to the next one, or to last_published_after.
NextSeq(c) ==
    /\ seq' = [seq EXCEPT ![c] = @ + 1]
    /\ Goto(c, IF difference(seq[c] + 1, target[c]) <= 0 THEN "check" ELSE "after")
    /\ UNCHANGED <<m_lastPublished, timed, readerVars, claimVars>>

\* if (!is_published(seq))
CheckPublished(c) ==
    /\ pc[c] = "check"
    /\ \/ is_published(seq[c]) /\ NextSeq(c)
       \/ /\ ~is_published(seq[c])
          /\ Goto(c, "await")
          /\ UNCHANGED <<m_lastPublished, timed, readerVars, claimVars, seq>>

\* Mutant of AwaitPublished: it waits for the entry to pass seq.
AwaitPublishedAfter(c) ==
    /\ pc[c] = "await"
    /\ difference(m_published[Slot(seq[c])], seq[c]) > 0
    /\ NextSeq(c)

\* The wait strategy waits for the one slot to reach seq; a load that finds
\* it has not changes nothing.
AwaitPublished(c) ==
    /\ pc[c] = "await"
    /\ difference(m_published[Slot(seq[c])], seq[c]) >= 0
    /\ NextSeq(c)

\* Mutant of LastPublishedAfter: returns the first sequence not published.
LastPublishedPlusOne(c) ==
    /\ pc[c] = "after"
    /\ \/ /\ is_published(seq[c])
          /\ seq' = [seq EXCEPT ![c] = @ + 1]
          /\ UNCHANGED <<barrierVars, readerVars>>
       \/ /\ ~is_published(seq[c])
          /\ BatchAvailable(c, seq[c])
          /\ UNCHANGED seq
    /\ UNCHANGED claimVars

\* last_published_after(sequence): one load of its loop.
LastPublishedAfter(c) ==
    /\ pc[c] = "after"
    /\ \/ /\ is_published(seq[c])
          /\ seq' = [seq EXCEPT ![c] = @ + 1]
          /\ UNCHANGED <<barrierVars, readerVars>>
       \/ /\ ~is_published(seq[c])
          /\ BatchAvailable(c, seq[c] - 1)
          /\ UNCHANGED seq
    /\ UNCHANGED claimVars

ReaderAction(c) ==
    /\ WaitUpstream(c) \/ ReadItem(c) \/ PublishConsumed(c)
    /\ UNCHANGED <<claimVars, seq>>

-----------------------------------------------------------------------------
ProducerWorks(p) ==
    \/ ClaimWait(p) \/ TryClaimScan(p) \/ TryClaimLoad(p) \/ TryClaimCas(p)
    \/ TryClaimTimedWait(p) \/ WriteItem(p) \/ Publish(p)

ConsumerWorks(c) ==
    \/ CheckPublished(c) \/ AwaitPublished(c) \/ LastPublishedAfter(c)
    \/ ReaderAction(c)

Terminated ==
    /\ \A t \in Threads : pc[t] = "idle"
    /\ \A p \in Producers : remaining[p] = 0
    /\ \A c \in Consumers : nextToRead[c] = TotalItems
    /\ UNCHANGED vars

Next ==
    \/ \E p \in Producers : ClaimFetchAdd(p) \/ TryClaimBegin(p) \/ ProducerWorks(p)
    \/ \E c \in Consumers : ReaderBegins(c) \/ ConsumerWorks(c)
    \/ Terminated

Spec == Init /\ [][Next]_vars

\* A thread that is inside a call or a loop keeps running.
ThreadFairness ==
    /\ \A p \in Producers : WF_vars(ProducerWorks(p))
    /\ \A c \in Consumers : WF_vars(ConsumerWorks(c))

\* The drivers call again while they have items to claim or to read.
DriverFairness ==
    /\ \A p \in Producers : WF_vars(ClaimFetchAdd(p) \/ TryClaimBegin(p))
    /\ \A c \in Consumers : WF_vars(ReaderBegins(c))

FairSpec == Spec /\ ThreadFairness
LiveSpec == FairSpec /\ DriverFairness

-----------------------------------------------------------------------------
(***************************************************************************)
(* Properties                                                              *)
(***************************************************************************)

\* Every variable has its type: thread locals are words, lengths and flags; no
\* scan reads past the end of its group's array, no claim has a negative size.
TypeOK ==
    /\ m_lastPublished \in [Barriers -> Int]
    /\ pc \in [Threads -> PCs]
    /\ idx \in [Threads -> Nat]
    /\ acc \in [Threads -> Int]
    /\ timed \in [Threads -> BOOLEAN]
    /\ buffer \in [Slots -> Int]
    /\ nextToRead \in [Consumers -> Int]
    /\ target \in [Consumers -> Int]
    /\ available \in [Consumers -> Int]
    /\ m_nextClaimable \in Int
    /\ m_published \in [Slots -> Int]
    /\ sequence \in [Producers -> Int]
    /\ size \in [Producers -> Nat]
    /\ count \in [Producers -> Nat]
    /\ published \in [Producers -> Int]
    /\ remaining \in [Producers -> Int]
    /\ seq \in [Consumers -> Int]
    /\ ScanInBounds

\* The sequences a claim has returned to p and p has not yet published.
Held(p) ==
    CASE pc[p] = "write"   -> sequence[p] .. RangeLast(sequence[p], size[p])
      [] pc[p] = "publish" -> sequence[p] + idx[p] .. RangeLast(sequence[p], size[p])
      [] OTHER             -> {}

\* Those and the ones p has reserved with fetch_add but must still wait for.
Reserved(p) ==
    IF pc[p] = "claimWait" THEN sequence[p] .. RangeLast(sequence[p], size[p])
                           ELSE Held(p)

\* No slot is written by a producer while another producer holds it, or
\* while a reader has yet to read it: the claim counter and the claim barrier
\* are the only things that keep threads off each other's elements.
SlotExclusion ==
    \A p \in Producers :
        /\ \A q \in Producers \ {p} : SlotsOf(Held(p)) \cap SlotsOf(Held(q)) = {}
        /\ \A c \in Consumers : SlotsOf(Held(p)) \cap SlotsOf(Unread(c)) = {}

\* set_published's assertion: a slot goes from one lap to the next, so the
\* entry it overwrites is the sequence one lap before.
SetPublishedAssertion ==
    \A p \in Producers : pc[p] = "publish" =>
        LET s == RangeAt(sequence[p], idx[p])
        IN  SameWord(m_published[Slot(s)], s - BufferSize)

\* add_claim_barrier's promise, for every consumer and not only the ones that
\* were registered: claimed slots are never more than the buffer size ahead.
ClaimsWithinBuffer ==
    \A p \in Producers, c \in Consumers : \A s \in Held(p) :
        s <= m_lastPublished[c] + BufferSize

\* What p has learnt from a scan of the claim barrier is released by the readers.
LimitIsSafe(p) ==
    /\ pc[p] = "tryScan" => \A i \in 1 .. idx[p] :
          acc[p] <= m_lastPublished[ClaimBarriers[i]]
    /\ pc[p] \in {"tryLoad", "tryCas"} => \A c \in Consumers :
          published[p] <= m_lastPublished[c] + BufferSize

\* What try_claim has learnt from a scan of the claim barrier stays safe while
\* the scan goes on and while the compare-exchange is retried, however far the
\* readers move in between: it never exceeds what a reader has released.
KnownLimitIsSafe == \A p \in Producers : LimitIsSafe(p)

\* The documentation of minimum_sequence: the sequence it returns satisfies
\* difference(s, sequences[i]) >= 0, stated of the sequence read last.
MinimumAsDocumented ==
    \A p \in Producers :
        (pc[p] = "tryScan" /\ IsLastLoad(p, ClaimBarriers)) =>
            difference(MinimumNow(p, ClaimBarriers), Loaded(p, ClaimBarriers)) >= 0

\* A claimed sequence is published or reserved by exactly one producer: none
\* is lost (readers would wait for it for ever) and none is handed out twice.
EveryClaimAccounted ==
    \A s \in 0 .. m_nextClaimable - 1 :
        LET owners == {p \in Producers : s \in Reserved(p)}
        IN  IF m_published[Slot(s)] >= s THEN owners = {}
                                         ELSE \E p \in Producers : owners = {p}

\* The words a later difference or compare-exchange compares with the
\* counter: the barriers, and what a preempted producer has already loaded.
ActiveWords ==
    {m_lastPublished[c] : c \in Consumers}
    \cup {acc[p] : p \in {q \in Producers : pc[q] = "tryScan" /\ idx[q] > 0}}
    \cup {published[p] : p \in {q \in Producers : pc[q] \in {"tryLoad", "tryCas"}}}
    \cup {sequence[p] : p \in {q \in Producers :
                                 pc[q] \in {"claimWait", "tryCas", "timedWait"}}}

\* No two words in use are so far apart that difference takes one for the
\* other side of the wrap: the assumption sequence.hpp states, which bounds
\* them by a quarter of the modulus.
ActiveWindow ==
    \A x \in ActiveWords : m_nextClaimable - x < HalfModulus - BufferSize

\* A reader's progress is published in order: its barrier never goes back,
\* and never passes what it has read.
ReadersPublishInOrder ==
    [][\A c \in Consumers :
          /\ m_lastPublished'[c] >= m_lastPublished[c]
          /\ m_lastPublished'[c] < nextToRead'[c]]_vars

\* Every item every producer has to publish is in the end consumed by every
\* reader, whichever claims, timeouts and failed compare-exchanges happen.
AllConsumed ==
    <>[](\A c \in Consumers : m_lastPublished[c] = TotalItems - 1)

\* A reader's wait with a timeout ends.
TimedWaitReturns ==
    \A c \in Consumers :
        (timed[c] /\ pc[c] \in {"check", "await"})
            ~> pc[c] \notin {"check", "await"}

(***************************************************************************)
(* The claim strategy as a broadcast ring.                                 *)
(***************************************************************************)
Ring == INSTANCE BroadcastRing WITH
    held <- UNION {Held(p) : p \in Producers},
    published <- {s \in 0 .. m_nextClaimable - 1 : m_published[Slot(s)] >= s},
    cells <- buffer,
    next <- nextToRead,
    released <- m_lastPublished

\* The counter, the per-slot entries and the barriers, each accessed on its own
\* and in any interleaving, amount to the ring: a slot is granted only when it is
\* free for good, and an item is read only when it is published and intact.
ImplementsRing == Ring!Spec

\* With fair threads they amount to the fair ring: nothing that was granted stays
\* unpublished, and nothing that was published stays unread, for ever.
ImplementsFairRing == Ring!FairSpec

=============================================================================
