------------------------------ MODULE Readers ------------------------------
(***************************************************************************)
(* The ring buffer (ring_buffer.hpp) and the reader threads of a disruptor,*)
(* as the README and the benchmarks run them: wait until the next sequence *)
(* is available, read the whole batch that is, publish its last sequence in*)
(* the reader's own barrier.  A reader with a non-empty Upstream group     *)
(* waits for other barriers (pipeline, diamond); one whose group is empty  *)
(* waits for the claim strategy, which says how (the EXTENDing modules).   *)
(***************************************************************************)
EXTENDS BarrierGroups, FiniteSets

CONSTANTS
    Producers, Consumers,   \* the threads
    BufferSize,             \* slots of the ring buffer, a power of two
    ItemsPerProducer,       \* items each producer publishes (iterationCount)
    Counts,                 \* the counts a producer passes to claim
    LookAheads,             \* sequence - lastKnownPublished of a reader's wait
    TimedWaits,             \* may a call be one with a timeout: subset of BOOLEAN
    ClaimBarriers,          \* the group passed to add_claim_barrier
    Upstream,               \* [Consumers -> Seq(Barriers)]
    Ancestors               \* [Consumers -> SUBSET Consumers], all it waits on

Elems(s) == {s[i] : i \in DOMAIN s}

ASSUME ThreadsAssumption ==
    /\ Threads = Producers \cup Consumers
    /\ Producers \cap Consumers = {}
    /\ IsFiniteSet(Producers)

\* The constructors' assertion: index = sequence % BufferSize needs
\* BufferSize to divide the modulus, which a power of two does.
ASSUME BufferSizeAssumption ==
    /\ BufferSize \in Nat \ {0}
    /\ SeqModulus % BufferSize = 0

ASSUME WorkloadAssumption ==
    /\ ItemsPerProducer \in Nat
    /\ Counts \subseteq Nat
    /\ LookAheads \subseteq 1 .. BufferSize
    /\ TimedWaits \subseteq BOOLEAN

\* Every consumer gates the producers, itself or through a consumer that
\* waits for it; otherwise its slots could be claimed while it reads them.
ASSUME TopologyAssumption ==
    /\ Consumers \subseteq Barriers
    /\ ClaimBarriers \in Seq(Consumers) /\ ClaimBarriers # <<>>
    /\ Upstream \in [Consumers -> Seq(Barriers)]
    /\ Ancestors \in [Consumers -> SUBSET Consumers]
    /\ \A c \in Consumers : \A d \in Ancestors[c] :
          \E e \in Elems(Upstream[c]) \cap Consumers :
              d = e \/ d \in Ancestors[e]
    /\ \A c \in Consumers : \E g \in Elems(ClaimBarriers) :
          c = g \/ c \in Ancestors[g]

TotalItems == Cardinality(Producers) * ItemsPerProducer

VARIABLES
    buffer,         \* [Slots -> item]; the item of sequence s is s itself
    nextToRead,     \* [Consumers -> Int]
    target,         \* [Consumers -> Int], the sequence it waits for
    available       \* [Consumers -> Int], last sequence of its batch

readerVars == <<buffer, nextToRead, target, available>>

Slots == 0 .. BufferSize - 1

\* operator[]: seq & m_mask.
Slot(seq) == seq % BufferSize

NoItem == -1        \* a default-constructed element

ReadersInit ==
    /\ buffer = [i \in Slots |-> NoItem]
    /\ nextToRead = [c \in Consumers |-> 0]
    /\ target = [c \in Consumers |-> 0]
    /\ available = [c \in Consumers |-> -1]

\* c calls wait_until_published for a sequence k after the last one it knows
\* (k = 1 in all of the repository's readers), on its upstream barriers or,
\* at label, on the claim strategy.
BeginWait(c, label) ==
    /\ pc[c] = "idle"
    /\ \E k \in LookAheads, withTimeout \in TimedWaits :
          /\ nextToRead[c] + k <= TotalItems
          /\ target' = [target EXCEPT ![c] = nextToRead[c] + k - 1]
          /\ timed' = [timed EXCEPT ![c] = withTimeout]
    /\ Goto(c, IF Upstream[c] = <<>> THEN label ELSE "upstream")
    /\ UNCHANGED <<m_lastPublished, buffer, nextToRead, available>>

\* The parameters of the call c was in are gone.
EndCall(c) ==
    /\ target' = [target EXCEPT ![c] = 0]
    /\ timed' = [timed EXCEPT ![c] = FALSE]

\* The wait returns seq and the batch up to seq is read.
BatchAvailable(c, seq) ==
    /\ available' = [available EXCEPT ![c] = seq]
    /\ Goto(c, "read")
    /\ EndCall(c)
    /\ UNCHANGED <<m_lastPublished, buffer, nextToRead>>

\* The wait returns a sequence that precedes target: there is nothing to read.
WaitTimedOut(c) ==
    /\ Goto(c, "idle")
    /\ EndCall(c)
    /\ UNCHANGED <<m_lastPublished, buffer, nextToRead, available>>

\* Mutant of WaitUpstream: the timeout is not passed on.
WaitUpstreamForever(c) ==
    /\ pc[c] = "upstream"
    /\ \/ /\ Rescan(c, Upstream[c], target[c]) \/ ScanOn(c, Upstream[c], target[c])
          /\ UNCHANGED readerVars
       \/ /\ ScanDone(c, Upstream[c], target[c])
          /\ BatchAvailable(c, ScanResult(c, Upstream[c], target[c]))

\* One load of wait_until_published on the upstream barrier or group.
WaitUpstream(c) ==
    /\ pc[c] = "upstream"
    /\ \/ /\ Rescan(c, Upstream[c], target[c]) \/ ScanOn(c, Upstream[c], target[c])
          /\ UNCHANGED readerVars
       \/ /\ ScanDone(c, Upstream[c], target[c])
          /\ BatchAvailable(c, ScanResult(c, Upstream[c], target[c]))
       \/ /\ TimesOut(c, Upstream[c], target[c])
          /\ WaitTimedOut(c)

\* Reads buffer[nextToRead]; the batch ends when nextToRead++ was available.
ReadItem(c) ==
    /\ pc[c] = "read"
    /\ nextToRead' = [nextToRead EXCEPT ![c] = @ + 1]
    /\ Goto(c, IF SameWord(nextToRead[c], available[c]) THEN "consumed" ELSE "read")
    /\ UNCHANGED <<m_lastPublished, timed, buffer, target, available>>

\* Mutant of PublishConsumed: publishes the next sequence, which is not read.
PublishNext(c) ==
    /\ pc[c] = "consumed"
    /\ PublishBarrier(c, nextToRead[c])
    /\ Goto(c, "idle")
    /\ UNCHANGED <<timed, readerVars>>

\* Publishes the last sequence of the batch in the reader's barrier.
PublishConsumed(c) ==
    /\ pc[c] = "consumed"
    /\ PublishBarrier(c, available[c])
    /\ Goto(c, "idle")
    /\ UNCHANGED <<timed, readerVars>>

-----------------------------------------------------------------------------
(***************************************************************************)
(* Where threads are, and what a scan of a group of barriers has shown.    *)
(***************************************************************************)

\* The places of readers and of producers of either claim strategy.
PCs == {"idle", "claimWait", "tryScan", "tryLoad", "tryCas", "timedWait",
        "write", "publish", "upstream", "check", "await", "after", "read",
        "consumed"}

\* The barriers a thread at label scans.
ScannedGroup(t, label) ==
    IF label = "upstream" THEN Upstream[t] ELSE ClaimBarriers

\* Where a thread scans a group of barriers.
Scanning == {"claimWait", "tryScan", "timedWait", "upstream"}

\* A thread that scans has not run past the end of its group's array.
ScanInBounds ==
    \A t \in Threads : pc[t] \in Scanning => idx[t] < Len(ScannedGroup(t, pc[t]))

\* The barriers t has loaded so far had reached floor, and floor + acc[t].
ScannedSoFar(t, group, floor) ==
    \A i \in 1 .. idx[t] :
        acc[t] >= 0 /\ floor + acc[t] <= m_lastPublished[group[i]]

\* The sequences c has been told are available and has not yet read.
Unread(c) == IF pc[c] = "read" THEN nextToRead[c] .. available[c] ELSE {}

SlotsOf(S) == {Slot(s) : s \in S}

\* Every sequence wait_until_published has reported available holds the item
\* written for it, not an older lap's and not a gap another producer has
\* claimed but not published.
AvailableIsWritten ==
    \A c \in Consumers : \A s \in Unread(c) : buffer[Slot(s)] = s

=============================================================================
