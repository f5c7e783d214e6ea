-------------------------- MODULE DataRaceFreedom --------------------------
(***************************************************************************)
(* No access to an element of the ring buffer races with another, for all  *)
(* constants and while ActiveWindow holds: the release stores and acquire  *)
(* loads of the barriers and of the entries of m_published order every two *)
(* accesses that conflict.  By induction on OrderInv: a thread that takes a*)
(* step learns what the value it loads carries; what the other threads know*)
(* stays all there is to know, because what they know about is settled.    *)
(***************************************************************************)
EXTENDS PublicationInvariant, MultiThreadedRefinement

\* What a step of t does to the order of accesses.
Ordered(t) ==
    /\ before' = [before EXCEPT ![t] = @ \cup Acquired(t) \cup Accessed(t)]
    /\ Released(t)

\* A step of t, of either kind of thread.
Step(t) ==
    \/ t \in Producers /\ (ClaimFetchAdd(t) \/ TryClaimBegin(t) \/ ProducerWorks(t))
    \/ t \in Consumers /\ (ReaderBegins(t) \/ ConsumerWorks(t))

\* No sequence up to x will be written again, or read again by one of readers.
Settled(readers, x) ==
    /\ x \in Int /\ readers \subseteq Consumers
    /\ PublishedUpTo(x)
    /\ \A d \in readers : x <= m_lastPublished[d]

LEMMA AccessesTypes ==
    ASSUME AccessesInv
    PROVE  /\ Accesses \subseteq AccessType
           /\ \A t \in Threads : before[t] \subseteq Accesses
BY DEF AccessesInv, Accesses

\* Knowing more covers what is known of fewer readers and sequences.
LEMMA CoversLess ==
    ASSUME NEW S, NEW T, S \subseteq T, NEW A, A \subseteq AccessType,
           NEW r, NEW q, q \subseteq r, NEW x \in Int, NEW y \in Int, y <= x,
           Covers(S, A, r, x)
    PROVE  Covers(T, A, q, y)
<1> SUFFICES ASSUME NEW a \in A, a.isWrite \/ a.by \in q, a.seq <= y
             PROVE  a \in T
  BY DEF Covers
<1>1. a.seq \in Int
  BY DEF AccessType
<1>2. a.seq <= x
  BY <1>1
<1> QED
  BY <1>2 DEF Covers

-----------------------------------------------------------------------------
(***************************************************************************)
(* Groups of barriers.                                                     *)
(***************************************************************************)

\* Through the gates of the claim barrier a producer knows of every reader.
LEMMA AllGates ==
    ASSUME NEW S, NEW A, NEW x,
           \A i \in 1 .. Len(ClaimBarriers) : Covers(S, A, Chain(ClaimBarriers[i]), x)
    PROVE  Covers(S, A, Consumers, x)
<1>1. /\ DOMAIN ClaimBarriers = 1 .. Len(ClaimBarriers) /\ 1 \in 1 .. Len(ClaimBarriers)
  BY GroupTypes
<1> SUFFICES ASSUME NEW a \in A, a.isWrite \/ a.by \in Consumers, a.seq <= x
             PROVE  a \in S
  BY DEF Covers
<1>2. CASE a.isWrite
  BY <1>1, <1>2 DEF Covers
<1>3. CASE a.by \in Consumers
  <2>1. PICK g \in Elems(ClaimBarriers) : a.by = g \/ a.by \in Ancestors[g]
    BY <1>3, TopologyAssumption
  <2>2. PICK i \in 1 .. Len(ClaimBarriers) : g = ClaimBarriers[i]
    BY <1>1, <2>1 DEF Elems
  <2> QED
    BY <2>1, <2>2 DEF Covers, Chain
<1> QED
  BY <1>2, <1>3

\* Through the barriers of its upstream group a reader knows of all its ancestors.
LEMMA AllUpstream ==
    ASSUME NEW c \in Consumers, Upstream[c] # <<>>, NEW S, NEW A, NEW x,
           \A i \in 1 .. Len(Upstream[c]) : Covers(S, A, Chain(Upstream[c][i]), x)
    PROVE  Covers(S, A, Ancestors[c], x)
<1>1. DOMAIN Upstream[c] = 1 .. Len(Upstream[c]) /\ 1 \in 1 .. Len(Upstream[c])
  BY GroupTypes
<1> SUFFICES ASSUME NEW a \in A, a.isWrite \/ a.by \in Ancestors[c], a.seq <= x
             PROVE  a \in S
  BY DEF Covers
<1>2. CASE a.isWrite
  BY <1>1, <1>2 DEF Covers
<1>3. CASE a.by \in Ancestors[c]
  <2>1. PICK e \in Elems(Upstream[c]) : a.by = e \/ a.by \in Ancestors[e]
    BY <1>3, TopologyAssumption
  <2>2. PICK i \in 1 .. Len(Upstream[c]) : e = Upstream[c][i]
    BY <1>1, <2>1 DEF Elems
  <2> QED
    BY <2>1, <2>2 DEF Covers, Chain
<1> QED
  BY <1>2, <1>3

\* One acquire load of a scan: with it t knows, of every barrier loaded so far, what
\* is below the new minimum y, as it did below the old one x.
LEMMA ScanLearns ==
    ASSUME TypeOK, AccessesInv, CarriersInv, NEW t \in Threads,
           NEW group, \A i \in 1 .. idx[t] + 1 : group[i] \in Consumers,
           Acquired(t) = barrierCarries[group[idx[t] + 1]],
           NEW x \in Int, NEW y \in Int, idx[t] > 0 => y <= x,
           y <= m_lastPublished[group[idx[t] + 1]],
           \A i \in 1 .. idx[t] : Knows(before[t], Chain(group[i]), x)
    PROVE  \A i \in 1 .. idx[t] + 1 :
              Covers(before[t] \cup Acquired(t), Accesses, Chain(group[i]), y)
<1> DEFINE S == before[t] \cup Acquired(t)
<1>1. idx[t] \in Nat /\ idx[t] + 1 \in 1 .. idx[t] + 1
  BY DEF TypeOK
<1>2. Accesses \subseteq AccessType /\ before[t] \subseteq S /\ Acquired(t) \subseteq S
  BY AccessesTypes
<1> SUFFICES ASSUME NEW i \in 1 .. idx[t] + 1
             PROVE  Covers(S, Accesses, Chain(group[i]), y)
  OBVIOUS
<1> HIDE DEF S
<1>3. CASE i = idx[t] + 1
  <2> DEFINE c == group[i]
  <2>1. c \in Consumers /\ m_lastPublished[c] \in Int /\ y <= m_lastPublished[c]
    BY <1>1, <1>3, Constants DEF TypeOK
  <2>2. Covers(Acquired(t), Accesses, Chain(c), m_lastPublished[c])
    BY <1>3, <2>1 DEF CarriersInv, Knows
  <2> HIDE DEF c
  <2>3. Covers(S, Accesses, Chain(c), y)
    BY <1>2, <2>1, <2>2, CoversLess
  <2> QED
    BY <2>3 DEF c
<1>4. CASE i # idx[t] + 1
  <2>1. i \in 1 .. idx[t] /\ y <= x
    BY <1>1, <1>4
  <2>2. Covers(before[t], Accesses, Chain(group[i]), x)
    BY <2>1 DEF Knows
  <2> QED
    BY <1>2, <2>1, <2>2, CoversLess
<1> QED
  BY <1>3, <1>4

-----------------------------------------------------------------------------
(***************************************************************************)
(* What a step adds to the accesses.                                       *)
(***************************************************************************)

\* A producer writes a sequence it holds and has not published; a reader reads one
\* that is published and that it has not released.
LEMMA NewAccess ==
    ASSUME TypeOK, SafetyInv, AccessesInv, NEW t \in Threads, NEW a \in Accessed(t)
    PROVE  /\ a \in AccessType /\ a.by = t
           /\ a.isWrite => t \in Producers /\ a.seq \in Held(t)
           /\ ~a.isWrite => /\ t \in Consumers /\ Published(a.seq)
                            /\ a.seq > m_lastPublished[t]
                            /\ pc[t] = "read" /\ a.seq = nextToRead[t]
<1>0. t \in Producers \/ t \in Consumers
  BY ThreadsAssumption
<1>1. CASE pc[t] = "write"
  <2>1. /\ t \in Producers /\ sequence[t] \in Int /\ size[t] \in Nat /\ idx[t] \in Nat
        /\ idx[t] < size[t]
    BY <1>0, <1>1 DEF AccessesInv, SafetyInv, LimitInv, ProducerKnows, TypeOK
  <2>2. a = Access(t, TRUE, RangeAt(sequence[t], idx[t]))
    BY <1>1 DEF Accessed
  <2>3. a.by = t /\ a.isWrite = TRUE /\ a.seq = sequence[t] + idx[t]
    BY <2>2 DEF Access, RangeAt
  <2>4. a \in AccessType
    BY <2>1, <2>2 DEF Access, AccessType, RangeAt
  <2>5. a.seq \in Held(t)
    BY <1>1, <2>1, <2>3 DEF Held, RangeLast, RangeEnd
  <2> QED
    BY <2>1, <2>3, <2>4, <2>5
<1>2. CASE pc[t] = "read"
  <2>1. /\ t \in Consumers /\ nextToRead[t] \in Int /\ available[t] \in Int
        /\ m_lastPublished[t] \in Int
    BY <1>0, <1>2, Constants DEF AccessesInv, TypeOK
  <2>2. a = Access(t, FALSE, nextToRead[t])
    BY <1>2 DEF Accessed
  <2>3. a.by = t /\ a.isWrite = FALSE /\ a.seq = nextToRead[t]
    BY <2>2 DEF Access
  <2>4. a \in AccessType
    BY <2>1, <2>2 DEF Access, AccessType
  <2>5. /\ m_lastPublished[t] < nextToRead[t] /\ nextToRead[t] <= available[t]
        /\ PublishedUpTo(available[t]) /\ m_lastPublished[t] >= -1
    BY <1>2, <2>1 DEF SafetyInv, ReaderInv, ReaderKnows, BarriersInv
  <2>6. nextToRead[t] \in -BufferSize .. available[t]
    BY <2>1, <2>5, Constants
  <2>7. Published(nextToRead[t])
    BY <2>5, <2>6 DEF PublishedUpTo
  <2> QED
    BY <1>2, <2>1, <2>3, <2>4, <2>5, <2>7
<1>3. CASE pc[t] \notin {"write", "read"}
  BY <1>3 DEF Accessed
<1> QED
  BY <1>1, <1>2, <1>3

\* The write is the next one of the producer's range.
LEMMA NewWrite ==
    ASSUME TypeOK, SafetyInv, AccessesInv, NEW t \in Producers, NEW a \in Accessed(t),
           a.isWrite
    PROVE  pc[t] = "write" /\ idx[t] < size[t] /\ a.seq = sequence[t] + idx[t]
<1>1. pc[t] = "write"
  BY DEF AccessesInv, Accessed
<1>2. a.seq = sequence[t] + idx[t]
  BY <1>1 DEF Accessed, Access, RangeAt
<1> QED
  BY <1>1, <1>2 DEF SafetyInv, LimitInv, ProducerKnows

\* What is settled is not accessed again.
LEMMA SettledIsPast ==
    ASSUME TypeOK, SafetyInv, AccessesInv, NEW t \in Threads, NEW a \in Accessed(t),
           NEW r, NEW x, Settled(r, x), a.isWrite \/ a.by \in r
    PROVE  ~(a.seq <= x)
<1>1. a.seq \in Int /\ a.by = t /\ x \in Int
  BY NewAccess DEF AccessType, Settled
<1>2. CASE a.isWrite
  <2>1. t \in Producers /\ a.seq \in Held(t)
    BY <1>2, NewAccess
  <2>2. 0 <= a.seq /\ ~Published(a.seq)
    BY <2>1, HeldType DEF SafetyInv, ClaimInv
  <2>3. a.seq <= x => a.seq \in -BufferSize .. x
    BY <1>1, <2>2, Constants
  <2> QED
    BY <2>2, <2>3 DEF Settled, PublishedUpTo
<1>3. CASE ~a.isWrite
  <2>1. t \in Consumers /\ a.seq > m_lastPublished[t] /\ t \in r
    BY <1>1, <1>3, NewAccess
  <2>2. x <= m_lastPublished[t] /\ m_lastPublished[t] \in Int
    BY <2>1, Constants DEF Settled, TypeOK
  <2> QED
    BY <1>1, <2>1, <2>2
<1> QED
  BY <1>2, <1>3

\* Below a reader's barrier everything is settled, for it and for its ancestors.
LEMMA SettledBelow ==
    ASSUME TypeOK, SafetyInv, NEW c \in Consumers, NEW x \in Int,
           x <= m_lastPublished[c]
    PROVE  Settled(Chain(c), x) /\ Settled(Ancestors[c], x)
<1>1. Chain(c) \subseteq Consumers /\ Ancestors[c] \subseteq Chain(c)
  BY TopologyAssumption DEF Chain
<1>2. m_lastPublished[c] \in Int /\ PublishedUpTo(m_lastPublished[c])
  BY Constants DEF TypeOK, SafetyInv, BarriersInv
<1>3. PublishedUpTo(x)
  BY <1>2, Constants DEF PublishedUpTo
<1>4. ASSUME NEW d \in Chain(c) PROVE x <= m_lastPublished[d]
  <2>1. m_lastPublished[d] \in Int /\ m_lastPublished[c] <= m_lastPublished[d]
    BY <1>1, <1>2, Constants DEF Chain, TypeOK, SafetyInv, BarriersInv
  <2> QED
    BY <1>2, <2>1
<1> QED
  BY <1>1, <1>3, <1>4 DEF Settled

\* Below all of them, for everyone.
LEMMA SettledForAll ==
    ASSUME TypeOK, SafetyInv, NEW x \in Int, \A c \in Consumers : x <= m_lastPublished[c]
    PROVE  Settled(Consumers, x)
<1>1. PICK c \in Consumers : TRUE
  BY SomeReader
<1>2. PublishedUpTo(x)
  BY <1>1, SettledBelow DEF Settled
<1> QED
  BY <1>2 DEF Settled

\* Where the thread that takes a step is, and what it loads there.
LEMMA StepPlaces ==
    ASSUME NEW t \in Threads, Step(t)
    PROVE  /\ t \in Producers => pc[t] \in {"idle", "claimWait", "tryScan", "tryLoad",
                                            "tryCas", "timedWait", "write", "publish"}
           /\ t \in Consumers => pc[t] \in {"idle", "upstream", "check", "await", "after",
                                            "read", "consumed"}
<1>1. ASSUME t \in Producers
      PROVE  pc[t] \in {"idle", "claimWait", "tryScan", "tryLoad", "tryCas",
                        "timedWait", "write", "publish"}
  BY <1>1, Constants
     DEF Step, ProducerWorks, ClaimFetchAdd, TryClaimBegin, ClaimWait, TryClaimScan,
         TryClaimLoad, TryClaimCas, TryClaimTimedWait, WriteItem, Publish
<1>2. ASSUME t \in Consumers
      PROVE  pc[t] \in {"idle", "upstream", "check", "await", "after", "read",
                        "consumed"}
  BY <1>2, Constants
     DEF Step, ConsumerWorks, ReaderBegins, BeginWait, CheckPublished, AwaitPublished,
         LastPublishedAfter, ReaderAction, WaitUpstream, ReadItem, PublishConsumed
<1> QED
  BY <1>1, <1>2

\* What a thread acquires are accesses that were made.
LEMMA AcquiredWereMade ==
    ASSUME TypeOK, AccessesInv, NEW t \in Threads, Step(t)
    PROVE  Acquired(t) \subseteq Accesses
<1>0. t \in Producers \/ t \in Consumers
  BY ThreadsAssumption
<1>i. idx[t] + 1 \in 1 .. idx[t] + 1
  BY DEF TypeOK
<1>1. CASE t \in Producers /\ pc[t] \in {"claimWait", "tryScan", "timedWait"}
  <2>1. /\ pc[t] \in Scanning /\ ClaimBarriers = ScannedGroup(t, pc[t])
        /\ ClaimBarriers \in Seq(Barriers)
    BY <1>1, GroupTypes DEF Scanning, ScannedGroup
  <2>2. ClaimBarriers[idx[t] + 1] \in Barriers
    BY <1>i, <2>1, ScannedBarrier, TypesOfScans
  <2>3. Acquired(t) = barrierCarries[ClaimBarriers[idx[t] + 1]]
    BY <1>1 DEF Acquired
  <2> QED
    BY <2>2, <2>3 DEF AccessesInv
<1>2. CASE t \in Consumers /\ pc[t] = "upstream"
  <2>1. /\ pc[t] \in Scanning /\ Upstream[t] = ScannedGroup(t, pc[t])
        /\ Upstream[t] \in Seq(Barriers)
    BY <1>2, GroupTypes DEF Scanning, ScannedGroup
  <2>2. Upstream[t][idx[t] + 1] \in Barriers
    BY <1>i, <2>1, ScannedBarrier, TypesOfScans
  <2>3. Acquired(t) = barrierCarries[Upstream[t][idx[t] + 1]]
    BY <1>2 DEF Acquired
  <2> QED
    BY <2>2, <2>3 DEF AccessesInv
<1>3. CASE t \in Consumers /\ pc[t] \in {"check", "await", "after"}
  <2>1. Slot(seq[t]) \in Slots
    BY <1>3, SlotType DEF TypeOK
  <2>2. Acquired(t) = entryCarries[Slot(seq[t])]
    BY <1>3 DEF Acquired
  <2> QED
    BY <2>1, <2>2 DEF AccessesInv
<1>4. CASE pc[t] \in {"idle", "tryLoad", "tryCas", "write", "publish", "read", "consumed"}
  BY <1>4 DEF Acquired
<1> QED
  BY <1>0, <1>1, <1>2, <1>3, <1>4, StepPlaces

\* Threads forget nothing, and the new accesses are those of t.
LEMMA AccessesGrow ==
    ASSUME TypeOK, AccessesInv, NEW t \in Threads, Step(t), Ordered(t)
    PROVE  /\ Accesses' = Accesses \cup Accessed(t)
           /\ before'[t] = before[t] \cup Acquired(t) \cup Accessed(t)
           /\ \A u \in Threads \ {t} : before'[u] = before[u]
           /\ \A u \in Threads : before[u] \subseteq before'[u]
           /\ before' \in [Threads -> SUBSET Accesses']
<1>1. before \in [Threads -> SUBSET AccessType]
  BY DEF AccessesInv
<1>2. /\ before'[t] = before[t] \cup Acquired(t) \cup Accessed(t)
      /\ \A u \in Threads \ {t} : before'[u] = before[u]
      /\ DOMAIN before' = Threads
      /\ before' = [u \in Threads |-> before'[u]]
  BY <1>1 DEF Ordered
<1>3. \A u \in Threads : before[u] \subseteq before'[u]
  BY <1>2
<1>4. Accesses' = Accesses \cup Accessed(t)
  <2>1. \A a : a \in Accesses <=> \E u \in Threads : a \in before[u]
    BY DEF Accesses
  <2>2. \A a : a \in Accesses' <=> \E u \in Threads : a \in before'[u]
    BY DEF Accesses
  <2>3. Acquired(t) \subseteq Accesses
    BY AcquiredWereMade
  <2>4. ASSUME NEW a \in Accesses' PROVE a \in Accesses \cup Accessed(t)
    BY <1>2, <2>1, <2>2, <2>3
  <2>5. ASSUME NEW a \in Accesses \cup Accessed(t) PROVE a \in Accesses'
    BY <1>2, <1>3, <2>1, <2>2
  <2> QED
    BY <2>4, <2>5
<1>5. before' \in [Threads -> SUBSET Accesses']
  <2>1. \A u \in Threads : before'[u] \subseteq Accesses'
    BY DEF Accesses
  <2> QED
    BY <1>2, <2>1
<1> QED
  BY <1>2, <1>3, <1>4, <1>5

\* The thread that takes the step knows its own new access.
LEMMA MoverKnows ==
    ASSUME TypeOK, AccessesInv, NEW t \in Threads, Step(t), Ordered(t), NEW r, NEW x,
           Covers(before[t] \cup Acquired(t), Accesses, r, x)
    PROVE  Covers(before'[t], Accesses', r, x)
BY AccessesGrow DEF Covers

\* To the others it is new only where nothing is settled.
LEMMA OthersKnow ==
    ASSUME TypeOK, SafetyInv, AccessesInv, NEW t \in Threads, Step(t), Ordered(t),
           NEW r, NEW x, Settled(r, x), NEW S, NEW T, S \subseteq T,
           Covers(S, Accesses, r, x)
    PROVE  Covers(T, Accesses', r, x)
<1> SUFFICES ASSUME NEW a \in Accesses', a.isWrite \/ a.by \in r, a.seq <= x
             PROVE  a \in T
  BY DEF Covers
<1>1. a \notin Accessed(t)
  BY SettledIsPast
<1> QED
  BY <1>1, AccessesGrow DEF Covers

-----------------------------------------------------------------------------
(***************************************************************************)
(* Threads that do not move know as much as before.                        *)
(***************************************************************************)

LEMMA ReaderLearntStays ==
    ASSUME TypeOK, SafetyInv, AccessesInv, NEW t \in Threads, Step(t), Ordered(t),
           NEW c \in Consumers, ReaderLearnt(c), Still(c),
           m_lastPublished'[c] = m_lastPublished[c], target'[c] = target[c],
           seq'[c] = seq[c], available'[c] = available[c]
    PROVE  ReaderLearnt(c)'
<1>1. /\ c \in Threads /\ before[c] \subseteq before'[c] /\ m_lastPublished[c] \in Int
      /\ idx[c] \in Nat /\ acc[c] \in Int /\ target[c] \in Int /\ seq[c] \in Int
      /\ available[c] \in Int
  BY Constants, AccessesGrow DEF TypeOK
<1>2. ReaderKnows(c) /\ BarriersInv
  BY DEF SafetyInv, ReaderInv
<1>3. Covers(before'[c], Accesses', Ancestors[c], m_lastPublished[c])
  <2>1. Settled(Ancestors[c], m_lastPublished[c])
    BY <1>1, SettledBelow
  <2>2. Covers(before[c], Accesses, Ancestors[c], m_lastPublished[c])
    BY DEF ReaderLearnt, Knows
  <2> QED
    BY <1>1, <2>1, <2>2, OthersKnow
<1>4. ASSUME pc[c] \in {"check", "await", "after"}
      PROVE  Covers(before'[c], Accesses', {}, seq[c] - 1)
  <2>1. Settled({}, seq[c] - 1)
    BY <1>1, <1>2, <1>4 DEF ReaderKnows, Settled
  <2>2. Covers(before[c], Accesses, {}, seq[c] - 1)
    BY <1>4 DEF ReaderLearnt, Knows
  <2> QED
    BY <1>1, <2>1, <2>2, OthersKnow
<1>5. ASSUME pc[c] = "upstream", NEW i \in 1 .. idx[c]
      PROVE  Covers(before'[c], Accesses', Chain(Upstream[c][i]), target[c] + acc[c])
  <2> DEFINE b == Upstream[c][i]
             x == target[c] + acc[c]
  <2>1. /\ pc[c] \in Scanning /\ Upstream[c] = ScannedGroup(c, pc[c])
        /\ Upstream[c] \in Seq(Barriers)
    BY <1>5, GroupTypes DEF Scanning, ScannedGroup
  <2>2. i \in 1 .. idx[c] + 1
    BY <1>1
  <2>3. b \in Consumers
    BY <1>1, <2>1, <2>2, ScannedBarrier, TypesOfScans, BarriersAssumption
  <2>4. x \in Int /\ x <= m_lastPublished[b]
    BY <1>1, <1>2, <1>5 DEF ReaderKnows, ScannedSoFar
  <2>5. Covers(before[c], Accesses, Chain(b), x)
    BY <1>5 DEF ReaderLearnt, Knows
  <2> HIDE DEF b, x
  <2>6. Settled(Chain(b), x)
    BY <2>3, <2>4, SettledBelow
  <2>7. Covers(before'[c], Accesses', Chain(b), x)
    BY <1>1, <2>5, <2>6, OthersKnow
  <2> QED
    BY <2>7 DEF b, x
<1>6. ASSUME pc[c] \in {"read", "consumed"}
      PROVE  Covers(before'[c], Accesses', Ancestors[c], available[c])
  <2>1. Settled(Ancestors[c], available[c])
    BY <1>1, <1>2, <1>6, TopologyAssumption DEF ReaderKnows, Settled
  <2>2. Covers(before[c], Accesses, Ancestors[c], available[c])
    BY <1>6 DEF ReaderLearnt, Knows
  <2> QED
    BY <1>1, <2>1, <2>2, OthersKnow
<1> QED
  BY <1>3, <1>4, <1>5, <1>6 DEF ReaderLearnt, Knows, Still

LEMMA ProducerLearntStays ==
    ASSUME TypeOK, SafetyInv, AccessesInv, NEW t \in Threads, Step(t), Ordered(t),
           NEW p \in Producers, ProducerLearnt(p), Still(p),
           sequence'[p] = sequence[p], size'[p] = size[p], published'[p] = published[p]
    PROVE  ProducerLearnt(p)'
<1>1. /\ p \in Threads /\ before[p] \subseteq before'[p]
      /\ idx[p] \in Nat /\ acc[p] \in Int /\ sequence[p] \in Int /\ size[p] \in Nat
      /\ published[p] \in Int /\ BufferSize \in Nat
  BY Constants, AccessesGrow DEF TypeOK
<1>2. ProducerKnows(p)
  BY DEF SafetyInv, LimitInv
<1>3. ASSUME NEW x \in Int, NEW i \in 1 .. idx[p], pc[p] \in Scanning \ {"upstream"},
             x <= m_lastPublished[ClaimBarriers[i]],
             Covers(before[p], Accesses, Chain(ClaimBarriers[i]), x)
      PROVE  Covers(before'[p], Accesses', Chain(ClaimBarriers[i]), x)
  <2> DEFINE b == ClaimBarriers[i]
  <2>1. /\ pc[p] \in Scanning /\ ClaimBarriers = ScannedGroup(p, pc[p])
        /\ ClaimBarriers \in Seq(Barriers) /\ i \in 1 .. idx[p] + 1
    BY <1>1, <1>3, GroupTypes DEF ScannedGroup
  <2>2. b \in Consumers
    BY <1>1, <2>1, ScannedBarrier, TypesOfScans, BarriersAssumption
  <2>3. x <= m_lastPublished[b] /\ Covers(before[p], Accesses, Chain(b), x)
    BY <1>3
  <2> HIDE DEF b
  <2>4. Settled(Chain(b), x)
    BY <2>2, <2>3, SettledBelow
  <2>5. Covers(before'[p], Accesses', Chain(b), x)
    BY <1>1, <2>3, <2>4, OthersKnow
  <2> QED
    BY <2>5 DEF b
<1>4. ASSUME pc[p] = "claimWait", NEW i \in 1 .. idx[p]
      PROVE  Covers(before'[p], Accesses', Chain(ClaimBarriers[i]),
                    ClaimFloor(sequence[p], size[p]) + acc[p])
  <2>1. ClaimFloor(sequence[p], size[p]) + acc[p] \in Int
    BY <1>1 DEF ClaimFloor, RangeLast, RangeEnd
  <2>2. ClaimFloor(sequence[p], size[p]) + acc[p] <= m_lastPublished[ClaimBarriers[i]]
    BY <1>2, <1>4 DEF ProducerKnows, ScannedSoFar
  <2>3. pc[p] \in Scanning \ {"upstream"}
    BY <1>4 DEF Scanning
  <2> QED
    BY <1>3, <1>4, <2>1, <2>2, <2>3 DEF ProducerLearnt, Knows
<1>5. ASSUME pc[p] = "timedWait", NEW i \in 1 .. idx[p]
      PROVE  Covers(before'[p], Accesses', Chain(ClaimBarriers[i]),
                    sequence[p] - BufferSize + acc[p])
  <2>1. sequence[p] - BufferSize + acc[p] \in Int
    BY <1>1
  <2>2. sequence[p] - BufferSize + acc[p] <= m_lastPublished[ClaimBarriers[i]]
    BY <1>2, <1>5 DEF ProducerKnows, ScannedSoFar
  <2>3. pc[p] \in Scanning \ {"upstream"}
    BY <1>5 DEF Scanning
  <2> QED
    BY <1>3, <1>5, <2>1, <2>2, <2>3 DEF ProducerLearnt, Knows
<1>6. ASSUME pc[p] = "tryScan", NEW i \in 1 .. idx[p]
      PROVE  Covers(before'[p], Accesses', Chain(ClaimBarriers[i]), acc[p])
  <2>1. acc[p] <= m_lastPublished[ClaimBarriers[i]]
    BY <1>2, <1>6 DEF ProducerKnows, LimitIsSafe
  <2>2. pc[p] \in Scanning \ {"upstream"}
    BY <1>6 DEF Scanning
  <2> QED
    BY <1>1, <1>3, <1>6, <2>1, <2>2 DEF ProducerLearnt, Knows
<1>7. ASSUME pc[p] \in {"tryLoad", "tryCas"}
      PROVE  Covers(before'[p], Accesses', Consumers, published[p] - BufferSize)
  <2>1. ASSUME NEW c \in Consumers
        PROVE  published[p] - BufferSize <= m_lastPublished[c]
    <3>1. published[p] <= m_lastPublished[c] + BufferSize
      BY <1>2, <1>7 DEF ProducerKnows, LimitIsSafe
    <3>2. m_lastPublished[c] \in Int
      BY Constants DEF TypeOK
    <3> QED
      BY <1>1, <3>1, <3>2
  <2>2. Settled(Consumers, published[p] - BufferSize)
    BY <1>1, <2>1, SettledForAll
  <2>3. Covers(before[p], Accesses, Consumers, published[p] - BufferSize)
    BY <1>7 DEF ProducerLearnt, Knows
  <2> QED
    BY <1>1, <2>2, <2>3, OthersKnow
<1>8. ASSUME pc[p] \in {"write", "publish"}
      PROVE  Covers(before'[p], Accesses', Consumers,
                    RangeLast(sequence[p], size[p]) - BufferSize)
  <2> DEFINE l == RangeLast(sequence[p], size[p])
  <2>1. l \in Held(p) /\ l \in Int
    <3>1. idx[p] < size[p]
      BY <1>2, <1>8 DEF ProducerKnows
    <3>2. l = sequence[p] + size[p] - 1 /\ l \in Int
      BY <1>1 DEF RangeLast, RangeEnd
    <3>3. l \in sequence[p] .. l /\ l \in sequence[p] + idx[p] .. l
      BY <1>1, <3>1, <3>2
    <3> QED
      BY <1>8, <3>2, <3>3 DEF Held
  <2>2. Covers(before[p], Accesses, Consumers, l - BufferSize)
    BY <1>8 DEF ProducerLearnt, Knows
  <2> HIDE DEF l
  <2>3. ASSUME NEW c \in Consumers
        PROVE  l - BufferSize <= m_lastPublished[c]
    BY <1>1, <2>1, HeldWindow
  <2>4. Settled(Consumers, l - BufferSize)
    BY <1>1, <2>1, <2>3, SettledForAll
  <2>5. Covers(before'[p], Accesses', Consumers, l - BufferSize)
    BY <1>1, <2>2, <2>4, OthersKnow
  <2> QED
    BY <2>5 DEF l
<1> QED
  BY <1>4, <1>5, <1>6, <1>7, <1>8 DEF ProducerLearnt, Knows, Still

-----------------------------------------------------------------------------
(***************************************************************************)
(* What a producer learns from its step.                                   *)
(***************************************************************************)

\* At the start of a scan nothing is learnt, and outside a claim nothing is needed.
LEMMA NothingToLearn ==
    ASSUME NEW p \in Producers,
           \/ pc'[p] = "idle"
           \/ pc'[p] \in {"claimWait", "tryScan", "timedWait"} /\ idx'[p] = 0
    PROVE  pc'[p] # "read" /\ ProducerLearnt(p)'
<1>1. \A i \in 1 .. 0 : FALSE
  OBVIOUS
<1> QED
  BY <1>1 DEF ProducerLearnt

\* The barriers of a scan of the claim barrier, and what the next load acquires.
LEMMA ClaimScanPlace ==
    ASSUME TypeOK, NEW p \in Producers, pc[p] \in {"claimWait", "tryScan", "timedWait"}
    PROVE  /\ p \in Threads /\ pc[p] \in Scanning
           /\ ClaimBarriers = ScannedGroup(p, pc[p]) /\ ClaimBarriers \in Seq(Barriers)
           /\ idx[p] \in Nat /\ acc[p] \in Int /\ idx[p] + 1 \in 1 .. idx[p] + 1
           /\ \A i \in 1 .. idx[p] + 1 : ClaimBarriers[i] \in Consumers
           /\ Acquired(p) = barrierCarries[ClaimBarriers[idx[p] + 1]]
<1>1. /\ p \in Threads /\ pc[p] \in Scanning
      /\ ClaimBarriers = ScannedGroup(p, pc[p]) /\ ClaimBarriers \in Seq(Barriers)
  BY GroupTypes, Constants DEF Scanning, ScannedGroup
<1>2. idx[p] \in Nat /\ acc[p] \in Int
  BY <1>1 DEF TypeOK
<1>3. \A i \in 1 .. idx[p] + 1 : ClaimBarriers[i] \in Consumers
  BY <1>1, ScannedBarrier, TypesOfScans, BarriersAssumption
<1>4. Acquired(p) = barrierCarries[ClaimBarriers[idx[p] + 1]]
  BY DEF Acquired
<1> QED
  BY <1>1, <1>2, <1>3, <1>4

\* A load of a wait on the claim barrier that does not precede floor.
LEMMA ClaimLoadLearns ==
    ASSUME TypeOK, SafetyInv, ActiveWindow, OrderInv, NEW p \in Producers, Step(p),
           Ordered(p), pc[p] \in {"claimWait", "timedWait"}, NEW floor \in Int,
           pc[p] = "claimWait" => floor = ClaimFloor(sequence[p], size[p]),
           pc[p] = "timedWait" => floor = sequence[p] - BufferSize,
           MinDeltaNow(p, ClaimBarriers, floor) >= 0
    PROVE  /\ MinDeltaNow(p, ClaimBarriers, floor) \in Int
           /\ \A i \in 1 .. idx[p] + 1 :
                 Covers(before'[p], Accesses', Chain(ClaimBarriers[i]),
                        floor + MinDeltaNow(p, ClaimBarriers, floor))
<1> DEFINE m == MinDeltaNow(p, ClaimBarriers, floor)
<1>0. /\ p \in Threads /\ pc[p] \in Scanning
      /\ ClaimBarriers = ScannedGroup(p, pc[p]) /\ ClaimBarriers \in Seq(Barriers)
      /\ idx[p] \in Nat /\ acc[p] \in Int /\ idx[p] + 1 \in 1 .. idx[p] + 1
      /\ \A i \in 1 .. idx[p] + 1 : ClaimBarriers[i] \in Consumers
      /\ Acquired(p) = barrierCarries[ClaimBarriers[idx[p] + 1]]
  BY ClaimScanPlace
<1>1. ScannedSoFar(p, ClaimBarriers, floor)
  BY DEF SafetyInv, LimitInv, ProducerKnows
<1>2. Comparable(ClaimBarriers, floor)
  BY <1>0, ClaimComparable, GroupComparable
<1>3. m \in Int /\ \A i \in 1 .. idx[p] + 1 : floor + m <= m_lastPublished[ClaimBarriers[i]]
  BY <1>0, <1>1, <1>2, MinDeltaBounds, TypesOfScans
<1>4. idx[p] > 0 => m <= acc[p]
  BY <1>0, MinDeltaShrinks, TypesOfScans
<1> HIDE DEF m
<1>5. \A i \in 1 .. idx[p] : Knows(before[p], Chain(ClaimBarriers[i]), floor + acc[p])
  BY DEF OrderInv, ProducerLearnt
<1>6. /\ floor + m \in Int /\ floor + acc[p] \in Int
      /\ idx[p] > 0 => floor + m <= floor + acc[p]
  <2>1. m \in Int /\ acc[p] \in Int
    BY <1>0, <1>3
  <2> QED
    BY <1>4, <2>1
<1>7. \A i \in 1 .. idx[p] + 1 :
         Covers(before[p] \cup Acquired(p), Accesses, Chain(ClaimBarriers[i]), floor + m)
  <2>1. AccessesInv /\ CarriersInv /\ floor + m <= m_lastPublished[ClaimBarriers[idx[p] + 1]]
    BY <1>0, <1>3 DEF OrderInv
  <2> QED
    BY <1>0, <1>5, <1>6, <2>1, ScanLearns
<1>8. \A i \in 1 .. idx[p] + 1 :
         Covers(before'[p], Accesses', Chain(ClaimBarriers[i]), floor + m)
  BY <1>0, <1>7, MoverKnows DEF OrderInv
<1> QED
  BY <1>3, <1>8 DEF m

LEMMA ClaimWaitLearns ==
    ASSUME TypeOK, SafetyInv, ActiveWindow, OrderInv, NEW p \in Producers, Step(p),
           Ordered(p), ClaimWait(p)
    PROVE  pc'[p] # "read" /\ ProducerLearnt(p)'
<1> DEFINE floor == ClaimFloor(sequence[p], size[p])
           m == MinDeltaNow(p, ClaimBarriers, floor)
<1>1. /\ pc[p] = "claimWait" /\ p \in Threads /\ sequence[p] \in Int /\ size[p] \in Nat
      /\ sequence'[p] = sequence[p] /\ size'[p] = size[p]
  BY Constants DEF ClaimWait, TypeOK
<1>2. floor \in Int
  BY <1>1, Constants DEF ClaimFloor, RangeLast, RangeEnd
<1>3. CASE Rescan(p, ClaimBarriers, floor)
  <2>1. pc'[p] = "claimWait" /\ idx'[p] = 0
    BY <1>1, <1>3 DEF Rescan, Goto, TypeOK
  <2> QED
    BY <2>1, NothingToLearn
<1>4. ASSUME m >= 0
      PROVE  /\ m \in Int
             /\ \A i \in 1 .. idx[p] + 1 :
                   Covers(before'[p], Accesses', Chain(ClaimBarriers[i]), floor + m)
  BY <1>1, <1>2, <1>4, ClaimLoadLearns
<1>5. CASE ScanOn(p, ClaimBarriers, floor)
  <2>1. /\ m >= 0 /\ pc'[p] = "claimWait" /\ idx'[p] = idx[p] + 1 /\ acc'[p] = m
    BY <1>1, <1>5 DEF ScanOn, Again, TypeOK
  <2>2. ClaimFloor(sequence[p], size[p])' = floor
    BY <1>1 DEF ClaimFloor, RangeLast, RangeEnd
  <2> HIDE DEF m, floor
  <2> QED
    BY <1>4, <2>1, <2>2 DEF ProducerLearnt, Knows
<1>6. CASE ScanDone(p, ClaimBarriers, floor) /\ ClaimReturns(p, size[p])
  <2>1. m >= 0 /\ idx[p] + 1 = Len(ClaimBarriers)
    BY <1>6 DEF ScanDone, IsLastLoad
  <2>2. Covers(before'[p], Accesses', Consumers, floor + m)
    BY <1>4, <2>1, AllGates
  <2>3. Covers(before'[p], Accesses', Consumers, floor)
    <3>1. Accesses' \subseteq AccessType
      BY <1>1, AccessesGrow, AccessesTypes, NewAccess DEF OrderInv
    <3>2. m \in Int /\ floor <= floor + m /\ floor + m \in Int
      BY <1>2, <1>4, <2>1
    <3> HIDE DEF floor, m
    <3> QED
      BY <1>2, <2>2, <3>1, <3>2, CoversLess
  <2>4. pc'[p] \in {"idle", "write"}
    BY <1>1, <1>6 DEF ClaimReturns, Goto, TypeOK
  <2>5. floor = RangeLast(sequence'[p], size'[p]) - BufferSize
    BY <1>1 DEF ClaimFloor
  <2> HIDE DEF m, floor
  <2> QED
    BY <2>3, <2>4, <2>5 DEF ProducerLearnt, Knows
<1> QED
  BY <1>3, <1>5, <1>6 DEF ClaimWait

LEMMA TryClaimTimedWaitLearns ==
    ASSUME TypeOK, SafetyInv, ActiveWindow, OrderInv, NEW p \in Producers, Step(p),
           Ordered(p), TryClaimTimedWait(p)
    PROVE  pc'[p] # "read" /\ ProducerLearnt(p)'
<1> DEFINE floor == sequence[p] - BufferSize
           m == MinDeltaNow(p, ClaimBarriers, floor)
<1>1. /\ pc[p] = "timedWait" /\ p \in Threads /\ sequence[p] \in Int /\ floor \in Int
      /\ BufferSize \in Nat
  BY Constants DEF TryClaimTimedWait, TypeOK
<1>2. CASE Rescan(p, ClaimBarriers, floor) \/ ClaimFails(p)
  <2>1. (pc'[p] = "timedWait" /\ idx'[p] = 0) \/ pc'[p] = "idle"
    BY <1>1, <1>2 DEF Rescan, ClaimFails, Goto, TypeOK
  <2> QED
    BY <2>1, NothingToLearn
<1>3. ASSUME m >= 0
      PROVE  /\ m \in Int
             /\ \A i \in 1 .. idx[p] + 1 :
                   Covers(before'[p], Accesses', Chain(ClaimBarriers[i]), floor + m)
  BY <1>1, <1>3, ClaimLoadLearns
<1>4. CASE ScanOn(p, ClaimBarriers, floor) /\ UNCHANGED sequence
  <2>1. /\ m >= 0 /\ pc'[p] = "timedWait" /\ idx'[p] = idx[p] + 1 /\ acc'[p] = m
    BY <1>1, <1>4 DEF ScanOn, Again, TypeOK
  <2>2. sequence'[p] - BufferSize = floor
    BY <1>4
  <2> HIDE DEF m, floor
  <2> QED
    BY <1>3, <2>1, <2>2 DEF ProducerLearnt, Knows
<1>5. CASE /\ ScanDone(p, ClaimBarriers, floor)
           /\ TryClaimBody(p, sequence[p],
                           ScanResult(p, ClaimBarriers, floor) + BufferSize)
  <2>1. m >= 0 /\ idx[p] + 1 = Len(ClaimBarriers)
    BY <1>5 DEF ScanDone, IsLastLoad
  <2>2. Covers(before'[p], Accesses', Consumers, floor + m)
    BY <1>3, <2>1, AllGates
  <2>3. pc'[p] = "tryCas" /\ published'[p] = floor + m + BufferSize
    BY <1>1, <1>5 DEF TryClaimBody, ScanResult, Goto, TypeOK
  <2>4. floor + m = published'[p] - BufferSize
    <3>1. m \in Int
      BY <1>3, <2>1
    <3> HIDE DEF floor, m
    <3> QED
      BY <1>1, <2>3, <3>1
  <2> HIDE DEF m, floor
  <2> QED
    BY <2>2, <2>3, <2>4 DEF ProducerLearnt, Knows
<1> QED
  BY <1>2, <1>4, <1>5 DEF TryClaimTimedWait

LEMMA TryClaimScanLearns ==
    ASSUME TypeOK, SafetyInv, ActiveWindow, OrderInv, NEW p \in Producers, Step(p),
           Ordered(p), TryClaimScan(p)
    PROVE  pc'[p] # "read" /\ ProducerLearnt(p)'
<1> DEFINE m == MinimumNow(p, ClaimBarriers)
<1>0. pc[p] = "tryScan"
  BY DEF TryClaimScan
<1>1. /\ p \in Threads /\ idx[p] \in Nat /\ acc[p] \in Int
      /\ idx[p] + 1 \in 1 .. idx[p] + 1
      /\ \A i \in 1 .. idx[p] + 1 : ClaimBarriers[i] \in Consumers
      /\ Acquired(p) = barrierCarries[ClaimBarriers[idx[p] + 1]]
  BY <1>0, ClaimScanPlace
<1>2. /\ m \in Int /\ (idx[p] > 0 => m <= acc[p])
      /\ \A i \in 1 .. idx[p] + 1 : m <= m_lastPublished[ClaimBarriers[i]]
  BY <1>0, ClaimMinimum
<1>3. \A i \in 1 .. idx[p] : Knows(before[p], Chain(ClaimBarriers[i]), acc[p])
  BY <1>0 DEF OrderInv, ProducerLearnt
<1>a. CASE ~IsLastLoad(p, ClaimBarriers)
  <2>1. pc'[p] = "tryScan" /\ idx'[p] = idx[p] + 1 /\ acc'[p] = m
    BY <1>0, <1>1, <1>a DEF TryClaimScan, Again, TypeOK
  <2> HIDE DEF m
  <2>2. \A i \in 1 .. idx[p] + 1 :
           Covers(before[p] \cup Acquired(p), Accesses, Chain(ClaimBarriers[i]), m)
    BY <1>1, <1>2, <1>3, ScanLearns DEF OrderInv
  <2>3. \A i \in 1 .. idx[p] + 1 : Covers(before'[p], Accesses', Chain(ClaimBarriers[i]), m)
    BY <1>1, <2>2, MoverKnows DEF OrderInv
  <2> QED
    BY <2>1, <2>3 DEF ProducerLearnt, Knows
<1>b. CASE IsLastLoad(p, ClaimBarriers)
  <2>1. pc'[p] = "tryLoad" /\ published'[p] = m + BufferSize
    BY <1>0, <1>1, <1>b DEF TryClaimScan, Goto, TypeOK
  <2>2. idx[p] + 1 = Len(ClaimBarriers)
    BY <1>b DEF IsLastLoad
  <2> HIDE DEF m
  <2>3. \A i \in 1 .. idx[p] + 1 :
           Covers(before[p] \cup Acquired(p), Accesses, Chain(ClaimBarriers[i]), m)
    BY <1>1, <1>2, <1>3, ScanLearns DEF OrderInv
  <2>4. Covers(before[p] \cup Acquired(p), Accesses, Consumers, m)
    BY <2>2, <2>3, AllGates
  <2>5. Covers(before'[p], Accesses', Consumers, m)
    BY <1>1, <2>4, MoverKnows DEF OrderInv
  <2>6. m = published'[p] - BufferSize
    BY <1>2, <2>1, Constants
  <2> QED
    BY <2>1, <2>5, <2>6 DEF ProducerLearnt, Knows
<1> QED
  BY <1>a, <1>b

\* One round of the compare-exchange loop: a failed exchange teaches nothing, and
\* what the last scan has shown still holds when it succeeds.
LEMMA TryClaimRoundLearns ==
    ASSUME TypeOK, SafetyInv, ActiveWindow, OrderInv, NEW p \in Producers, Step(p),
           Ordered(p), TryClaimLoad(p) \/ TryClaimCas(p)
    PROVE  pc'[p] # "read" /\ ProducerLearnt(p)'
<1>1. /\ p \in Threads /\ pc[p] \in {"tryLoad", "tryCas"} /\ published[p] \in Int
      /\ sequence[p] \in Int /\ size[p] \in Nat /\ BufferSize \in Nat
  BY Constants DEF TryClaimLoad, TryClaimCas, TypeOK
<1>2. Covers(before[p] \cup Acquired(p), Accesses, Consumers, published[p] - BufferSize)
  <2>1. Covers(before[p], Accesses, Consumers, published[p] - BufferSize)
    BY <1>1 DEF OrderInv, ProducerLearnt, Knows
  <2> QED
    BY <2>1 DEF Covers
<1>3. CASE TryClaimBody(p, m_nextClaimable, published[p])
  <2>1. pc'[p] = "tryCas" /\ published'[p] = published[p]
    BY <1>1, <1>3 DEF TryClaimBody, Goto, TypeOK
  <2>2. Covers(before'[p], Accesses', Consumers, published[p] - BufferSize)
    BY <1>1, <1>2, MoverKnows DEF OrderInv
  <2> QED
    BY <2>1, <2>2 DEF ProducerLearnt, Knows
<1>4. CASE TryClaimNoRoom(p, m_nextClaimable)
  <2>1. (pc'[p] = "timedWait" /\ idx'[p] = 0) \/ pc'[p] = "idle"
    BY <1>1, <1>4 DEF TryClaimNoRoom, ClaimFails, Goto, TypeOK
  <2> QED
    BY <2>1, NothingToLearn
<1>5. CASE pc[p] = "tryCas" /\ ClaimReturns(p, size[p]) /\ UNCHANGED <<sequence, size>>
  <2> DEFINE l == RangeLast(sequence[p], size[p])
  <2>1. l <= published[p]
    BY <1>5 DEF SafetyInv, LimitInv, ProducerKnows
  <2>2. l \in Int
    BY <1>1 DEF RangeLast, RangeEnd
  <2> HIDE DEF l
  <2>3. /\ l - BufferSize \in Int /\ published[p] - BufferSize \in Int
        /\ l - BufferSize <= published[p] - BufferSize
    BY <1>1, <2>1, <2>2
  <2>4. Covers(before[p] \cup Acquired(p), Accesses, Consumers, l - BufferSize)
    BY <1>2, <2>3, CoversLess, AccessesTypes DEF OrderInv
  <2>5. Covers(before'[p], Accesses', Consumers, l - BufferSize)
    BY <1>1, <2>4, MoverKnows DEF OrderInv
  <2>6. pc'[p] \in {"idle", "write"}
    BY <1>1, <1>5 DEF ClaimReturns, Goto, TypeOK
  <2>7. l = RangeLast(sequence'[p], size'[p])
    BY <1>5 DEF l
  <2> QED
    BY <2>5, <2>6, <2>7 DEF ProducerLearnt, Knows
<1> QED
  BY <1>3, <1>4, <1>5 DEF TryClaimLoad, TryClaimCas

LEMMA WriterLearns ==
    ASSUME TypeOK, SafetyInv, OrderInv, NEW p \in Producers, Step(p), Ordered(p),
           WriteItem(p) \/ Publish(p)
    PROVE  pc'[p] # "read" /\ ProducerLearnt(p)'
<1>1. p \in Threads /\ pc[p] \in {"write", "publish"}
  BY Constants DEF WriteItem, Publish
<1>2. \/ pc'[p] = "idle"
      \/ /\ pc'[p] \in {"write", "publish"}
         /\ sequence'[p] = sequence[p] /\ size'[p] = size[p]
  BY <1>1 DEF WriteItem, Publish, Goto, Again, claimVars, TypeOK
<1>3. Covers(before'[p], Accesses', Consumers,
             RangeLast(sequence[p], size[p]) - BufferSize)
  <2> DEFINE x == RangeLast(sequence[p], size[p]) - BufferSize
  <2>1. Covers(before[p], Accesses, Consumers, x)
    BY <1>1 DEF OrderInv, ProducerLearnt, Knows
  <2> HIDE DEF x
  <2>2. Covers(before[p] \cup Acquired(p), Accesses, Consumers, x)
    BY <2>1 DEF Covers
  <2>3. Covers(before'[p], Accesses', Consumers, x)
    BY <1>1, <2>2, MoverKnows DEF OrderInv
  <2> QED
    BY <2>3 DEF x
<1> QED
  BY <1>2, <1>3, NothingToLearn DEF ProducerLearnt, Knows

LEMMA ProducerLearns ==
    ASSUME TypeOK, SafetyInv, ActiveWindow, OrderInv, NEW p \in Producers, Step(p),
           Ordered(p)
    PROVE  pc'[p] # "read" /\ ProducerLearnt(p)'
<1>1. ClaimFetchAdd(p) \/ TryClaimBegin(p) \/ ProducerWorks(p)
  BY Constants DEF Step
<1>2. CASE ClaimFetchAdd(p) \/ TryClaimBegin(p)
  <2>1. pc'[p] \in {"claimWait", "tryScan"} /\ idx'[p] = 0
    BY <1>2, Constants DEF ClaimFetchAdd, TryClaimBegin, Goto, TypeOK
  <2> QED
    BY <2>1, NothingToLearn
<1> QED
  BY <1>1, <1>2, ClaimWaitLearns, TryClaimTimedWaitLearns, TryClaimScanLearns,
     TryClaimRoundLearns, WriterLearns DEF ProducerWorks

-----------------------------------------------------------------------------
(***************************************************************************)
(* What a reader learns from its step.                                     *)
(***************************************************************************)

\* What a reader has known since it last published stays.
LEMMA ReleasedIsKnown ==
    ASSUME TypeOK, OrderInv, NEW c \in Consumers, Step(c), Ordered(c)
    PROVE  Covers(before'[c], Accesses', Ancestors[c], m_lastPublished[c])
<1>1. c \in Threads /\ AccessesInv
  BY Constants DEF OrderInv
<1>2. Covers(before[c] \cup Acquired(c), Accesses, Ancestors[c], m_lastPublished[c])
  BY DEF OrderInv, ReaderLearnt, Knows, Covers
<1> QED
  BY <1>1, <1>2, MoverKnows

LEMMA ReaderBeginsLearns ==
    ASSUME TypeOK, SafetyInv, OrderInv, NEW c \in Consumers, Step(c), Ordered(c),
           ReaderBegins(c)
    PROVE  pc'[c] # "write" /\ ReaderLearnt(c)'
<1>1. /\ c \in Threads /\ pc[c] = "idle" /\ m_lastPublished[c] \in Int
      /\ nextToRead[c] \in Int /\ idx'[c] = 0 /\ pc'[c] \in {"check", "upstream"}
      /\ seq'[c] = nextToRead[c] /\ m_lastPublished' = m_lastPublished
  BY Constants DEF ReaderBegins, BeginWait, Goto, TypeOK
<1>2. seq'[c] - 1 = m_lastPublished[c]
  <2>1. nextToRead[c] = m_lastPublished[c] + 1
    BY <1>1 DEF SafetyInv, ReaderInv, ReaderKnows
  <2> QED
    BY <1>1, <2>1
<1>3. Covers(before'[c], Accesses', Ancestors[c], m_lastPublished[c])
  BY ReleasedIsKnown
<1>4. Covers(before'[c], Accesses', {}, m_lastPublished[c])
  BY <1>3 DEF Covers
<1>5. \A i \in 1 .. idx'[c] : FALSE
  BY <1>1
<1> QED
  BY <1>1, <1>2, <1>3, <1>4, <1>5 DEF ReaderLearnt, Knows

\* An acquire load of the entry of seq that finds it published.
LEMMA EntryLearns ==
    ASSUME TypeOK, OrderInv, NEW c \in Consumers, Step(c), Ordered(c),
           pc[c] \in {"check", "await", "after"}, Published(seq[c])
    PROVE  Covers(before'[c], Accesses', {}, seq[c])
<1>1. c \in Threads /\ AccessesInv /\ seq[c] \in Int /\ Slot(seq[c]) \in Slots
  BY Constants, SlotType DEF OrderInv, TypeOK
<1>2. Acquired(c) = entryCarries[Slot(seq[c])]
  BY DEF Acquired
<1>3. ASSUME NEW a \in Accesses, a.isWrite, a.seq <= seq[c]
      PROVE  a \in before[c] \cup Acquired(c)
  <2>1. a.seq \in Int
    BY <1>1, AccessesTypes DEF AccessType
  <2>2. CASE a.seq = seq[c]
    BY <1>1, <1>2, <1>3, <2>2 DEF OrderInv, CarriersInv, Published
  <2>3. CASE a.seq # seq[c]
    <3>1. a.seq <= seq[c] - 1
      BY <1>1, <1>3, <2>1, <2>3
    <3> QED
      BY <1>3, <3>1 DEF OrderInv, ReaderLearnt, Knows, Covers
  <2> QED
    BY <2>2, <2>3
<1>4. Covers(before[c] \cup Acquired(c), Accesses, {}, seq[c])
  BY <1>3 DEF Covers
<1> QED
  BY <1>1, <1>4, MoverKnows

LEMMA EntryWaitLearns ==
    ASSUME TypeOK, SafetyInv, ActiveWindow, OrderInv, NEW c \in Consumers, Step(c),
           Ordered(c), CheckPublished(c) \/ AwaitPublished(c) \/ LastPublishedAfter(c)
    PROVE  pc'[c] # "write" /\ ReaderLearnt(c)'
<1>1. /\ c \in Threads /\ pc[c] \in {"check", "await", "after"} /\ seq[c] \in Int
      /\ m_lastPublished' = m_lastPublished /\ AccessesInv
  BY Constants
     DEF CheckPublished, AwaitPublished, LastPublishedAfter, NextSeq, BatchAvailable,
         barrierVars, TypeOK, OrderInv
<1>2. Covers(before'[c], Accesses', Ancestors[c], m_lastPublished[c])
  BY ReleasedIsKnown
<1>3. CASE /\ Published(seq[c]) /\ pc'[c] \in {"check", "after"} /\ seq'[c] = seq[c] + 1
  <2>1. Covers(before'[c], Accesses', {}, seq[c])
    BY <1>1, <1>3, EntryLearns
  <2>2. seq'[c] - 1 = seq[c]
    BY <1>1, <1>3
  <2> QED
    BY <1>1, <1>2, <1>3, <2>1, <2>2 DEF ReaderLearnt, Knows
<1>4. Covers(before'[c], Accesses', {}, seq[c] - 1)
  <2>1. Covers(before[c] \cup Acquired(c), Accesses, {}, seq[c] - 1)
    BY <1>1 DEF OrderInv, ReaderLearnt, Knows, Covers
  <2> QED
    BY <1>1, <2>1, MoverKnows
<1>5. CASE pc'[c] = "await" /\ seq'[c] = seq[c]
  BY <1>1, <1>2, <1>4, <1>5 DEF ReaderLearnt, Knows
<1>6. CASE pc'[c] = "read" /\ available'[c] = seq[c] - 1
  <2>1. Ancestors[c] = {}
    BY <1>1, NoAncestors DEF SafetyInv, ReaderInv, ReaderKnows
  <2> QED
    BY <1>1, <1>2, <1>4, <1>6, <2>1 DEF ReaderLearnt, Knows
<1>7. /\ is_published(seq[c]) => Published(seq[c])
      /\ difference(m_published[Slot(seq[c])], seq[c]) >= 0 => Published(seq[c])
  BY <1>1, EntrySeen
<1>8. CASE CheckPublished(c)
  BY <1>1, <1>3, <1>5, <1>7, <1>8 DEF CheckPublished, NextSeq, Goto, TypeOK
<1>9. CASE AwaitPublished(c)
  BY <1>1, <1>3, <1>7, <1>9 DEF AwaitPublished, NextSeq, Goto, TypeOK
<1>10. CASE LastPublishedAfter(c)
  BY <1>1, <1>3, <1>6, <1>7, <1>10
     DEF LastPublishedAfter, BatchAvailable, Goto, TypeOK, barrierVars
<1> QED
  BY <1>8, <1>9, <1>10

LEMMA WaitUpstreamLearns ==
    ASSUME TypeOK, SafetyInv, ActiveWindow, OrderInv, NEW c \in Consumers, Step(c),
           Ordered(c), WaitUpstream(c)
    PROVE  pc'[c] # "write" /\ ReaderLearnt(c)'
<1> DEFINE group == Upstream[c]
           floor == target[c]
           m == MinDeltaNow(c, group, floor)
<1>1. /\ c \in Threads /\ pc[c] = "upstream" /\ pc[c] \in Scanning
      /\ group = ScannedGroup(c, pc[c]) /\ group \in Seq(Barriers)
      /\ floor \in Int /\ idx[c] \in Nat /\ acc[c] \in Int
      /\ idx[c] + 1 \in 1 .. idx[c] + 1
  <2>1. idx[c] \in Nat /\ acc[c] \in Int /\ floor \in Int
    BY Constants DEF TypeOK
  <2>2. idx[c] + 1 \in 1 .. idx[c] + 1
    BY <2>1
  <2> QED
    BY <2>1, <2>2, GroupTypes, Constants DEF WaitUpstream, Scanning, ScannedGroup
<1>2. /\ \A i \in 1 .. idx[c] + 1 : group[i] \in Consumers
      /\ Acquired(c) = barrierCarries[group[idx[c] + 1]]
      /\ group # <<>> /\ AccessesInv /\ CarriersInv
  <2>1. \A i \in 1 .. idx[c] + 1 : group[i] \in Consumers
    BY <1>1, ScannedBarrier, TypesOfScans, BarriersAssumption
  <2>2. Len(group) > 0
    BY <1>1 DEF TypeOK, ScanInBounds
  <2> QED
    BY <1>1, <2>1, <2>2 DEF Acquired, OrderInv
<1>3. /\ m_lastPublished' = m_lastPublished
      /\ Covers(before'[c], Accesses', Ancestors[c], m_lastPublished[c])
  BY ReleasedIsKnown DEF WaitUpstream, Rescan, ScanOn, BatchAvailable, WaitTimedOut
<1>4. CASE Rescan(c, group, floor) \/ WaitTimedOut(c)
  <2>1. (pc'[c] = "upstream" /\ idx'[c] = 0) \/ pc'[c] = "idle"
    BY <1>1, <1>4 DEF Rescan, WaitTimedOut, Goto, TypeOK
  <2>2. \A i \in 1 .. 0 : FALSE
    OBVIOUS
  <2> QED
    BY <1>3, <2>1, <2>2 DEF ReaderLearnt, Knows
<1>5. ASSUME m >= 0
      PROVE  /\ m \in Int
             /\ \A i \in 1 .. idx[c] + 1 :
                   Covers(before'[c], Accesses', Chain(group[i]), floor + m)
  <2>1. ScannedSoFar(c, group, floor)
    BY <1>1 DEF SafetyInv, ReaderInv, ReaderKnows
  <2>2. Comparable(group, floor)
    BY <1>1, UpstreamComparable, GroupComparable
  <2>3. m \in Int /\ \A i \in 1 .. idx[c] + 1 : floor + m <= m_lastPublished[group[i]]
    BY <1>1, <1>5, <2>1, <2>2, MinDeltaBounds, TypesOfScans
  <2>4. idx[c] > 0 => m <= acc[c]
    BY <1>1, MinDeltaShrinks, TypesOfScans
  <2>5. \A i \in 1 .. idx[c] : Knows(before[c], Chain(group[i]), floor + acc[c])
    BY <1>1 DEF OrderInv, ReaderLearnt
  <2>6. floor + m <= m_lastPublished[group[idx[c] + 1]]
    BY <1>1, <2>3
  <2>i. floor \in Int /\ acc[c] \in Int /\ m \in Int
    BY <1>1, <2>3
  <2> HIDE DEF m, floor, group
  <2>7. /\ floor + m \in Int /\ floor + acc[c] \in Int
        /\ idx[c] > 0 => floor + m <= floor + acc[c]
    BY <2>i, <2>4
  <2>8. \A i \in 1 .. idx[c] + 1 :
           Covers(before[c] \cup Acquired(c), Accesses, Chain(group[i]), floor + m)
    BY <1>1, <1>2, <2>5, <2>6, <2>7, ScanLearns
  <2>9. \A i \in 1 .. idx[c] + 1 :
           Covers(before'[c], Accesses', Chain(group[i]), floor + m)
    BY <1>1, <1>2, <2>8, MoverKnows
  <2> QED
    BY <2>3, <2>9
<1>6. CASE ScanOn(c, group, floor) /\ UNCHANGED target
  <2>1. /\ m >= 0 /\ pc'[c] = "upstream" /\ idx'[c] = idx[c] + 1 /\ acc'[c] = m
    BY <1>1, <1>6 DEF ScanOn, Again, TypeOK
  <2>2. target'[c] = floor
    BY <1>6
  <2>3. \A i \in 1 .. idx[c] + 1 :
           Covers(before'[c], Accesses', Chain(Upstream[c][i]), floor + m)
    BY <1>5, <2>1
  <2> HIDE DEF m, floor, group
  <2> QED
    BY <1>3, <2>1, <2>2, <2>3 DEF ReaderLearnt, Knows
<1>7. CASE ScanDone(c, group, floor) /\ BatchAvailable(c, ScanResult(c, group, floor))
  <2>1. m >= 0 /\ idx[c] + 1 = Len(group)
    BY <1>7 DEF ScanDone, IsLastLoad
  <2>2. Covers(before'[c], Accesses', Ancestors[c], floor + m)
    BY <1>2, <1>5, <2>1, AllUpstream
  <2>3. pc'[c] = "read" /\ available'[c] = floor + m
    BY <1>1, <1>7 DEF BatchAvailable, ScanResult, Goto, TypeOK
  <2> HIDE DEF m, floor, group
  <2> QED
    BY <1>3, <2>2, <2>3 DEF ReaderLearnt, Knows
<1> QED
  BY <1>4, <1>6, <1>7 DEF WaitUpstream, readerVars

LEMMA BatchLearns ==
    ASSUME TypeOK, SafetyInv, OrderInv, NEW c \in Consumers, Step(c), Ordered(c),
           ReadItem(c) \/ PublishConsumed(c)
    PROVE  pc'[c] # "write" /\ ReaderLearnt(c)'
<1>1. /\ c \in Threads /\ c \in Barriers /\ pc[c] \in {"read", "consumed"} /\ AccessesInv
      /\ available'[c] = available[c]
  BY Constants DEF ReadItem, PublishConsumed, OrderInv, readerVars
<1>2. Covers(before'[c], Accesses', Ancestors[c], available[c])
  <2>1. Covers(before[c] \cup Acquired(c), Accesses, Ancestors[c], available[c])
    BY <1>1 DEF OrderInv, ReaderLearnt, Knows, Covers
  <2> QED
    BY <1>1, <2>1, MoverKnows
<1>3. CASE ReadItem(c)
  <2>1. pc'[c] \in {"read", "consumed"} /\ m_lastPublished' = m_lastPublished
    BY <1>1, <1>3 DEF ReadItem, Goto, TypeOK
  <2> QED
    BY <1>1, <1>2, <2>1, ReleasedIsKnown DEF ReaderLearnt, Knows
<1>4. CASE PublishConsumed(c)
  <2>1. pc'[c] = "idle" /\ m_lastPublished'[c] = available[c]
    BY <1>1, <1>4 DEF PublishConsumed, PublishBarrier, Goto, TypeOK
  <2> QED
    BY <1>2, <2>1 DEF ReaderLearnt, Knows
<1> QED
  BY <1>3, <1>4

LEMMA ReaderLearns ==
    ASSUME TypeOK, SafetyInv, ActiveWindow, OrderInv, NEW c \in Consumers, Step(c),
           Ordered(c)
    PROVE  pc'[c] # "write" /\ ReaderLearnt(c)'
<1>1. ReaderBegins(c) \/ ConsumerWorks(c)
  BY Constants DEF Step
<1> QED
  BY <1>1, ReaderBeginsLearns, EntryWaitLearns, WaitUpstreamLearns, BatchLearns
     DEF ConsumerWorks, ReaderAction

-----------------------------------------------------------------------------
(***************************************************************************)
(* What the values in shared memory carry.                                 *)
(***************************************************************************)

\* Entries only grow, and a sequence leaves its producer's hands by being published.
LEMMA HeldOrPublished ==
    ASSUME TypeOK, SafetyInv, NEW t \in Threads, Step(t)
    PROVE  /\ EntriesGrow
           /\ pc[t] # "publish" => m_published' = m_published
           /\ \A q \in Producers : \A s \in Held(q) : s \in Held(q)' \/ Published(s)'
<1>1. CASE t \in Consumers
  <2>1. OthersStay(t) /\ UNCHANGED claimVars
    BY <1>1, Constants, ReaderFrame DEF Step
  <2>2. \A q \in Producers : Held(q)' = Held(q)
    BY <1>1, <2>1, Constants, ClaimsFrame DEF OthersStay, Still
  <2> QED
    BY <2>1, <2>2 DEF EntriesGrow, claimVars, TypeOK
<1>2. CASE t \in Producers
  <2>0. ClaimFetchAdd(t) \/ TryClaimBegin(t) \/ ProducerWorks(t)
    BY <1>2, Constants DEF Step
  <2>1. \A q \in Producers \ {t} : Held(q)' = Held(q)
    BY <1>2, <2>0, OthersHold
  <2>2. CASE Publish(t)
    <3>1. /\ pc[t] = "publish" /\ idx[t] < size[t]
          /\ sequence[t] \in Int /\ size[t] \in Nat /\ idx[t] \in Nat
      BY <1>2, <2>2 DEF Publish, SafetyInv, LimitInv, ProducerKnows, TypeOK
    <3>s. PICK s \in Int : s = sequence[t] + idx[t]
      BY <3>1
    <3>2. s \in Held(t) /\ s \in Int /\ Slot(s) \in Slots
      BY <3>1, <3>s, SlotType DEF Held, RangeLast, RangeEnd
    <3>3. m_published' = [m_published EXCEPT ![Slot(s)] = s]
      BY <2>2, <3>s DEF Publish, set_published, RangeAt
    <3>4. \/ idx[t] + 1 = size[t] /\ pc'[t] = "idle"
          \/ /\ idx[t] + 1 < size[t] /\ pc'[t] = "publish" /\ idx'[t] = idx[t] + 1
             /\ sequence'[t] = sequence[t] /\ size'[t] = size[t]
      BY <3>1, <2>2 DEF Publish, Goto, Again, TypeOK
    <3>5. Held(t)' = Held(t) \ {s}
      BY <3>1, <3>4, <3>s DEF Held, RangeLast, RangeEnd
    <3>6. m_published[Slot(s)] = s - BufferSize
      BY <1>2, <3>2, EntryBeforePublish
    <3>7. EntriesGrow
      BY <3>2, <3>3, <3>6, Constants DEF EntriesGrow, TypeOK
    <3>8. Published(s)'
      <4>1. m_published'[Slot(s)] = s
        BY <3>2, <3>3 DEF TypeOK
      <4> QED
        BY <3>2, <4>1 DEF Published
    <3> QED
      BY <2>1, <3>1, <3>5, <3>7, <3>8
  <2>3. CASE WriteItem(t)
    <3>1. /\ pc[t] = "write" /\ sequence[t] \in Int /\ size[t] \in Nat
          /\ UNCHANGED claimVars
      BY <1>2, <2>3 DEF WriteItem, TypeOK
    <3>2. pc'[t] = "write" \/ (pc'[t] = "publish" /\ idx'[t] = 0)
      BY <2>3 DEF WriteItem, Goto, Again, TypeOK
    <3>3. Held(t)' = Held(t)
      <4>1. sequence'[t] = sequence[t] /\ size'[t] = size[t]
        BY <3>1 DEF claimVars
      <4> QED
        BY <3>1, <3>2, <4>1 DEF Held, RangeLast, RangeEnd
    <3> QED
      BY <2>1, <3>1, <3>3 DEF EntriesGrow, claimVars, TypeOK
  <2>4. CASE ~Publish(t) /\ ~WriteItem(t)
    <3>1. /\ pc[t] \in {"idle", "claimWait", "tryScan", "tryLoad", "tryCas", "timedWait"}
          /\ UNCHANGED m_published
      BY <2>0, <2>4
         DEF ProducerWorks, ClaimFetchAdd, TryClaimBegin, ClaimWait, TryClaimScan,
             TryClaimLoad, TryClaimCas, TryClaimTimedWait
    <3>2. Held(t) = {}
      BY <3>1 DEF Held
    <3> QED
      BY <2>1, <3>1, <3>2 DEF EntriesGrow, TypeOK
  <2> QED
    BY <2>2, <2>3, <2>4
<1> QED
  BY <1>1, <1>2, ThreadsAssumption

\* Which barrier a step stores to.
LEMMA BarrierStored ==
    ASSUME TypeOK, SafetyInv, NEW t \in Threads, Step(t), NEW c \in Consumers,
           m_lastPublished'[c] # m_lastPublished[c] \/ (c = t /\ pc[t] = "consumed")
    PROVE  c = t /\ pc[t] = "consumed" /\ m_lastPublished'[c] = available[c]
<1>1. t \in Consumers
  <2>1. CASE t \in Producers
    BY <2>1, Constants, ProducerStepFrame DEF Step
  <2> QED
    BY <2>1, ThreadsAssumption
<1>2. c = t
  BY <1>1, Constants, ReaderFrame DEF Step, OthersStay
<1>3. CASE PublishConsumed(t)
  BY <1>1, <1>2, <1>3, Constants DEF PublishConsumed, PublishBarrier, TypeOK
<1>4. CASE ~PublishConsumed(t)
  <2>1. UNCHANGED m_lastPublished /\ pc[t] # "consumed"
    BY <1>1, <1>4, Constants
       DEF Step, ReaderBegins, BeginWait, CheckPublished, AwaitPublished, NextSeq,
           LastPublishedAfter, ReaderAction, WaitUpstream, Rescan, ScanOn,
           BatchAvailable, WaitTimedOut, ReadItem, ConsumerWorks, barrierVars
  <2> QED
    BY <1>2, <2>1
<1> QED
  BY <1>3, <1>4

LEMMA CarriersStep ==
    ASSUME TypeOK, SafetyInv, OrderInv, NEW t \in Threads, Step(t), Ordered(t)
    PROVE  CarriersInv'
<1>0. AccessesInv /\ CarriersInv
  BY DEF OrderInv
<1>1. ASSUME NEW c \in Consumers
      PROVE  Covers(barrierCarries'[c], Accesses', Chain(c), m_lastPublished'[c])
  <2>0. c \in Barriers /\ c \in Threads /\ m_lastPublished[c] \in Int
    BY Constants DEF TypeOK
  <2>1. CASE c = t /\ pc[t] = "consumed"
    <3>1. m_lastPublished'[c] = available[c]
      BY <2>1, BarrierStored
    <3>2. barrierCarries'[c] = before[c]
      BY <1>0, <2>0, <2>1 DEF Ordered, Released, AccessesInv
    <3>3. Accesses' = Accesses
      <4>1. Accessed(t) = {}
        BY <2>1 DEF Accessed
      <4> QED
        BY <1>0, <4>1, AccessesGrow
    <3>4. Covers(before[c], Accesses, Ancestors[c], available[c])
      BY <2>1 DEF OrderInv, ReaderLearnt, Knows
    <3>5. ASSUME NEW a \in Accesses, a.by = c PROVE a \in before[c]
      BY <1>0, <3>5 DEF AccessesInv
    <3>6. Covers(before[c], Accesses, Chain(c), available[c])
      BY <3>4, <3>5 DEF Covers, Chain
    <3> QED
      BY <3>1, <3>2, <3>3, <3>6
  <2>2. CASE ~(c = t /\ pc[t] = "consumed")
    <3>1. m_lastPublished'[c] = m_lastPublished[c]
      BY <2>2, BarrierStored
    <3>2. barrierCarries'[c] = barrierCarries[c]
      BY <1>0, <2>0, <2>2 DEF Ordered, Released, AccessesInv
    <3>3. Settled(Chain(c), m_lastPublished[c])
      BY <2>0, SettledBelow
    <3>4. Covers(barrierCarries[c], Accesses, Chain(c), m_lastPublished[c])
      BY <1>0 DEF CarriersInv, Knows
    <3>5. Covers(barrierCarries[c], Accesses', Chain(c), m_lastPublished[c])
      BY <1>0, <3>3, <3>4, OthersKnow
    <3> QED
      BY <3>1, <3>2, <3>5
  <2> QED
    BY <2>1, <2>2
<1>2. ASSUME NEW k \in Slots, NEW a \in Accesses', a.isWrite, Slot(a.seq) = k,
             a.seq <= m_published'[k]
      PROVE  a \in entryCarries'[k]
  <2>1. CASE pc[t] # "publish"
    <3>1. entryCarries' = entryCarries /\ m_published' = m_published
      BY <2>1, HeldOrPublished DEF Ordered, Released
    <3>2. a \notin Accessed(t)
      <4> SUFFICES ASSUME a \in Accessed(t) PROVE FALSE
        OBVIOUS
      <4>1. t \in Producers /\ a.seq \in Held(t)
        BY <1>0, <1>2, NewAccess
      <4>2. ~Published(a.seq)
        BY <4>1, HeldType DEF SafetyInv, ClaimInv
      <4> QED
        BY <1>2, <3>1, <4>2 DEF Published
    <3>3. a \in Accesses
      BY <1>0, <3>2, AccessesGrow
    <3> QED
      BY <1>0, <1>2, <3>1, <3>3 DEF CarriersInv
  <2>2. CASE pc[t] = "publish"
    <3> DEFINE s == RangeAt(sequence[t], idx[t])
    <3>1. t \in Producers /\ Publish(t)
      <4>1. t \in Producers
        BY <2>2, StepPlaces, ThreadsAssumption
      <4> QED
        BY <2>2, <4>1, Constants
           DEF Step, ProducerWorks, ClaimFetchAdd, TryClaimBegin, ClaimWait,
               TryClaimScan, TryClaimLoad, TryClaimCas, TryClaimTimedWait, WriteItem
    <3>2. /\ idx[t] < size[t] /\ BufferSize \in Nat \ {0}
          /\ sequence[t] \in Int /\ size[t] \in Nat /\ idx[t] \in Nat
      BY <2>2, <3>1, Constants DEF SafetyInv, LimitInv, ProducerKnows, TypeOK
    <3>3. s \in Held(t) /\ s \in Int /\ Slot(s) \in Slots
      BY <2>2, <3>2, SlotType DEF Held, RangeAt, RangeLast, RangeEnd
    <3>4. /\ m_published' = [m_published EXCEPT ![Slot(s)] = s]
          /\ entryCarries' = [entryCarries EXCEPT ![Slot(s)] = before[t]]
      BY <2>2, <3>1 DEF Publish, set_published, Ordered, Released
    <3>5. a \in Accesses
      <4>1. Accessed(t) = {}
        BY <2>2 DEF Accessed
      <4> QED
        BY <1>0, <4>1, AccessesGrow
    <3>6. s <= RangeLast(sequence[t], size[t])
      BY <3>2 DEF RangeAt, RangeLast, RangeEnd
    <3>7. RangeLast(sequence[t], size[t]) \in Int
      BY <3>2 DEF RangeLast, RangeEnd
    <3> HIDE DEF s
    <3>8. CASE k # Slot(s)
      <4>1. m_published'[k] = m_published[k] /\ entryCarries'[k] = entryCarries[k]
        BY <1>0, <3>4, <3>8 DEF TypeOK, AccessesInv
      <4> QED
        BY <1>0, <1>2, <3>5, <4>1 DEF CarriersInv
    <3>9. CASE k = Slot(s)
      <4>1. m_published'[k] = s /\ entryCarries'[k] = before[t]
        BY <1>0, <3>3, <3>4, <3>9 DEF TypeOK, AccessesInv
      <4>2. a.seq \in Int
        BY <1>0, <3>5, AccessesTypes DEF AccessType
      <4>3. CASE a.seq = s
        <5>1. ~Published(s)
          BY <3>1, <3>3, HeldType DEF SafetyInv, ClaimInv
        <5>2. a.by \in Producers /\ s \in Held(a.by) /\ a \in before[a.by]
          BY <1>0, <3>5, <4>3, <5>1 DEF AccessesInv
        <5>3. a.by = t
          <6>1. s \in Reserved(t) /\ s \in Reserved(a.by)
            BY <3>1, <3>3, <5>2, HeldType
          <6> QED
            BY <3>1, <5>2, <6>1 DEF SafetyInv, OwnersInv
        <5> QED
          BY <4>1, <5>2, <5>3
      <4>4. CASE a.seq # s
        <5>1. a.seq < s
          BY <1>2, <3>3, <4>1, <4>2, <4>4
        <5>2. a.seq + BufferSize <= s
          BY <1>2, <3>3, <3>9, <4>2, <5>1, SlotApart
        <5>3. a.seq <= RangeLast(sequence[t], size[t]) - BufferSize
          BY <3>2, <3>3, <3>6, <3>7, <4>2, <5>2
        <5> QED
          BY <1>2, <2>2, <3>1, <3>5, <4>1, <5>3 DEF OrderInv, ProducerLearnt, Knows, Covers
      <4> QED
        BY <4>3, <4>4
    <3> QED
      BY <3>8, <3>9
  <2> QED
    BY <2>1, <2>2
<1> QED
  BY <1>1, <1>2 DEF CarriersInv, Knows

LEMMA AccessesStep ==
    ASSUME TypeOK, TypeOK', SafetyInv, OrderInv, NEW t \in Threads, Step(t), Ordered(t),
           t \in Producers => pc'[t] # "read", t \in Consumers => pc'[t] # "write"
    PROVE  AccessesInv'
<1>0. AccessesInv
  BY DEF OrderInv
<1>1. \A u \in Threads \ {t} : Still(u)
  BY ThreadsAssumption, ProducerStepFrame, ReaderFrame DEF Step, OthersStay
<1>2. /\ \A p \in Producers : pc'[p] # "read"
      /\ \A c \in Consumers : pc'[c] # "write"
  BY <1>0, <1>1, Constants DEF AccessesInv, Still
<1>3. /\ Accesses' = Accesses \cup Accessed(t)
      /\ before'[t] = before[t] \cup Acquired(t) \cup Accessed(t)
      /\ \A u \in Threads : before[u] \subseteq before'[u]
      /\ before' \in [Threads -> SUBSET Accesses']
  BY <1>0, AccessesGrow
<1>4. Accesses' \subseteq AccessType
  BY <1>0, <1>3, AccessesTypes, NewAccess
<1>5. before' \in [Threads -> SUBSET AccessType]
  BY <1>3, <1>4
<1>6. barrierCarries' \in [Barriers -> SUBSET Accesses']
  <2>1. barrierCarries \in [Barriers -> SUBSET Accesses'] /\ before[t] \subseteq Accesses'
    BY <1>0, <1>3, AccessesTypes DEF AccessesInv
  <2> QED
    BY <2>1 DEF Ordered, Released
<1>7. entryCarries' \in [Slots -> SUBSET Accesses']
  <2>1. entryCarries \in [Slots -> SUBSET Accesses'] /\ before[t] \subseteq Accesses'
    BY <1>0, <1>3, AccessesTypes DEF AccessesInv
  <2> QED
    BY <2>1 DEF Ordered, Released
<1>8. ASSUME NEW a \in Accesses'
      PROVE  /\ a \in before'[a.by]
             /\ a.isWrite \/ a.by \in Consumers
             /\ \/ Published(a.seq)'
                \/ a.isWrite /\ a.by \in Producers /\ a.seq \in Held(a.by)'
  <2>1. a \in AccessType /\ a.seq \in Int /\ a.by \in Threads
    BY <1>4 DEF AccessType
  <2>2. a \in before'[a.by]
    <3>1. CASE a \in Accesses
      BY <1>0, <1>3, <2>1, <3>1 DEF AccessesInv
    <3>2. CASE a \in Accessed(t)
      BY <1>0, <1>3, <3>2, NewAccess
    <3> QED
      BY <1>3, <3>1, <3>2
  <2>3. /\ a.isWrite \/ a.by \in Consumers
        /\ \/ Published(a.seq)
           \/ a.isWrite /\ a.by \in Producers /\ a.seq \in Held(a.by)
    <3>1. CASE a \in Accesses
      BY <1>0, <3>1 DEF AccessesInv
    <3>2. CASE a \in Accessed(t)
      BY <1>0, <3>2, NewAccess
    <3> QED
      BY <1>3, <3>1, <3>2
  <2>4. Published(a.seq) => Published(a.seq)'
    BY <2>1, HeldOrPublished, PublishedStays
  <2>5. ASSUME a.by \in Producers, a.seq \in Held(a.by)
        PROVE  a.seq \in Held(a.by)' \/ Published(a.seq)'
    BY <2>5, HeldOrPublished
  <2> QED
    BY <2>2, <2>3, <2>4, <2>5
<1> QED
  BY <1>2, <1>5, <1>6, <1>7, <1>8 DEF AccessesInv

-----------------------------------------------------------------------------
\* A step of one thread.
LEMMA OrderStep ==
    ASSUME TypeOK, TypeOK', SafetyInv, ActiveWindow, OrderInv, NEW t \in Threads,
           Step(t), Ordered(t)
    PROVE  OrderInv'
<1>0. AccessesInv
  BY DEF OrderInv
<1>1. OthersStay(t)
  BY ThreadsAssumption, ProducerStepFrame, ReaderFrame DEF Step
<1>2. t \in Producers => pc'[t] # "read" /\ ProducerLearnt(t)'
  BY ProducerLearns
<1>3. t \in Consumers => pc'[t] # "write" /\ ReaderLearnt(t)'
  BY ReaderLearns
<1>4. ASSUME NEW p \in Producers PROVE ProducerLearnt(p)'
  <2>1. CASE p = t
    BY <1>2, <2>1
  <2>2. CASE p # t
    <3>1. /\ Still(p) /\ sequence'[p] = sequence[p] /\ size'[p] = size[p]
          /\ published'[p] = published[p] /\ ProducerLearnt(p)
      BY <1>1, <2>2, Constants DEF OthersStay, OrderInv
    <3> QED
      BY <1>0, <3>1, ProducerLearntStays
  <2> QED
    BY <2>1, <2>2
<1>5. ASSUME NEW c \in Consumers PROVE ReaderLearnt(c)'
  <2>1. CASE c = t
    BY <1>3, <2>1
  <2>2. CASE c # t
    <3>1. /\ Still(c) /\ m_lastPublished'[c] = m_lastPublished[c]
          /\ target'[c] = target[c] /\ seq'[c] = seq[c] /\ available'[c] = available[c]
          /\ ReaderLearnt(c)
      BY <1>1, <2>2, Constants DEF OthersStay, OrderInv
    <3> QED
      BY <1>0, <3>1, ReaderLearntStays
  <2> QED
    BY <2>1, <2>2
<1>6. AccessesInv' /\ CarriersInv'
  BY <1>2, <1>3, AccessesStep, CarriersStep
<1> QED
  BY <1>4, <1>5, <1>6 DEF OrderInv

\* A call that begins loads and accesses nothing.
LEMMA BeginIsOrdered ==
    ASSUME OrderInv, NEW t \in Threads, pc[t] = "idle", UNCHANGED orderVars
    PROVE  Ordered(t)
<1>1. Acquired(t) = {} /\ Accessed(t) = {}
  BY DEF Acquired, Accessed
<1>2. before \in [Threads -> SUBSET AccessType]
  BY DEF OrderInv, AccessesInv
<1> QED
  BY <1>1, <1>2 DEF Ordered, Released, orderVars

LEMMA OrderStutters ==
    ASSUME OrderInv, UNCHANGED <<vars, orderVars>>
    PROVE  OrderInv'
<1> USE DEF vars, orderVars, barrierVars, readerVars, claimVars
<1>1. Accesses' = Accesses
  BY DEF Accesses
<1>2. \A q \in Producers : Held(q)' = Held(q)
  BY ClaimsFrame
<1>3. \A s : Published(s)' = Published(s)
  BY DEF Published
<1>4. AccessesInv'
  BY <1>1, <1>2, <1>3 DEF OrderInv, AccessesInv
<1>5. CarriersInv'
  BY <1>1 DEF OrderInv, CarriersInv, Knows
<1>6. ASSUME NEW c \in Consumers PROVE ReaderLearnt(c)'
  BY <1>1 DEF OrderInv, ReaderLearnt, Knows
<1>7. ASSUME NEW p \in Producers PROVE ProducerLearnt(p)'
  BY <1>1 DEF OrderInv, ProducerLearnt, Knows
<1> QED
  BY <1>4, <1>5, <1>6, <1>7 DEF OrderInv

LEMMA OrderNext ==
    ASSUME TypeOK, TypeOK', SafetyInv, ActiveWindow, OrderInv,
           [OrderedNext]_<<vars, orderVars>>
    PROVE  OrderInv'
<1>1. ASSUME NEW t \in Threads, OrderedStep(t) PROVE OrderInv'
  <2>1. Step(t) /\ Ordered(t)
    BY <1>1 DEF OrderedStep, Step, Ordered
  <2> QED
    BY <2>1, OrderStep
<1>2. ASSUME NEW p \in Producers, ClaimFetchAdd(p) \/ TryClaimBegin(p), UNCHANGED orderVars
      PROVE  OrderInv'
  <2>1. p \in Threads /\ pc[p] = "idle" /\ Step(p)
    BY <1>2, Constants DEF ClaimFetchAdd, TryClaimBegin, Step
  <2> QED
    BY <1>2, <2>1, BeginIsOrdered, OrderStep
<1>3. ASSUME NEW c \in Consumers, ReaderBegins(c), UNCHANGED orderVars
      PROVE  OrderInv'
  <2>1. c \in Threads /\ pc[c] = "idle" /\ Step(c)
    BY <1>3, Constants DEF ReaderBegins, BeginWait, Step
  <2> QED
    BY <1>3, <2>1, BeginIsOrdered, OrderStep
<1>4. CASE UNCHANGED <<vars, orderVars>>
  BY <1>4, OrderStutters
<1> QED
  BY <1>1, <1>2, <1>3, <1>4 DEF OrderedNext, Terminated

LEMMA OrderHoldsAtInit == Init /\ OrderInit => OrderInv
<1> SUFFICES ASSUME Init, OrderInit PROVE OrderInv
  OBVIOUS
<1> USE DEF Init, OrderInit, BarriersInit, ReadersInit
<1>1. Accesses = {}
  BY DEF Accesses
<1>2. AccessesInv
  BY <1>1, Constants DEF AccessesInv
<1>3. CarriersInv
  BY <1>1 DEF CarriersInv, Knows, Covers
<1>4. \A c \in Consumers : ReaderLearnt(c)
  BY <1>1, Constants DEF ReaderLearnt, Knows, Covers
<1>5. \A p \in Producers : ProducerLearnt(p)
  BY <1>1, Constants DEF ProducerLearnt, Knows, Covers
<1> QED
  BY <1>2, <1>3, <1>4, <1>5 DEF OrderInv

\* The memory orders only add to what a step does.
LEMMA OrderedIsSpec == OrderedSpec => Spec
<1>1. OrderedNext => Next
  BY ThreadsAssumption DEF OrderedNext, OrderedStep, Next
<1>2. [OrderedNext]_<<vars, orderVars>> => [Next]_vars
  BY <1>1
<1> QED
  BY <1>2, PTL DEF OrderedSpec, Spec

-----------------------------------------------------------------------------
\* A producer about to write knows of every access to the slot's earlier laps, and
\* there are no others; a reader about to read knows of every write of its sequence
\* and of the laps before, and the next lap's is still to come.
LEMMA InvImpliesNoDataRace ==
    ASSUME TypeOK, SafetyInv, OrderInv
    PROVE  NoDataRace
<1> SUFFICES ASSUME NEW t \in Threads, NEW mine \in Accessed(t), NEW other \in Accesses,
                    Slot(other.seq) = Slot(mine.seq), other.isWrite \/ mine.isWrite
             PROVE  other \in before[t]
  BY DEF NoDataRace
<1> DEFINE s == mine.seq
           o == other.seq
<1>0. AccessesInv /\ BufferSize \in Nat \ {0}
  BY Constants DEF OrderInv
<1>1. /\ mine \in AccessType /\ mine.by = t /\ s \in Int
      /\ mine.isWrite => t \in Producers /\ s \in Held(t)
      /\ ~mine.isWrite => /\ t \in Consumers /\ Published(s)
                          /\ s > m_lastPublished[t]
                          /\ pc[t] = "read" /\ s = nextToRead[t]
  BY <1>0, NewAccess DEF AccessType
<1>2. /\ o \in Int /\ other.by \in Threads /\ other \in before[other.by]
      /\ \/ Published(o)
         \/ other.isWrite /\ other.by \in Producers /\ o \in Held(other.by)
  BY <1>0, AccessesTypes DEF AccessType, AccessesInv
<1>a. Slot(o) = Slot(s) /\ Slot(s) \in Slots
  BY <1>1, SlotType
<1>3. CASE mine.isWrite
  <2>1. t \in Producers /\ s \in Held(t) /\ ~Published(s)
    BY <1>1, <1>3, HeldType DEF SafetyInv, ClaimInv
  <2>2. CASE Published(o)
    <3>0. m_published[Slot(s)] \in Int
      BY <1>a DEF TypeOK
    <3>1. o < s
      BY <1>1, <1>2, <1>a, <2>1, <2>2, <3>0 DEF Published
    <3>2. o + BufferSize <= s
      BY <1>1, <1>2, <1>a, <3>1, SlotApart
    <3>3. other.isWrite \/ other.by \in Consumers
      BY <1>0 DEF AccessesInv
    <3>4. pc[t] = "write" /\ idx[t] < size[t] /\ s = sequence[t] + idx[t]
      BY <1>0, <1>3, <2>1, NewWrite
    <3>5. sequence[t] \in Int /\ size[t] \in Nat /\ idx[t] \in Nat
      BY <2>1, HeldType
    <3>6. o <= RangeLast(sequence[t], size[t]) - BufferSize
      BY <1>0, <1>1, <1>2, <3>2, <3>4, <3>5 DEF RangeLast, RangeEnd
    <3> QED
      BY <2>1, <3>3, <3>4, <3>6 DEF OrderInv, ProducerLearnt, Knows, Covers
  <2>3. CASE other.by \in Producers /\ o \in Held(other.by)
    <3>1. o = s
      BY <1>a, <2>1, <2>3, HeldSlotsDistinct
    <3>2. s \in Reserved(t) /\ s \in Reserved(other.by)
      BY <2>1, <2>3, <3>1, HeldType
    <3>3. other.by = t
      BY <2>1, <2>3, <3>2 DEF SafetyInv, OwnersInv
    <3> QED
      BY <1>2, <3>3
  <2> QED
    BY <1>2, <2>2, <2>3
<1>4. CASE ~mine.isWrite
  <2>1. /\ t \in Consumers /\ s > m_lastPublished[t] /\ pc[t] = "read"
        /\ s = nextToRead[t] /\ other.isWrite
    BY <1>1, <1>4
  <2>2. /\ m_lastPublished[t] \in Int /\ available[t] \in Int /\ s <= available[t]
        /\ m_published[Slot(s)] \in Int
    BY <1>a, <2>1, Constants DEF TypeOK, SafetyInv, ReaderInv, ReaderKnows
  <2>3. o <= m_lastPublished[t] + BufferSize
    <3>1. CASE Published(o)
      <4>1. m_published[Slot(s)] <= m_lastPublished[t] + BufferSize
        BY <1>a, <2>1 DEF SafetyInv, EntriesInv
      <4> HIDE DEF s, o
      <4> QED
        BY <1>0, <1>2, <1>a, <2>2, <3>1, <4>1 DEF Published
    <3>2. CASE other.by \in Producers /\ o \in Held(other.by)
      BY <2>1, <3>2, HeldWindow
    <3> QED
      BY <1>2, <3>1, <3>2
  <2>4. s < o => s + BufferSize <= o
    BY <1>1, <1>2, <1>a, SlotApart
  <2> HIDE DEF s, o
  <2>5. o <= available[t]
    BY <1>0, <1>1, <1>2, <2>1, <2>2, <2>3, <2>4
  <2> QED
    BY <2>1, <2>5 DEF OrderInv, ReaderLearnt, Knows, Covers, o
<1> QED
  BY <1>3, <1>4

\* Every value in shared memory carries the accesses it vouches for and every thread
\* has acquired those that precede the elements it goes on to access, whatever the
\* interleaving of the loads and stores of multi_threaded_claim_strategy.
THEOREM OrderIsKept == OrderedSpec /\ []ActiveWindow => []OrderInv
<1>1. TypeOK /\ TypeOK' /\ SafetyInv /\ ActiveWindow /\ OrderInv
         /\ [OrderedNext]_<<vars, orderVars>> => OrderInv'
  BY OrderNext
<1> QED
  BY <1>1, OrderHoldsAtInit, OrderedIsSpec, Safety, TypeCorrectness, PTL DEF OrderedSpec

\* No write of an element races with a read or a write of it, for any number of
\* producers and readers, any buffer size and any topology of barriers: the acquire
\* loads of is_published and of the barriers and the release stores of set_published
\* and sequence_barrier::publish are enough, with the claim counter relaxed.
THEOREM NoElementRaces == OrderedSpec /\ []ActiveWindow => []NoDataRace
<1>1. TypeOK /\ SafetyInv /\ OrderInv => NoDataRace
  BY InvImpliesNoDataRace
<1> QED
  BY <1>1, OrderIsKept, OrderedIsSpec, Safety, TypeCorrectness, PTL

=============================================================================
