------------------------ MODULE PublicationInvariant ------------------------
(***************************************************************************)
(* The inductive invariant behind the freedom from data races of           *)
(* PublicationOrder: which accesses to elements happen before the value of *)
(* a barrier, the value of an entry of m_published, and a thread's next    *)
(* step at each point of the code.                                         *)
(***************************************************************************)
EXTENDS PublicationOrder, MultiThreadedInvariant

AccessType == [by : Threads, isWrite : BOOLEAN, seq : Int]

\* S has all the writes of A, and all its reads by readers, of sequences up to x.
Covers(S, A, readers, x) ==
    \A a \in A : (a.isWrite \/ a.by \in readers) /\ a.seq <= x => a \in S

\* S has those of all the accesses so far.
Knows(S, readers, x) == Covers(S, Accesses, readers, x)

\* The reader whose barrier b is, and those it waits for.
Chain(b) == {b} \cup Ancestors[b]

\* Only producers write and only readers read.  Threads know their own accesses; what
\* has been read is published, and what has been written is published or still held
\* by its writer.
AccessesInv ==
    /\ \A p \in Producers : pc[p] # "read"
    /\ \A c \in Consumers : pc[c] # "write"
    /\ before \in [Threads -> SUBSET AccessType]
    /\ barrierCarries \in [Barriers -> SUBSET Accesses]
    /\ entryCarries \in [Slots -> SUBSET Accesses]
    /\ \A a \in Accesses : /\ a \in before[a.by]
                           /\ a.isWrite \/ a.by \in Consumers
                           /\ \/ Published(a.seq)
                              \/ a.isWrite /\ a.by \in Producers /\ a.seq \in Held(a.by)

\* Whoever loads a barrier learns of all accesses that its value vouches for, and
\* whoever loads an entry of all writes of its slot.
CarriersInv ==
    /\ \A c \in Consumers : Knows(barrierCarries[c], Chain(c), m_lastPublished[c])
    /\ \A k \in Slots : \A a \in Accesses :
          a.isWrite /\ Slot(a.seq) = k /\ a.seq <= m_published[k] => a \in entryCarries[k]

\* What a reader has learnt from the entries or the barriers it has loaded.
ReaderLearnt(c) ==
    /\ Knows(before[c], Ancestors[c], m_lastPublished[c])
    /\ pc[c] \in {"check", "await", "after"} => Knows(before[c], {}, seq[c] - 1)
    /\ pc[c] = "upstream" => \A i \in 1 .. idx[c] :
          Knows(before[c], Chain(Upstream[c][i]), target[c] + acc[c])
    /\ pc[c] \in {"read", "consumed"} => Knows(before[c], Ancestors[c], available[c])

\* What a producer has learnt from the claim barrier.
ProducerLearnt(p) ==
    /\ pc[p] = "claimWait" => \A i \in 1 .. idx[p] :
          Knows(before[p], Chain(ClaimBarriers[i]),
                ClaimFloor(sequence[p], size[p]) + acc[p])
    /\ pc[p] = "timedWait" => \A i \in 1 .. idx[p] :
          Knows(before[p], Chain(ClaimBarriers[i]), sequence[p] - BufferSize + acc[p])
    /\ pc[p] = "tryScan" => \A i \in 1 .. idx[p] :
          Knows(before[p], Chain(ClaimBarriers[i]), acc[p])
    /\ pc[p] \in {"tryLoad", "tryCas"} =>
          Knows(before[p], Consumers, published[p] - BufferSize)
    /\ pc[p] \in {"write", "publish"} =>
          Knows(before[p], Consumers, RangeLast(sequence[p], size[p]) - BufferSize)

\* The inductive invariant, together with SafetyInv: every value in shared memory
\* carries the accesses it vouches for, and every thread has acquired those that
\* precede the elements it goes on to access.
OrderInv ==
    /\ AccessesInv
    /\ CarriersInv
    /\ \A c \in Consumers : ReaderLearnt(c)
    /\ \A p \in Producers : ProducerLearnt(p)

=============================================================================
