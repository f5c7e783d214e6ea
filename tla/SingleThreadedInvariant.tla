---------------------- MODULE SingleThreadedInvariant ----------------------
(***************************************************************************)
(* The inductive invariant behind the safety of                            *)
(* SingleThreadedClaimStrategy.  All cursors of the system lie within one  *)
(* lap of each other, in a fixed order: the readers', the read barrier's   *)
(* and the producer's.  So words never get far enough apart for difference *)
(* to take one for the other side of the wrap, whoever sleeps how long.    *)
(***************************************************************************)
EXTENDS SingleThreadedClaimStrategy

\* Where the producer and where the readers can be.
PlacesInv ==
    /\ \A p \in Producers :
          pc[p] \in {"idle", "claimWait", "tryScan", "timedWait", "write", "publish"}
    /\ \A c \in Consumers : pc[c] \in {"idle", "upstream", "read", "consumed"}

\* A reader is behind the barriers it waits for and those before them, all are
\* behind the read barrier, and the producer is at most a lap ahead of any.
BarriersInv ==
    \A c \in Consumers :
        /\ m_lastPublished[c] >= -1
        /\ m_lastPublished[c] <= m_lastPublished[ReadBarrier]
        /\ \A b \in Elems(Upstream[c]) : m_lastPublished[c] <= m_lastPublished[b]
        /\ \A d \in Ancestors[c] : m_lastPublished[c] <= m_lastPublished[d]
        /\ m_nextSequenceToClaim <= m_lastPublished[c] + BufferSize + 1

\* What a reader knows: that its next sequence follows the last one it published,
\* that the barriers it has loaded had reached its target, that its batch is there.
ReaderKnows(c) ==
    /\ pc[c] \in {"idle", "upstream"} => nextToRead[c] = m_lastPublished[c] + 1
    /\ pc[c] = "upstream" =>
          /\ target[c] >= nextToRead[c]
          /\ target[c] <= m_lastPublished[c] + BufferSize
          /\ ScannedSoFar(c, Upstream[c], target[c])
    /\ pc[c] \in {"read", "consumed"} =>
          /\ m_lastPublished[c] < nextToRead[c]
          /\ available[c] <= m_lastPublished[ReadBarrier]
          /\ \A b \in Elems(Upstream[c]) : available[c] <= m_lastPublished[b]
          /\ \A d \in Ancestors[c] : available[c] <= m_lastPublished[d]
    /\ pc[c] = "read" => nextToRead[c] <= available[c]
    /\ pc[c] = "consumed" => nextToRead[c] = available[c] + 1

ReaderInv == \A c \in Consumers : ReaderKnows(c)

\* What the producer knows: that it has published all it has claimed but the range
\* it holds, and what its scan of the claim barrier has shown so far.
ProducerKnows(p) ==
    /\ pc[p] \in {"write", "publish"} =>
          /\ sequence = m_lastPublished[ReadBarrier] + 1
          /\ m_nextSequenceToClaim = sequence + size
          /\ idx[p] < size
    /\ pc[p] \notin {"write", "publish"} =>
          m_nextSequenceToClaim = m_lastPublished[ReadBarrier] + 1
    /\ pc[p] \in {"claimWait", "timedWait"} =>
          ScannedSoFar(p, ClaimBarriers, ClaimFloor)
    /\ pc[p] = "tryScan" =>
          /\ \A i \in 1 .. idx[p] : acc[p] <= m_lastPublished[ClaimBarriers[i]]
          /\ idx[p] > 0 => m_nextSequenceToClaim - BufferSize - 1 <= acc[p]

ProducerInv == \A p \in Producers : ProducerKnows(p)

\* A published item stays in its slot until the next lap's sequence is claimed,
\* and what the producer has written of its range is there.
ItemsInv ==
    /\ \A s \in 0 .. m_lastPublished[ReadBarrier] :
          m_nextSequenceToClaim <= s + BufferSize => buffer[Slot(s)] = s
    /\ \A p \in Producers :
          /\ pc[p] = "write" => \A i \in 0 .. idx[p] - 1 :
                buffer[Slot(RangeAt(sequence, i))] = RangeAt(sequence, i)
          /\ pc[p] = "publish" => \A i \in 0 .. size - 1 :
                buffer[Slot(RangeAt(sequence, i))] = RangeAt(sequence, i)

\* The inductive invariant: how the producer's counter, the read barrier, the
\* readers' barriers and the threads' locals stand to each other between any two
\* accesses to shared memory.
SafetyInv ==
    /\ PlacesInv
    /\ BarriersInv
    /\ ReaderInv
    /\ ProducerInv
    /\ ItemsInv

=============================================================================
