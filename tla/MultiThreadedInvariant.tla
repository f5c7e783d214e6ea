----------------------- MODULE MultiThreadedInvariant -----------------------
(***************************************************************************)
(* The inductive invariant behind the safety of MultiThreadedClaimStrategy:*)
(* what each thread knows at each point of the code, and how the claimed   *)
(* sequences, the entries of m_published and the readers' barriers stand   *)
(* to each other.                                                          *)
(***************************************************************************)
EXTENDS MultiThreadedClaimStrategy

\* s, or a later sequence of the same slot, has been published.
Published(s) == m_published[Slot(s)] >= s

PublishedUpTo(x) == \A s \in -BufferSize .. x : Published(s)

\* An entry of m_published is a claimed sequence of its own slot, at most a lap
\* ahead of every reader.
EntriesInv ==
    \A k \in Slots :
        /\ Slot(m_published[k]) = k
        /\ m_published[k] < m_nextClaimable
        /\ \A c \in Consumers : m_published[k] <= m_lastPublished[c] + BufferSize

\* A reader is behind the readers it waits for, and all are behind the gaps.
BarriersInv ==
    \A c \in Consumers :
        /\ m_lastPublished[c] >= -1
        /\ PublishedUpTo(m_lastPublished[c])
        /\ \A d \in Ancestors[c] : m_lastPublished[c] <= m_lastPublished[d]

\* What a reader knows: that its next sequence follows the last one it published,
\* that what it has passed is published, that its batch is.
ReaderKnows(c) ==
    /\ pc[c] \notin {"read", "consumed"} => nextToRead[c] = m_lastPublished[c] + 1
    /\ pc[c] = "upstream" =>
          /\ target[c] >= nextToRead[c]
          /\ target[c] <= m_lastPublished[c] + BufferSize
          /\ ScannedSoFar(c, Upstream[c], target[c])
    /\ pc[c] \in {"check", "await", "after"} =>
          /\ Upstream[c] = <<>>
          /\ seq[c] >= nextToRead[c]
          /\ PublishedUpTo(seq[c] - 1)
    /\ pc[c] = "after" => seq[c] > nextToRead[c]
    /\ pc[c] \in {"read", "consumed"} =>
          /\ m_lastPublished[c] < nextToRead[c]
          /\ PublishedUpTo(available[c])
          /\ \A d \in Ancestors[c] : available[c] <= m_lastPublished[d]
    /\ pc[c] = "read" => nextToRead[c] <= available[c]
    /\ pc[c] = "consumed" => nextToRead[c] = available[c] + 1

ReaderInv == \A c \in Consumers : ReaderKnows(c)

\* What a producer knows of the claim barrier while it scans it, and after.
ProducerKnows(p) ==
    /\ LimitIsSafe(p)
    /\ pc[p] = "claimWait" =>
          /\ sequence[p] + size[p] <= m_nextClaimable
          /\ ScannedSoFar(p, ClaimBarriers, ClaimFloor(sequence[p], size[p]))
    /\ pc[p] = "timedWait" =>
          ScannedSoFar(p, ClaimBarriers, sequence[p] - BufferSize)
    /\ pc[p] = "tryCas" => RangeLast(sequence[p], size[p]) <= published[p]
    /\ pc[p] \in {"tryCas", "timedWait"} => sequence[p] <= m_nextClaimable
    /\ pc[p] \in {"write", "publish"} => idx[p] < size[p]

LimitInv == \A p \in Producers : ProducerKnows(p)

\* Reserved sequences are claimed and not published; those a claim has returned
\* are at most a lap ahead of every reader.
ClaimInv ==
    \A p \in Producers :
        /\ \A s \in Reserved(p) : 0 <= s /\ s < m_nextClaimable /\ ~Published(s)
        /\ \A s \in Held(p), c \in Consumers : s <= m_lastPublished[c] + BufferSize

\* No sequence is reserved twice, and none is lost.
OwnersInv ==
    /\ \A p, q \in Producers : p # q => Reserved(p) \cap Reserved(q) = {}
    /\ \A s \in 0 .. m_nextClaimable - 1 :
          Published(s) \/ \E p \in Producers : s \in Reserved(p)

\* A published slot holds its item until a producer that has claimed the next
\* lap's sequence overwrites it; what that producer has written stays.
ItemsInv ==
    /\ \A k \in Slots :
          \/ m_published[k] < 0
          \/ buffer[k] = m_published[k]
          \/ \E p \in Producers : k \in SlotsOf(Held(p))
    /\ \A p \in Producers :
          /\ pc[p] = "write" => \A i \in 0 .. idx[p] - 1 :
                buffer[Slot(RangeAt(sequence[p], i))] = RangeAt(sequence[p], i)
          /\ pc[p] = "publish" => \A s \in Held(p) : buffer[Slot(s)] = s

\* The inductive invariant, as long as ActiveWindow holds: how the counter, the
\* entries of m_published, the barriers and the threads' locals stand to each
\* other between any two accesses to shared memory.
SafetyInv ==
    /\ m_nextClaimable >= 0
    /\ EntriesInv
    /\ BarriersInv
    /\ ReaderInv
    /\ LimitInv
    /\ ClaimInv
    /\ OwnersInv
    /\ ItemsInv

-----------------------------------------------------------------------------
\* The counter is in the first half of the words, less a lap: so it is in a program
\* that claims fewer than 2^63 - BufferSize - 1 sequences in all.
FewClaims == m_nextClaimable + BufferSize + 1 < HalfModulus

\* No word in use is older than the one the barriers start from.
WordsFromStart == \A x \in ActiveWords : x >= -1

=============================================================================
