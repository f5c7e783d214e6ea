--------------------------- MODULE SequenceLemmas ---------------------------
(***************************************************************************)
(* Facts about wrapping sequence numbers, ring buffer slots and scans that *)
(* both claim strategies rest on: within half the modulus, difference and  *)
(* == on words are those of the integers they stand for; within a lap every*)
(* sequence has a slot of its own; and what a scan of a group of barriers, *)
(* made load by load, has found stays true while the barriers move on.     *)
(***************************************************************************)
EXTENDS Readers, TLAPS

LEMMA DivMod ==
    ASSUME NEW n \in Nat \ {0}, NEW a \in Int
    PROVE  /\ a % n \in 0 .. n - 1
           /\ \E q \in Int : a = n * q + (a % n)
<1>1. a \div n \in Int /\ a = n * (a \div n) + (a % n)
  OBVIOUS
<1>2. \E q \in Int : a = n * q + (a % n)
  BY <1>1, Zenon
<1>3. a % n \in 0 .. n - 1
  OBVIOUS
<1> QED
  BY <1>2, <1>3

LEMMA ModUnique ==
    ASSUME NEW n \in Nat \ {0}, NEW q \in Int, NEW r \in 0 .. n - 1
    PROVE  (n * q + r) % n = r
OBVIOUS

\* Two different numbers with the same remainder are at least n apart.
LEMMA CongruentApart ==
    ASSUME NEW n \in Nat \ {0}, NEW a \in Int, NEW b \in Int, a % n = b % n, a < b
    PROVE  a + n <= b
<1> SUFFICES ASSUME b < a + n PROVE FALSE
  OBVIOUS
<1> DEFINE r == a % n
           d == b - a
<1>1. r \in 0 .. n - 1 /\ d \in 1 .. n - 1
  BY DivMod
<1>2. PICK q \in Int : a = n * q + r
  BY DivMod
<1>3. n * q \in Int /\ n * (q + 1) = n * q + n
  OBVIOUS
<1> HIDE DEF r, d
<1>4. b = n * q + (r + d) /\ b = n * (q + 1) + (r + d - n)
  BY <1>1, <1>2, <1>3 DEF d
<1>5. CASE r + d < n
  <2>1. b % n = r + d
    BY <1>1, <1>4, <1>5, ModUnique
  <2> QED
    BY <2>1, <1>1 DEF r
<1>6. CASE r + d >= n
  <2>1. b % n = r + d - n
    <3>1. q + 1 \in Int /\ r + d - n \in 0 .. n - 1
      BY <1>1, <1>6
    <3>2. (n * (q + 1) + (r + d - n)) % n = r + d - n
      BY <3>1, ModUnique
    <3> QED
      BY <3>2, <1>4
  <2> QED
    BY <2>1, <1>1 DEF r
<1> QED
  BY <1>1, <1>5, <1>6

\* Adding a lap does not change the remainder.
LEMMA ModShift ==
    ASSUME NEW n \in Nat \ {0}, NEW a \in Int
    PROVE  (a + n) % n = a % n
<1>1. PICK q \in Int : a = n * q + (a % n)
  BY DivMod
<1>2. a % n \in 0 .. n - 1
  BY DivMod
<1>3. n * (q + 1) = n * q + n /\ n * q \in Int
  OBVIOUS
<1>4. a + n = n * (q + 1) + (a % n)
  BY <1>1, <1>2, <1>3
<1>5. q + 1 \in Int
  OBVIOUS
<1>6. (n * (q + 1) + (a % n)) % n = a % n
  BY <1>2, <1>5, ModUnique
<1> QED
  BY <1>4, <1>6

-----------------------------------------------------------------------------
\* difference is subtraction as long as the words are less than half the
\* modulus apart.
LEMMA DifferenceExact ==
    ASSUME NEW a \in Int, NEW b \in Int, -HalfModulus <= a - b, a - b < HalfModulus
    PROVE  difference(a, b) = a - b
<1>1. HalfModulus \in Nat \ {0} /\ SeqModulus = 2 * HalfModulus
  BY HalfModulusAssumption DEF SeqModulus
<1>2. CASE a - b >= 0
  <2>1. (a - b) % SeqModulus = a - b
    BY <1>1, <1>2
  <2> QED
    BY <2>1, <1>2 DEF difference
<1>3. CASE a - b < 0
  <2>1. (a - b) % SeqModulus = a - b + SeqModulus
    BY <1>1, <1>3
  <2> QED
    BY <2>1, <1>1, <1>3 DEF difference
<1> QED
  BY <1>2, <1>3

\* Two words less than the modulus apart are equal only if they are the same
\* sequence: a slot's entry or the counter is not mistaken for another lap's.
LEMMA SameWordExact ==
    ASSUME NEW a \in Int, NEW b \in Int, -SeqModulus < a - b, a - b < SeqModulus
    PROVE  SameWord(a, b) <=> a = b
<1>1. SeqModulus \in Nat \ {0}
  BY HalfModulusAssumption DEF SeqModulus
<1>2. CASE a - b >= 0
  <2>1. (a - b) % SeqModulus = a - b
    BY <1>1, <1>2
  <2> QED
    BY <2>1 DEF SameWord
<1>3. CASE a - b < 0
  <2>1. (a - b) % SeqModulus = a - b + SeqModulus
    BY <1>1, <1>3
  <2> QED
    BY <2>1, <1>1, <1>3 DEF SameWord
<1> QED
  BY <1>2, <1>3

-----------------------------------------------------------------------------
\* operator[] and seq & m_indexMask select an element of the array.
LEMMA SlotType ==
    ASSUME NEW s \in Int
    PROVE  Slot(s) \in Slots
BY BufferSizeAssumption DEF Slot, Slots

\* Sequences of the same slot are a lap or more apart.
LEMMA SlotApart ==
    ASSUME NEW s \in Int, NEW t \in Int, Slot(s) = Slot(t), s < t
    PROVE  s + BufferSize <= t
BY CongruentApart, BufferSizeAssumption DEF Slot

\* The same slot a lap earlier.
LEMMA SlotLap ==
    ASSUME NEW s \in Int
    PROVE  Slot(s - BufferSize) = Slot(s)
<1>1. s - BufferSize \in Int /\ (s - BufferSize) + BufferSize = s
  BY BufferSizeAssumption
<1>2. ((s - BufferSize) + BufferSize) % BufferSize = (s - BufferSize) % BufferSize
  BY <1>1, ModShift, BufferSizeAssumption
<1> QED
  BY <1>1, <1>2 DEF Slot

-----------------------------------------------------------------------------
(***************************************************************************)
(* Types of the words and loops.                                           *)
(***************************************************************************)

\* difference and the two loop steps give integers.
LEMMA DifferenceType ==
    ASSUME NEW a \in Int, NEW b \in Int
    PROVE  difference(a, b) \in Int
BY HalfModulusAssumption DEF difference, SeqModulus

LEMMA StepTypes ==
    ASSUME NEW i \in Nat, NEW x \in Int, NEW s \in Int, NEW f \in Int
    PROVE  /\ MinimumStep(i, x, s) \in Int
           /\ MinDeltaStep(i, x, s, f) \in Int
BY DifferenceType DEF MinimumStep, MinDeltaStep, Smaller

\* The groups a thread scans are arrays of barriers, and not empty when it is
\* scanning: the assertions of sequence_barrier_group.
LEMMA GroupTypes ==
    /\ ClaimBarriers \in Seq(Consumers)
    /\ ClaimBarriers \in Seq(Barriers)
    /\ Len(ClaimBarriers) > 0
    /\ \A c \in Consumers : /\ Upstream[c] \in Seq(Barriers)
                            /\ Upstream[c] # <<>> => Len(Upstream[c]) > 0
<1>1. \A i \in 1 .. Len(ClaimBarriers) : ClaimBarriers[i] \in Barriers
  BY TopologyAssumption
<1>2. ClaimBarriers \in Seq(Barriers)
  BY <1>1, TopologyAssumption
<1> QED
  BY <1>2, TopologyAssumption

\* The types of the variables that Goto and Again assign.
ControlTypes ==
    /\ pc \in [Threads -> PCs]
    /\ idx \in [Threads -> Nat]
    /\ acc \in [Threads -> Int]
    /\ ScanInBounds

BarrierTypes == m_lastPublished \in [Barriers -> Int]

\* A barrier a thread has loaded in its scan, or loads next, is one of its group.
LEMMA ScannedBarrier ==
    ASSUME ControlTypes, BarrierTypes, NEW t \in Threads, pc[t] \in Scanning,
           NEW group \in Seq(Barriers), group = ScannedGroup(t, pc[t]),
           NEW i \in 1 .. idx[t] + 1
    PROVE  /\ i \in 1 .. Len(group) /\ group[i] \in Barriers
           /\ group[i] \in Elems(group)
           /\ m_lastPublished[group[i]] \in Int
<1>1. i \in 1 .. Len(group)
  BY DEF ControlTypes, ScanInBounds
<1> QED
  BY <1>1 DEF Elems, BarrierTypes

\* What a scan has loaded and accumulated are words.
LEMMA ScanTypes ==
    ASSUME ControlTypes, BarrierTypes, NEW t \in Threads,
           pc[t] \in Scanning,
           NEW group \in Seq(Barriers), group = ScannedGroup(t, pc[t]),
           NEW floor \in Int
    PROVE  /\ Loaded(t, group) \in Int
           /\ MinimumNow(t, group) \in Int
           /\ MinDeltaNow(t, group, floor) \in Int
           /\ ScanResult(t, group, floor) \in Int
<1>1. idx[t] \in Nat /\ acc[t] \in Int
  BY DEF ControlTypes
<1>2. idx[t] + 1 \in 1 .. idx[t] + 1
  BY <1>1
<1>3. Loaded(t, group) \in Int
  BY <1>2, ScannedBarrier DEF Loaded
<1>4. /\ MinimumStep(idx[t], acc[t], Loaded(t, group)) \in Int
      /\ MinDeltaStep(idx[t], acc[t], Loaded(t, group), floor) \in Int
  BY <1>1, <1>3, StepTypes
<1> QED
  BY <1>3, <1>4 DEF MinimumNow, MinDeltaNow, ScanResult

\* A thread that starts a loop, at a label where its group is not empty, is
\* inside the array.
LEMMA GotoTypes ==
    ASSUME ControlTypes, NEW t \in Threads, NEW label \in PCs, Goto(t, label),
           label \in Scanning => Len(ScannedGroup(t, label)) > 0
    PROVE  ControlTypes'
BY DEF ControlTypes, ScanInBounds, Goto, ScannedGroup

\* So is one that goes round a scan whose last load is still to come.
LEMMA AgainTypes ==
    ASSUME ControlTypes, NEW t \in Threads, NEW value \in Int, Again(t, value),
           pc[t] \in Scanning => /\ idx[t] + 1 # Len(ScannedGroup(t, pc[t]))
                                 /\ Len(ScannedGroup(t, pc[t])) \in Nat
    PROVE  ControlTypes'
<1>1. ScanInBounds'
  BY DEF ControlTypes, ScanInBounds, Again, ScannedGroup
<1> QED
  BY <1>1 DEF ControlTypes, Again

\* A load after which the scan starts again or goes on.
LEMMA ScanTypeStep ==
    ASSUME ControlTypes, BarrierTypes, NEW t \in Threads, pc[t] \in Scanning,
           NEW group \in Seq(Barriers), group = ScannedGroup(t, pc[t]),
           NEW floor \in Int,
           Rescan(t, group, floor) \/ ScanOn(t, group, floor)
    PROVE  ControlTypes' /\ UNCHANGED <<m_lastPublished, timed>>
<1>1. MinDeltaNow(t, group, floor) \in Int
  BY ScanTypes
<1>2. Len(group) \in Nat /\ Len(group) > 0 /\ pc[t] \in PCs
  BY DEF ControlTypes, ScanInBounds
<1>3. CASE Rescan(t, group, floor)
  BY <1>2, <1>3, GotoTypes DEF Rescan
<1>4. CASE ScanOn(t, group, floor)
  BY <1>1, <1>2, <1>4, AgainTypes DEF ScanOn, IsLastLoad
<1> QED
  BY <1>3, <1>4

-----------------------------------------------------------------------------
(***************************************************************************)
(* What a scan shows.                                                      *)
(***************************************************************************)

BarriersGrow == \A b \in Barriers : m_lastPublished'[b] >= m_lastPublished[b]
Still(t) == pc'[t] = pc[t] /\ idx'[t] = idx[t] /\ acc'[t] = acc[t]

\* The barriers of a group are close enough to floor for words to be compared.
Comparable(group, floor) ==
    \A b \in Elems(group) : /\ -HalfModulus <= m_lastPublished[b] - floor
                            /\ m_lastPublished[b] - floor < HalfModulus

\* Going somewhere moves no other thread.
LEMMA GotoStill ==
    ASSUME ControlTypes, NEW t \in Threads, NEW label, Goto(t, label)
    PROVE  /\ pc'[t] = label /\ idx'[t] = 0 /\ acc'[t] = 0
           /\ \A u \in Threads \ {t} : Still(u)
BY DEF ControlTypes, Goto, Still

\* What a scan has found stays true while other threads publish.
LEMMA ScannedStays ==
    ASSUME ControlTypes, BarrierTypes, BarrierTypes', BarriersGrow,
           NEW t \in Threads, pc[t] \in Scanning,
           NEW group \in Seq(Barriers), group = ScannedGroup(t, pc[t]), Still(t),
           NEW floor \in Int, ScannedSoFar(t, group, floor)
    PROVE  ScannedSoFar(t, group, floor)'
<1> SUFFICES ASSUME NEW i \in 1 .. idx[t]
             PROVE  acc[t] >= 0 /\ floor + acc[t] <= m_lastPublished'[group[i]]
  BY DEF ScannedSoFar, Still
<1>1. i \in 1 .. idx[t] + 1 /\ acc[t] \in Int
  BY DEF ControlTypes
<1>2. group[i] \in Barriers
  BY <1>1, ScannedBarrier
<1>3. m_lastPublished[group[i]] \in Int /\ m_lastPublished'[group[i]] \in Int
  BY <1>2 DEF BarrierTypes
<1> QED
  BY <1>1, <1>2, <1>3 DEF ScannedSoFar, BarriersGrow

\* The minDelta of a load that does not precede floor bounds every barrier
\* loaded so far, this one included.
LEMMA MinDeltaBounds ==
    ASSUME ControlTypes, BarrierTypes, NEW t \in Threads, pc[t] \in Scanning,
           NEW group \in Seq(Barriers), group = ScannedGroup(t, pc[t]),
           NEW floor \in Int, ScannedSoFar(t, group, floor),
           Comparable(group, floor),
           MinDeltaNow(t, group, floor) >= 0
    PROVE  /\ MinDeltaNow(t, group, floor) \in Int
           /\ \A i \in 1 .. idx[t] + 1 :
                 floor + MinDeltaNow(t, group, floor) <= m_lastPublished[group[i]]
<1> DEFINE m == MinDeltaNow(t, group, floor)
           l == Loaded(t, group)
<1>1. idx[t] \in Nat /\ acc[t] \in Int
  BY DEF ControlTypes
<1>2. \A i \in 1 .. idx[t] + 1 :
         group[i] \in Elems(group) /\ m_lastPublished[group[i]] \in Int
  BY ScannedBarrier
<1>3. idx[t] + 1 \in 1 .. idx[t] + 1
  BY <1>1
<1>4. l = m_lastPublished[group[idx[t] + 1]] /\ l \in Int
  BY <1>2, <1>3 DEF Loaded
<1>5. difference(l, floor) = l - floor
  BY <1>2, <1>3, <1>4, DifferenceExact DEF Comparable
<1>6. CASE idx[t] = 0
  <2>1. m = l - floor
    BY <1>5, <1>6 DEF MinDeltaNow, MinDeltaStep
  <2>2. \A i \in 1 .. idx[t] + 1 : i = idx[t] + 1
    BY <1>6
  <2> QED
    BY <2>1, <2>2, <1>4
<1>7. CASE idx[t] # 0
  <2>1. m = Smaller(acc[t], l - floor)
    BY <1>5, <1>7 DEF MinDeltaNow, MinDeltaStep
  <2>2. m \in Int /\ m <= acc[t] /\ m <= l - floor
    BY <2>1, <1>1, <1>4 DEF Smaller
  <2>3. ASSUME NEW i \in 1 .. idx[t] + 1
        PROVE  floor + m <= m_lastPublished[group[i]]
    <3>1. CASE i = idx[t] + 1
      BY <3>1, <2>2, <1>4
    <3>2. CASE i # idx[t] + 1
      <4>1. i \in 1 .. idx[t]
        BY <3>2, <1>1
      <4>2. floor + acc[t] <= m_lastPublished[group[i]]
        BY <4>1 DEF ScannedSoFar
      <4> HIDE DEF m
      <4> QED
        BY <4>2, <2>2, <1>1, <1>2
    <3> QED
      BY <3>1, <3>2
  <2> QED
    BY <2>2, <2>3
<1> QED
  BY <1>6, <1>7

\* So a scan that starts again or goes on still knows what it has loaded.
LEMMA ScanStep ==
    ASSUME ControlTypes, BarrierTypes, NEW t \in Threads, pc[t] \in Scanning,
           NEW group \in Seq(Barriers), group = ScannedGroup(t, pc[t]),
           NEW floor \in Int, ScannedSoFar(t, group, floor),
           Comparable(group, floor),
           Rescan(t, group, floor) \/ ScanOn(t, group, floor)
    PROVE  /\ pc' = pc /\ UNCHANGED <<m_lastPublished, timed>>
           /\ \A u \in Threads \ {t} : Still(u)
           /\ \A i \in 1 .. idx'[t] :
                 acc'[t] >= 0 /\ floor + acc'[t] <= m_lastPublished'[group[i]]
<1>0. pc \in [Threads -> PCs] /\ idx \in [Threads -> Nat] /\ acc \in [Threads -> Int]
  BY DEF ControlTypes
<1>1. CASE Rescan(t, group, floor)
  <2>1. idx'[t] = 0 /\ pc' = pc /\ \A u \in Threads \ {t} : Still(u)
    BY <1>0, <1>1 DEF Rescan, Goto, Still
  <2> QED
    BY <1>1, <2>1 DEF Rescan
<1>2. CASE ScanOn(t, group, floor)
  <2>1. /\ MinDeltaNow(t, group, floor) >= 0 /\ pc' = pc
        /\ idx'[t] = idx[t] + 1 /\ acc'[t] = MinDeltaNow(t, group, floor)
        /\ UNCHANGED <<m_lastPublished, timed>>
        /\ \A u \in Threads \ {t} : Still(u)
    BY <1>0, <1>2 DEF ScanOn, Again, Still
  <2>2. \A i \in 1 .. idx[t] + 1 :
          floor + MinDeltaNow(t, group, floor) <= m_lastPublished[group[i]]
    BY <2>1, MinDeltaBounds
  <2> QED
    BY <2>1, <2>2
<1> QED
  BY <1>1, <1>2

\* And what the wait returns has been reached by every barrier of the group.
LEMMA ScanDoneBounds ==
    ASSUME ControlTypes, BarrierTypes, NEW t \in Threads, pc[t] \in Scanning,
           NEW group \in Seq(Barriers), group = ScannedGroup(t, pc[t]),
           NEW floor \in Int, ScannedSoFar(t, group, floor),
           Comparable(group, floor),
           ScanDone(t, group, floor)
    PROVE  /\ ScanResult(t, group, floor) \in Int
           /\ floor <= ScanResult(t, group, floor)
           /\ \A b \in Elems(group) : /\ b \in Barriers
                                      /\ ScanResult(t, group, floor) <= m_lastPublished[b]
<1>1. MinDeltaNow(t, group, floor) >= 0 /\ idx[t] + 1 = Len(group)
  BY DEF ScanDone, IsLastLoad
<1>2. /\ MinDeltaNow(t, group, floor) \in Int
      /\ \A i \in 1 .. idx[t] + 1 :
            floor + MinDeltaNow(t, group, floor) <= m_lastPublished[group[i]]
  BY <1>1, MinDeltaBounds
<1>3. DOMAIN group = 1 .. Len(group) /\ \A i \in 1 .. Len(group) : group[i] \in Barriers
  OBVIOUS
<1> QED
  BY <1>1, <1>2, <1>3 DEF ScanResult, Elems

\* A load never raises minDelta.
LEMMA MinDeltaShrinks ==
    ASSUME ControlTypes, BarrierTypes, NEW t \in Threads, pc[t] \in Scanning,
           NEW group \in Seq(Barriers), group = ScannedGroup(t, pc[t]),
           NEW floor \in Int, idx[t] > 0
    PROVE  MinDeltaNow(t, group, floor) <= acc[t]
<1>1. idx[t] \in Nat /\ acc[t] \in Int
  BY DEF ControlTypes
<1>2. Loaded(t, group) \in Int
  BY ScanTypes
<1>3. difference(Loaded(t, group), floor) \in Int
  BY <1>2, DifferenceType
<1>4. MinDeltaNow(t, group, floor) = Smaller(acc[t], difference(Loaded(t, group), floor))
  BY <1>1 DEF MinDeltaNow, MinDeltaStep
<1> QED
  BY <1>1, <1>3, <1>4 DEF Smaller

\* The minimum after a load bounds every barrier loaded so far, this one included,
\* and is this load or the minimum before it.
LEMMA MinimumBounds ==
    ASSUME ControlTypes, BarrierTypes, NEW t \in Threads, pc[t] \in Scanning,
           NEW group \in Seq(Barriers), group = ScannedGroup(t, pc[t]),
           \A i \in 1 .. idx[t] : acc[t] <= m_lastPublished[group[i]],
           idx[t] > 0 => /\ -HalfModulus <= Loaded(t, group) - acc[t]
                         /\ Loaded(t, group) - acc[t] < HalfModulus
    PROVE  /\ MinimumNow(t, group) \in Int
           /\ \A i \in 1 .. idx[t] + 1 : MinimumNow(t, group) <= m_lastPublished[group[i]]
           /\ idx[t] > 0 => MinimumNow(t, group) <= acc[t]
           /\ \/ MinimumNow(t, group) = Loaded(t, group)
              \/ idx[t] > 0 /\ MinimumNow(t, group) = acc[t]
<1> DEFINE m == MinimumNow(t, group)
           l == Loaded(t, group)
<1>1. idx[t] \in Nat /\ acc[t] \in Int
  BY DEF ControlTypes
<1>2. \A i \in 1 .. idx[t] + 1 : m_lastPublished[group[i]] \in Int
  BY ScannedBarrier
<1>3. l = m_lastPublished[group[idx[t] + 1]] /\ l \in Int
  BY <1>1, <1>2 DEF Loaded
<1>4. m \in Int /\ m <= l /\ (idx[t] > 0 => m <= acc[t])
      /\ (m = l \/ (idx[t] > 0 /\ m = acc[t]))
  <2>1. CASE idx[t] = 0
    <3>1. m = l
      BY <2>1 DEF MinimumNow, MinimumStep
    <3> QED
      BY <3>1, <2>1, <1>3
  <2>2. CASE idx[t] # 0
    <3>1. difference(l, acc[t]) = l - acc[t] /\ idx[t] > 0
      BY <2>2, <1>1, <1>3, DifferenceExact
    <3>2. m = IF l - acc[t] < 0 THEN l ELSE acc[t]
      BY <2>2, <3>1 DEF MinimumNow, MinimumStep
    <3> HIDE DEF m, l
    <3> QED
      BY <3>1, <3>2, <1>1, <1>3
  <2> QED
    BY <2>1, <2>2
<1> HIDE DEF m, l
<1>5. ASSUME NEW i \in 1 .. idx[t] + 1
      PROVE  m <= m_lastPublished[group[i]]
  <2>1. CASE i = idx[t] + 1
    BY <2>1, <1>3, <1>4
  <2>2. CASE i # idx[t] + 1
    <3>1. i \in 1 .. idx[t] /\ idx[t] > 0
      BY <2>2, <1>1
    <3> QED
      BY <3>1, <1>1, <1>2, <1>4
  <2> QED
    BY <2>1, <2>2
<1> QED
  BY <1>4, <1>5 DEF m, l

=============================================================================
