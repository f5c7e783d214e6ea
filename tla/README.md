# Verification of disruptorplus

disruptorplus is a header-only C++11 library for passing items between threads
through a ring buffer. Producers claim sequence numbers, write the slots they
select and publish them; readers wait for sequences to be published, read whole
batches and publish how far they have read, which lets producers reuse slots.
There are no locks on the main path: correctness rests on the order of a few
loads and stores of sequence words in different threads. This directory holds a
TLA+ model of those accesses, TLC configurations that check it on small
instances, and TLAPS proofs for instances of every size. It covers both claim
strategies, both wait strategies, the memory orders and the abstract ring that
they all implement.

## Inventory

| Part | State | Operations | What makes it correct |
|---|---|---|---|
| `sequence.hpp` | none | `difference`, `minimum_sequence`, `minimum_sequence_after` | comparisons survive the wrap of the word; a scan made load by load never overestimates |
| `sequence_range.hpp` | first, size | `last`, `end`, `operator[]` | |
| `sequence_barrier.hpp` | one atomic word | `publish`, `last_published`, 3 waits | never goes back |
| `sequence_barrier_group.hpp` | array of pointers to barriers' words | `add` (set-up only), `last_published`, 3 waits | the result bounds every barrier of the group |
| `spin_wait_strategy.hpp` | none | 3 waits, `signal_all_when_blocking` (empty) | returns when the sequence is there, or late in a timed wait |
| `spin_wait.hpp` | spin counter | `spin_once`, `next_spin_will_yield` | yields again after the counter wraps |
| `blocking_wait_strategy.hpp` | mutex, condition variable | 3 waits, `signal_all_when_blocking` | no lost wake-up |
| `ring_buffer.hpp` | array of items | `operator[]` | a slot per sequence within a lap |
| `multi_threaded_claim_strategy.hpp` | `m_nextClaimable`, `m_published[]`, claim barrier group | `claim_one`, `claim`, `try_claim`, `try_claim_for/until`, 2 `publish`, `last_published_after`, 3 waits | exclusive slots, no sequence lost or duplicated, batches without gaps, progress |
| `single_threaded_claim_strategy.hpp` | `m_nextSequenceToClaim`, read barrier, claim barrier group | the same, for one producer | the same |
| tests and benchmarks | locals of the reader and writer threads | wait / read batch / publish; claim / write / publish | the wiring: which barriers gate the producers |

Interaction is through shared words only. Readers' barriers are loaded by
producers (`m_claimBarrier`), and by readers that depend on other readers
(pipeline, diamond). Entries of `m_published` are stored by producers and loaded
by readers. With the blocking strategy every store is followed by a
`signal_all_when_blocking`.

The hard behaviours are the interleavings of these accesses: a claim reserves
its range before the slots are free; a `try_claim` goes on with a limit and a
count from before a failed compare-exchange; groups are read one barrier at a
time; producers publish out of order and range by range; words wrap; waits time
out; a thread decides to sleep while another publishes. `PROJECT.json` lists each as a hazard at its line, with the properties that
would catch it.

## Modules

| Module | Models |
|---|---|
| `SequenceNumbers` | `sequence.hpp`, `sequence_range.hpp`: words, `difference`, one iteration of each scan |
| `BarrierGroups` | barriers, groups, a scan of a group by a thread, waits with `spin_wait_strategy` |
| `Readers` | `ring_buffer.hpp` and the reader threads, with the wiring as constants |
| `MultiThreadedClaimStrategy` | `multi_threaded_claim_strategy.hpp` and its producers: the whole system, its properties |
| `SingleThreadedClaimStrategy` | `single_threaded_claim_strategy.hpp` and its producer: the whole system, its properties |
| `BroadcastRing` | what both promise: the abstract specification the two strategies are checked against |
| `PublicationOrder` | the memory orders of the multi-producer system: which accesses to elements happen before which |
| `BlockingWaitStrategy` | `blocking_wait_strategy.hpp`: mutex, wait set, wake-ups, notification |
| `BlockingDisruptor` | the multi-producer system with that wait strategy |
| `SpinWait` | `spin_wait.hpp`: the back-off counter, and the clock |
| `SpinningDisruptor` | the single-producer system with the loops of `spin_wait_strategy.hpp` |
| `MultiThreadedInvariant` | the inductive invariant `SafetyInv` of the multi-producer system |
| `SingleThreadedInvariant` | the inductive invariant `SafetyInv` of the single-producer system |
| `PublicationInvariant` | the inductive invariant `OrderInv` of the memory orders |
| `MCMultiThreaded`, `MCSingleThreaded`, `MCPublicationOrder`, `MCBlocking`, `MCSpinning` | the instances TLC checks |
| `SequenceLemmas` | proofs about wrapping words, slots and scans of a barrier group |
| `MultiThreadedTypes` | proof of type correctness |
| `MultiThreadedSafety` | proofs of the safety properties |
| `MultiThreadedRefinement` | proof that the multi-producer system implements the ring |
| `DataRaceFreedom` | proof that no two accesses to an element race |
| `SingleThreadedSafety` | the single-producer system: types, safety, the ring |
| `BlockingRefinement` | proof that the blocking system implements the spinning one |
| `BlockingWakeUps` | proof that no wake-up is lost |

`BarrierGroups` EXTENDS `SequenceNumbers`, `Readers` EXTENDS `BarrierGroups`, and each
of the two claim strategies EXTENDS `Readers`: the readers, the barriers and the
ring buffer are the same for both.

In the single-producer strategy `m_readBarrier` is one more barrier, `ReadBarrier`,
and a reader of the strategy is a reader whose `Upstream` group is that barrier.
The multi-producer strategy has `m_published` in its place, and a reader of it has
an empty `Upstream` group. `m_nextSequenceToClaim` is written by the producer alone,
so `TakeRange` needs no compare-exchange; the calls differ only in what they wait
for before it.

### One action per access

A step of the model is one access to shared memory (a load of a barrier or of
an entry, a store, a `fetch_add`, a compare-exchange, the write or read of one
ring buffer element) with the local computation up to the next one. `pc[t]` says
where thread `t` is:

| `pc` | Place in the code |
|---|---|
| `claimWait` | `claim_one`/`claim`, waiting on the claim barrier after the `fetch_add` |
| `tryScan`, `tryLoad`, `tryCas` | `try_claim`/`try_claim_until`: scanning `last_published()`, before the load of the counter, before the compare-exchange |
| `timedWait` | `try_claim_until`, in the timed wait on the claim barrier |
| `write`, `publish` | the producer's loop over its range; `publish(range)` |
| `upstream` | a reader in the wait of a barrier or group |
| `check`, `await`, `after` | a reader in `wait_until_published` of the strategy: `is_published(seq)`, the wait for one slot, `last_published_after` |
| `read`, `consumed` | the reader's loop over its batch; before it publishes the last sequence |

`idx` and `acc` are the loop index and the minimum or `minDelta` of the scan a
thread is in. Locals that the code drops on return are reset, so that they do
not tell states apart.

`timed[t]` says whether the call has a timeout. In the modules of the claim
strategies there is no clock: a timed wait may time out after any scan that failed.
`SpinningDisruptor` has the clock and the counter that decides when it is read, and
is checked to implement those timed waits. The model is sequentially consistent;
`PublicationOrder` adds what the memory orders guarantee.

A weak compare-exchange that fails spuriously reloads the value it expected and
goes round with unchanged locals, so it is a stuttering step. `set_published`'s
load in its assertion is the property `SetPublishedAssertion`.

### Wait strategies

`BlockingDisruptor` and `SpinningDisruptor` do not repeat the claim strategies: a step
of a thread is a step of the module they extend, conjoined with what happens in the
wait strategy, and `LoadFails(t)` says that the load the step makes finds a sequence
that precedes the awaited one.

Blocking. `phase[t]` places a thread in the strategy (`running`, `locking`, `checking`,
`unmet`, `asleep`, `signalling`). A barrier or group is scanned once without the lock
(`Runs`), then under it (`Checks`, `PredicateFails`), and `m_cv.wait` gives up the mutex
and joins the wait set in one step (`CvWait`), with the point between the failed check
and that step a state of its own: there a publisher may store, since stores are made
without the mutex, and its `signal_all_when_blocking` has to wait. The lock, the
`notify_all` and the unlock of that function are one step, because nothing can
happen in between that depends on them. Wake-ups without notification happen at most
`SpuriousWakeUps` times.

Spinning. `m_value[t]` is the counter of the `spin_wait` on the stack of `t`'s call, or
`NoSpinner` outside of the strategy; `expired[t]` says that the time given to the call
has passed, which it does at any moment (`Expire`). A failed scan spins or, if the next
spin yields and the time has passed, returns. 10, 20 and 0xFFFFFFFF are the constants
`YieldAt`, `SleepEvery` and `MaxValue`.

### The ring

`BroadcastRing` has no threads: a sequence is granted when every consumer has released
the slot's last item, written, published in any order and once, read by every consumer
in order while it is intact and after the consumers before it, and released. The two
claim strategies map to it with `Ring == INSTANCE BroadcastRing WITH ...`: the granted
sequences are the ranges whose claim has returned, the published ones the entries of
`m_published` (or everything up to the read barrier). A range of the multi-producer
strategy is published in as many steps as it has sequences, one of the other in one.

### Memory orders

`PublicationOrder` gives to every thread the set of element accesses that happen before
its next step. A store of a barrier or of an entry carries that set (release), a load
adds what the store it reads from carried (acquire), and the accesses to the claim
counter, which are relaxed, carry nothing. `NoDataRace` is the C++ definition applied to
elements of the ring buffer.

Values are those of a sequentially consistent run, which is a limit of the model: every
load returns the last value stored, while in C++ a load, also an acquire load, may return
an older one. An older value of a barrier or of an entry carries what happens before
its own store and shows less progress, since these words only grow, so a thread that
reads it waits, stops its batch or claims less, as it could have done earlier. An older
value of the claim counter, whose loads are relaxed, makes the compare-exchange fail and
reload. That is an argument, not something the runs or the proofs show.

### Words

A `sequence_t` is a 64-bit word that wraps. The model keeps, for each word, an
integer congruent to it modulo `SeqModulus` (2^64 in the program), and every
observation the code makes of words - `difference`, `==`, the index of a slot -
is computed from residues: `difference(a, b)` is `(a - b) % SeqModulus` read as a
signed number, `SameWord` is `(a - b) % SeqModulus = 0`, and `Slot` is a residue
because the buffer size divides the modulus (`BufferSizeAssumption`). Replacing
each integer by its residue therefore gives the machine's run exactly, and the
integers let properties speak of the lap a word belongs to. They are history:
no guard reads them except through those operators. Assertions of the code that
a state violates are not guards; those that matter are invariants.

### Constants

`Producers`, `Consumers`, `BufferSize`, `HalfModulus`, `ItemsPerProducer`,
`Counts` (arguments of claim), `LookAheads` (how far past the last sequence it
knows a reader asks), `TimedWaits`, and the wiring: `ClaimBarriers` (what was
passed to `add_claim_barrier`), `Upstream[c]` (the group reader `c` waits on,
empty for the claim strategy itself) and `Ancestors[c]` (all readers that `c`
waits for, directly or not). `TopologyAssumption` states what the benchmarks
ensure and the library leaves to its user: every reader gates the producers,
itself or through a reader that waits for it.

## Runs

The instances are in the `MC` modules. Deadlock is checked in all runs, with
`Terminated` for the drivers that have finished. Where threads spin that check says
little: a thread that spins takes a step that changes nothing, so a system in which
everyone spins for ever is not a deadlock to TLC. In `blocking_sequencer` and
`blocking_diamond` it says what it should, since a sleeping thread has no step.

| Run | Instance | Checks |
|---|---|---|
| `sequencer` | 2 producers x 2 items, 1 reader, 2 slots, claims of 0, 1, 2, look-ahead 1 and 2, with and without timeouts (238 k states) | `TypeOK`, `SlotExclusion`, `SetPublishedAssertion`, `EveryClaimAccounted` |
| `multicast` | 2 producers x 2 items, 2 readers that both gate, 2 slots (84 k) | `AvailableIsWritten`, `ClaimsWithinBuffer`, `KnownLimitIsSafe`, `SafetyInv`, `ImplementsRing` |
| `diamond` | 1 producer x 17 items, 2 readers and a third waiting on their group, words of four bits (211 k) | `SlotExclusion`, `ClaimsWithinBuffer`, `SafetyInv`, `ActiveWindow`, `ReadersPublishInOrder` |
| `publication_order` | 2 producers x 2 items, a pipeline of two readers, 2 slots, with and without timeouts (302 k) | `NoDataRace`, `OrderInv`, `ImplementsRing` |
| `blocking_sequencer` | 2 producers x 3 items, 1 reader, 2 slots, a spurious wake-up, fairness (167 k) | `NoLostWakeUp`, `AllConsumed`, `ImplementsSpinning` |
| `blocking_diamond` | 1 producer x 3 items, diamond, a spurious wake-up, fairness (198 k) | `NoLostWakeUp`, `AllConsumed`, `ImplementsSpinning` |
| `live` | 2 producers x 2 items, 1 reader, fairness (21 k) | `AllConsumed`, `ImplementsFairRing` |
| `single_fork` | 1 producer x 17 items, a pipeline of two readers beside a third reader, both ends gate, 2 slots, words of four bits, claims of 0, 1, 3, with and without timeouts (758 k) | `TypeOK`, `SlotExclusion`, `AvailableIsWritten`, `ClaimsWithinBuffer`, `CursorsInOrder`, `SafetyInv`, `ImplementsRing` |
| `single_live` | 1 producer x 4 items, a pipeline of two readers, fairness (2 k) | `AllConsumed`, `ImplementsFairRing` |
| `single_timed` | 1 producer x 2 items, a pipeline, 1 slot, counter and clock, fairness of time and of calls but none of the drivers (18 k) | `TimedWaitReturns`, `WaitersSleepAgain`, `ImplementsTimedWaits` |
| `timed_wait` | 1 producer x 1 item, 1 reader | finding: `TimedWaitReturns` is violated |
| `minimum_doc` | 2 producers, 2 readers | finding: `MinimumAsDocumented` is violated |

- `SlotExclusion`: a slot a producer may write is held by no other producer and
  still to be read by no reader.
- `AvailableIsWritten`: what a reader was told is available holds its item.
- `SetPublishedAssertion`: the `assert` in `set_published`.
- `EveryClaimAccounted`: a claimed sequence is published or reserved by exactly
  one producer.
- `ClaimsWithinBuffer`: no claim is more than the buffer size ahead of any reader.
- `KnownLimitIsSafe`: what a producer learnt from a scan stays safe while it uses it.
- `ActiveWindow`: words that will be compared with the counter are less than half
  the modulus behind it.
- `ReadersPublishInOrder`: a barrier never goes back or passes what was read.
- `CursorsInOrder`: no reader is ahead of a reader it waits for, nor of the producer.
- `SafetyInv`, `OrderInv`: the inductive invariants of the proofs, see there.
- `AllConsumed`: in the end every reader has consumed every item.
- `TimedWaitReturns`: a wait with a timeout ends even if everyone else has stopped. It
  holds of the single-producer strategy and fails of the other.
- `ImplementsRing`, `ImplementsFairRing`: the system is a `BroadcastRing`, and with fair
  threads a fair one: nothing granted stays unpublished, nothing published unread.
- `NoDataRace`: conflicting accesses to an element are ordered by happens-before.
- `NoLostWakeUp`: when what a sleeping thread waits for is there, a publisher has yet to
  notify.
- `ImplementsSpinning`: with the blocking strategy a system takes only steps that a
  spinning one could, so the theorems about `Spec` carry over.
- `ImplementsTimedWaits`: the loop with counter and clock has the time-outs, and the
  fairness of time-outs, that the model without a clock assumes.
- `WaitersSleepAgain`: a thread that waits on goes on sleeping now and then, after its
  counter has wrapped too.

Bounds. Two slots and two or four items per run take every slot through at least
two laps, so overwriting, waiting for a full buffer and gaps all happen; claims
of two fill the buffer. In `diamond` and `single_fork` the counter passes 16, so words
wrap with threads on both sides of it, and a lap of the gate is up to three readers long.
Three items per producer make the blocking producers sleep on a full buffer and on each
other's claims; one spurious wake-up can hit any sleeper at any time. In `single_timed`
a counter that yields from 1, sleeps at every second yield and wraps at 3 passes through
all its phases and through the wrap more than once in a wait. In `single_fork` claims
of three ask for more than the buffer holds and are cut to what is free. `sequencer`
includes the empty range and look-ahead up to the buffer size.

Look-ahead and progress. `claim` of the multi-producer strategy waits for its whole
range to be free, so a reader that waits for the `k`-th sequence after its last one
while producers `claim` ranges of `n` can stand still for ever, everyone spinning,
when `k + n > bufferSize + 1`. `sequencer`, with look-ahead 2 and claims of 2 in a
buffer of 2, contains such states and checks safety in them; `live` uses look-ahead
1, and no reader of the repository asks for more than the next sequence.

Fairness. `ThreadFairness`: a thread inside a call or between its calls keeps running,
weak fairness of each thread's own steps; that is what the operating system's
scheduler gives. `DriverFairness` (`live`, `single_live`, the blocking runs): the drivers
call again while they have work, as their loops do. No fairness is assumed of
compare-exchanges succeeding, of waits not timing out, of the mutex or of the order in
which waiters get it: in the blocking runs weak fairness of the threads is enough,
because wake-ups and notifications that can keep the mutex busy are finitely many.
`single_timed` assumes that a running thread keeps running and that time passes
(`WF` of `Expire`), and not that anyone calls again. The strong fairness of time-outs in
`ClockFairness` is never assumed by a run: `ImplementsTimedWaits` derives it.

### Findings

- `timed_wait`: the timed `wait_until_published` of the multi-producer strategy
  (line 528) does not pass its timeout to the wait strategy, so it never times out. In
  the run the only producer never calls `claim`, and the reader that waits for sequence 0
  with a timeout goes on waiting.
- `minimum_doc`: the comment of `minimum_sequence` (`sequence.hpp:81`) has the
  inequality of a maximum. The code computes the minimum, as its callers need.

Seen while modelling, without a run: `try_claim(0, range)` returns `true` and an
empty range when a slot is free, though "true if any elements were claimed" is
documented; the timed waits of `blocking_wait_strategy` (lines 119-125, 172-178)
pass the predicate before the time to `wait_for`/`wait_until`, which does not
compile once they are instantiated (so with this strategy the timed overloads of the barriers, of the single-
producer strategy and of `try_claim` cannot be used; the timed `wait_until_published`
of the multi-producer strategy can, as it drops its timeout, and is the untimed one); `m_lastKnownClaimableSequence` of the single-
producer strategy is never used.

## Proofs

Every theorem is for any number of threads, any wiring that satisfies
`TopologyAssumption`, any buffer size dividing the modulus, any modulus and workload.

| Theorem | States | Assumes |
|---|---|---|
| `MultiThreadedTypes!TypeCorrectness` | `TypeOK` | |
| `MultiThreadedSafety!Safety` | `SafetyInv` | `[]ActiveWindow` |
| `MultiThreadedSafety!` `SlotsAreExclusive`, `SetPublishedNeverAsserts`, `ClaimsAreAccounted`, `AvailableItemsAreWritten`, `ClaimsStayWithinBuffer`, `LimitsAreSafe`, `ReadersKeepOrder` | the property of that name | `[]ActiveWindow` |
| `MultiThreadedSafety!WindowOfFirstHalf` | `ActiveWindow`, `SafetyInv` | `[]FewClaims` |
| `MultiThreadedRefinement!Refinement` | `ImplementsRing` | `[]ActiveWindow` |
| `DataRaceFreedom!OrderIsKept`, `NoElementRaces` | `OrderInv`, `NoDataRace` | `[]ActiveWindow` |
| `BlockingRefinement!BlockingImplementsSpinning` | `ImplementsSpinning` | |
| `BlockingRefinement!` `BlockingSlotsAreExclusive`, `BlockingItemsAreWritten`, `BlockingImplementsRing` | the same with the blocking wait strategy | `[]ActiveWindow` |
| `BlockingWakeUps!NoWakeUpIsLost` | `NoLostWakeUp` | |
| `SingleThreadedSafety!` `TypeCorrectness`, `Safety`, `SlotsAreExclusive`, `AvailableItemsAreWritten`, `ClaimsStayWithinBuffer`, `CursorsKeepOrder`, `Refinement` | `TypeOK`, `SafetyInv`, the property of that name, `ImplementsRing` | |

### Words and scans

`SequenceLemmas` has what the proofs of both strategies share. `DifferenceExact` and
`SameWordExact` turn `difference` and `==` into integer facts for words less than half
the modulus apart. `ScanStep` and `MinimumBounds` say what a scan of a group has shown
after each load, and `ScannedStays` that it stays true while the scan goes on, because
barriers only grow. This is where a scan that is not atomic is justified: each load
bounds its barrier from below for ever.

### The multi-producer strategy

`TypeOK` is inductive as it stands: it includes that a scan's index is within its
group, and sizes are natural because `TryClaimBody` tests `diff` first.

`ActiveWindow` is the assumption `sequence.hpp` states in its comments ("no two
active sequence values will be more than ... different from each other"): without
it `difference` gives the wrong sign, and a producer that sleeps between its load
of the counter and its compare-exchange through 2^63 claims is not excluded by
the code. It is used only where words are compared. `WindowOfFirstHalf` shows that it
can only fail that way: as long as the counter is below half the modulus less a lap
(`FewClaims`), every word in use is between -1 and the counter (`WordsFromStart`), so
`ActiveWindow` holds. It is proved together with `SafetyInv`, since the two need each
other: a step keeps `SafetyInv` if the window holds before it.

The properties are not inductive. `SafetyInv` adds what each thread knows:

- `EntriesInv`: an entry of `m_published` is a claimed sequence of its own slot, at
  most a lap ahead of every reader. So an entry that is not before `seq` and is of
  its slot is `seq` itself as far as a reader can tell.
- `BarriersInv`: everything up to a reader's barrier is published, and a reader is
  behind its ancestors. With `TopologyAssumption` this turns what a producer reads
  from the gating readers into a fact about all (`GatesCoverAll`).
- `ReaderInv`, `LimitInv`: per place in the code, what a scan so far has shown.
- `ClaimInv`, `OwnersInv`: reserved sequences are unpublished, distinct and account
  for all claimed ones; returned claims are at most a lap ahead of every reader.
- `ItemsInv`: a slot holds the item of its entry unless a producer holds the slot
  for the next lap.

Two held sequences lie within one lap of the slowest reader (`HeldWindow`), so two
of the same slot are equal (`HeldSlotsDistinct`); a reader's batch is published and
held ones are not. That gives `SlotExclusion`. The proof of the step has a lemma
per action, over frame lemmas for what steps of other threads leave alone
(`ReaderStepFrame`, `ProducerQuietFrame`, `NewClaimFrame`).

`MultiThreadedRefinement` maps each action to a step of the ring or to a stutter. A
claim that returns grants its range, a store to an entry publishes one sequence, a read
of an element is the ring's read, a reader's store to its barrier releases its batch,
and loads change nothing. The ring's guards are what `SafetyInv` provides: a range that
is granted is within a lap of every reader, and what is read is published, intact and
released by the readers before. `RingViews` states these facts of the mapped
variables, before and after the step, and that the entries alone say what is published.

### Data races

`NoDataRace` says of every two conflicting accesses that one happens before the other.
It needs to be known, at the time of an access, that all conflicting ones so far are
in `before` of the thread. `OrderInv` says so in the terms of sequences. `Knows(S, rs, x)`:
the set `S` has all writes so far of sequences up to `x`, and all reads of them by the
readers `rs`.

- `CarriersInv`: a reader's barrier carries all writes, and all reads by that reader and
  the readers it waits for, up to its value; an entry carries all writes of its slot up
  to its value. So each load teaches what the value it returns vouches for.
- `ReaderLearnt`: what a reader has acquired from the entries it has checked or the part
  of the group it has scanned. In a batch it knows all writes up to the last sequence of
  it, also if it acquired a barrier of another reader and no entry.
- `ProducerLearnt`: the same for the claim barrier. A producer that holds a range knows
  all accesses up to a lap before its last sequence, whether it learnt of them in the scan of
  this call or before a compare-exchange that failed: the counter carries nothing.
- `AccessesInv`: what is accessed is published or held, and by whom.

The invariant is about all accesses so far, so a new access must not make what others
know incomplete. It does not, because what they know about is settled (`Settled`): a
sequence that a reader's barrier has passed is read by it no more, and a published one is
written no more. New accesses lie beyond every bound some thread relies on (`OthersKnow`),
and what a load adds is what the barrier or the entry carried (`ScanLearns`, `EntryLearns`).
For all readers a full scan of the gate is enough (`AllGates`), by `TopologyAssumption`.

### The single-producer strategy

No theorem about it assumes `ActiveWindow`. One producer cannot be overtaken, so all
cursors keep one order (each reader, the readers before it, the read barrier, the
counter) and lie within one lap, whoever sleeps: the differences the code computes are
at most the buffer size. `BufferFitsAssumption` says that a buffer has fewer slots than
half the words there are. `SafetyInv` (in `SingleThreadedInvariant`) states this order
(`BarriersInv`), what the scans of readers and producer have shown (`ReaderInv`,
`ProducerInv`), that the producer has published all but the range it holds, and which items
the slots hold (`ItemsInv`). The refinement of the ring is proved from it as for the other
strategy; here a publication is one step however long the range is.

### The blocking strategy

`BlockingRefinement` proves `BlockingSpec => ImplementsSpinning`: a step under the
mutex is a step of the spinning system, and a predicate that fails is a scan that
fails, or nothing at all for a reader waiting for one entry. That needs `WaitPlaces`:
producers and readers wait where they should, and the barriers scanned so far did not
precede the awaited sequence. All theorems about `Spec` carry over; three are stated.

`BlockingWakeUps` proves `BlockingSpec => []NoLostWakeUp`, with no assumption on the
words. `NoLostWakeUp` speaks of sleeping threads and is not inductive: a store may come
when a thread has found its predicate false and is not yet asleep. `WakeUpInv` covers
that thread too, and `MutexInv` says that it holds the mutex, so that the publisher's
notification has to wait until it sleeps. A failed load shows that the wait is not
satisfied (`FailedLoad`), a store leaves a signal pending (`StoreSignals`), every other
step leaves waits and pending signals alone (`StepLocal`, `PendingStays`), and the
signal empties the wait set with the mutex free. `UntimedAssumption` is used: a wait
that timed out would leave its place.

### Only model-checked

- Liveness: `AllConsumed`, `TimedWaitReturns`, `WaitersSleepAgain`, and the two refinements
  that include fairness, `ImplementsFairRing` and `ImplementsTimedWaits`. Fairness and
  ENABLED are out of the prover's reach.
- `ActiveWindow` after the counter has left the first half of the words. With one
  multi-producer thread it holds there too (`diamond`); with two the code does not ensure it.
- That a workload of `N` items keeps `FewClaims`: the sum of what the producers have claimed
  is an induction over the set of producers, which the prover cannot do.
- The two findings.

## Not modelled

- `add_claim_barrier` and `add`: documented as not thread-safe and called before the
  threads start. Their result is the constants `ClaimBarriers` and `Upstream`.
- The timed waits of `blocking_wait_strategy`, which do not compile.
- Exceptions: a wait strategy that throws out of `claim` loses the claimed range, and the
  code does not handle it (listed as a hazard).
- Older values that loads may return on weak memory (see Memory orders).
- Padding and `config.hpp`; what `spin_once` does to the processor; durations.
- `test/benchmark.cpp`: it measures latency with the reader and writer loops that are
  modelled.

## Plan

Done: both claim strategies, both wait strategies, the memory orders, the ring and the
refinements; the proofs of the safety of both claim strategies, of the ring for both and for
the blocking strategy, of the freedom from data races, of the wake-ups.

Left, in this order:

1. Carry the theorems about `SingleThreadedClaimStrategy` over to `SpinningDisruptor`: each
   step of the loop with counter and clock is a step of `Spec` or a stutter, as for the
   blocking strategy. Only the fairness part of `ImplementsTimedWaits` stays with TLC.
2. The bound of the spin counter (it never leaves `0 .. MaxValue`, and at its maximum goes
   back to a value that yields) as an invariant of `SpinningDisruptor`.
3. The memory orders of the single-producer strategy, by the argument of `OrderInv` with the
   read barrier in the place of the entries.
