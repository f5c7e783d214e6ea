-------------------------- MODULE MCMultiThreaded --------------------------
(***************************************************************************)
(* Instances of MultiThreadedClaimStrategy: one to three threads on each   *)
(* side, wired as the benchmarks wire them.                                *)
(***************************************************************************)
EXTENDS MultiThreadedInvariant, TLC

CONSTANTS p1, p2, c1, c2, c3

OneProducer == {p1}
TwoProducers == {p1, p2}
OneConsumer == {c1}
TwoConsumers == {c1, c2}
ThreeConsumers == {c1, c2, c3}

\* benchmark/sequencer.cpp: several producers, one reader.
SequencerThreads == TwoProducers \cup OneConsumer
SequencerGate == <<c1>>
SequencerUpstream == [c \in OneConsumer |-> <<>>]
SequencerAncestors == [c \in OneConsumer |-> {}]

\* benchmark/unicast.cpp: one of each, with the sequencer's wiring.
UnicastThreads == OneProducer \cup OneConsumer

\* benchmark/multicast.cpp: every reader waits for the claim strategy and
\* gates it.
MulticastThreads == TwoProducers \cup TwoConsumers
MulticastGate == <<c1, c2>>
MulticastUpstream == [c \in TwoConsumers |-> <<>>]
MulticastAncestors == [c \in TwoConsumers |-> {}]

\* benchmark/diamond.cpp: the last reader waits for the group of the others
\* and alone gates the producer.
DiamondThreads == OneProducer \cup ThreeConsumers
DiamondGate == <<c3>>
DiamondUpstream == (c1 :> <<>>) @@ (c2 :> <<>>) @@ (c3 :> <<c1, c2>>)
DiamondAncestors == (c1 :> {}) @@ (c2 :> {}) @@ (c3 :> {c1, c2})

\* benchmark/pipeline.cpp: the second reader waits for the first and gates.
PipelineThreads == TwoProducers \cup TwoConsumers
PipelineGate == <<c2>>
PipelineUpstream == (c1 :> <<>>) @@ (c2 :> <<c1>>)
PipelineAncestors == (c1 :> {}) @@ (c2 :> {c1})

=============================================================================
