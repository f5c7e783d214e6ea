-------------------------- MODULE MCSingleThreaded --------------------------
(***************************************************************************)
(* Instances of SingleThreadedClaimStrategy, wired as the benchmarks wire  *)
(* them.                                                                   *)
(***************************************************************************)
EXTENDS SingleThreadedInvariant, TLC

CONSTANTS p1, c1, c2, c3

OneProducer == {p1}
TwoConsumers == {c1, c2}
ThreeConsumers == {c1, c2, c3}

\* benchmark/pipeline.cpp: each reader waits for the one before it, and the
\* last one gates the producer.
PipelineThreads == OneProducer \cup TwoConsumers
PipelineBarriers == TwoConsumers \cup {ReadBarrier}
PipelineGate == <<c2>>
PipelineUpstream == (c1 :> <<ReadBarrier>>) @@ (c2 :> <<c1>>)
PipelineAncestors == (c1 :> {}) @@ (c2 :> {c1})

\* A pipeline (c1, c2) beside another reader of the producer (c3): the ends of
\* both gate it, as all readers do in benchmark/multicast.cpp.
ForkThreads == OneProducer \cup ThreeConsumers
ForkBarriers == ThreeConsumers \cup {ReadBarrier}
ForkGate == <<c2, c3>>
ForkUpstream ==
    (c1 :> <<ReadBarrier>>) @@ (c2 :> <<c1>>) @@ (c3 :> <<ReadBarrier>>)
ForkAncestors == (c1 :> {}) @@ (c2 :> {c1}) @@ (c3 :> {})

=============================================================================
