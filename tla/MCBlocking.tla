----------------------------- MODULE MCBlocking -----------------------------
(***************************************************************************)
(* Instances of BlockingDisruptor, with the wirings of MCMultiThreaded.    *)
(***************************************************************************)
EXTENDS BlockingDisruptor, MCMultiThreaded

=============================================================================
