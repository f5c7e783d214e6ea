----------------------------- MODULE MCSpinning -----------------------------
(***************************************************************************)
(* Instances of SpinningDisruptor, with the wirings of MCSingleThreaded.   *)
(***************************************************************************)
EXTENDS SpinningDisruptor, MCSingleThreaded

=============================================================================
