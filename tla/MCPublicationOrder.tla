------------------------- MODULE MCPublicationOrder -------------------------
(***************************************************************************)
(* Instances of PublicationOrder, with the wirings of MCMultiThreaded.     *)
(***************************************************************************)
EXTENDS PublicationInvariant, MCMultiThreaded

=============================================================================
