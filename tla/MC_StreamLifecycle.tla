------------------------- MODULE MC_StreamLifecycle -------------------------
(***************************************************************************)
(* Instances of StreamLifecycle for TLC.                                   *)
(***************************************************************************)
EXTENDS StreamLifecycle, TLC

Symmetry == Permutations(Exchanges)

=============================================================================
