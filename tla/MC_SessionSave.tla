--------------------------- MODULE MC_SessionSave ---------------------------
(***************************************************************************)
(* Instances of SessionSave for TLC.                                       *)
(***************************************************************************)
EXTENDS SessionSave

Symmetry == Permutations(OldTurns) \cup Permutations(Turns \ OldTurns)
              \cup Permutations(Savers)

=============================================================================
