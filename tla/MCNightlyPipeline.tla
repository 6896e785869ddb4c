------------------------- MODULE MCNightlyPipeline -------------------------
(* Model values for the checks of NightlyPipeline: two reports, so that    *)
(* one can take the other's place under a cap.                             *)
EXTENDS NightlyPipeline, TLC

CONSTANTS r1, r2

Symmetry == Permutations(Reports)
=============================================================================
