--------------------------- MODULE MCAccessLedger ---------------------------
(* Model values for the checks of AccessLedger.                            *)
EXTENDS AccessLedger, TLC

CONSTANTS g1, g2, w1, w2, r1

\* Sound for the run of safety properties, none of which tells one writer
\* from another.  The runs of liveness use none.
Symmetry == Permutations(Writers)
=============================================================================
