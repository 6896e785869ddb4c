---------------------------- MODULE MCKbIngest ----------------------------
(* Model values for the checks of KbIngest: an item of each route, and     *)
(* contents that land, are refused by the converter and are only archived. *)
EXTENDS KbIngest, TLC

CONSTANTS i1, i2, x1, x2, bad, rar, nightly, manual

MCAtFirst == [i \in Items |-> x1]
=============================================================================
