--------------------------- MODULE MCLegacyImport ---------------------------
EXTENDS LegacyImport, TLC
CONSTANTS c1, c2, q1, r1, x1, x2, bad

\* Two files of one report, in different versions, and one that does not
\* decompose.
MCReportOf  == (x1 :> r1) @@ (x2 :> r1)
MCVersionOf == (x1 :> x1) @@ (x2 :> x2)

\* They hold a version and a file that does not decompose at first; edits bring
\* in the other version, and the same one twice.
MCTrees == {<<x1, bad>>, <<x2, bad>>}

Symmetry == Permutations({c1, c2}) \cup Permutations({x1, x2})
=============================================================================
