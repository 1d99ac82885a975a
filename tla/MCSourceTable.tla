--------------------------- MODULE MCSourceTable ---------------------------
EXTENDS SourceTable, TLC
CONSTANTS s1, s2, s3, a1, a2, b1
MCHost == [a \in Addr |-> IF a = b1 THEN "B" ELSE "A"]
MCLists == {{}} \cup {{s} : s \in SSRC}
Symmetry == Permutations(SSRC)
=============================================================================
