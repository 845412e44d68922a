--------------------------- MODULE MCFixtureReads ---------------------------
(* Two groups of two matches and one knockout match, in pages of two: the  *)
(* pages of a listing are full, partly full or empty.                      *)
EXTENDS FixtureReads

MCGroupOf == [m \in 1..4 |-> IF m <= 2 THEN "A" ELSE "B"]
MCKnockout == {5}
MCInitialDay == [m \in 1..5 |-> IF m \in {1, 4} THEN 1 ELSE 2]
=============================================================================
