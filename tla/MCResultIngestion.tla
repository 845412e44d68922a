-------------------------- MODULE MCResultIngestion --------------------------
(* Instances of ResultIngestion.                                           *)
EXTENDS ResultIngestion, TLC

CONSTANTS m1, m2

Score(m, home, away) ==
  [match |-> m, home |-> home, away |-> away, homeET |-> Nil, awayET |-> Nil,
   homePen |-> Nil, awayPen |-> Nil]

\* A match decided 2-1, and the same report with the goals of extra time told
\* apart, which has the same key; and penalties after an extra time that
\* was not level, which no one may publish.
MCReport ==
  {Score(m1, 2, 1),
   [Score(m1, 1, 1) EXCEPT !.homeET = 1, !.awayET = 0],
   [Score(m2, 0, 0) EXCEPT !.homeET = 1, !.awayET = 0,
                           !.homePen = 1, !.awayPen = 2]}

MCSingleReport == {Score(m1, 2, 1)}
=============================================================================
