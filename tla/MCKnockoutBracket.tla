------------------------- MODULE MCKnockoutBracket -------------------------
(* An instance of KnockoutBracket: the last matches of groups A and L, and *)
(* results of four knockout matches.                                       *)
EXTENDS KnockoutBracket

Better == <<4, 1, 3, 0>>
Level == <<4, 0, 4, 0>>
Worse == <<3, 2, 5, 1>>
Rough == <<4, 0, 4, 2>>

MCStanding == {Better, Level, Worse, Rough}

\* Every third level; the early groups weaker; the cut between the cards; a
\* table in which more goals do not make up for the goal difference.
MCInitialThirds ==
  LET index(g) == CHOOSE i \in DOMAIN Letters : Letters[i] = g
      table(split, high, low) == [g \in Group |-> IF index(g) > split THEN high ELSE low]
  IN { table(0, Level, Level), table(4, Better, Worse), table(7, Rough, Level),
       table(6, Level, Better), table(6, Better, Level) }

MCOpen == {"A", "L"}

MCScore == { [goals |-> <<2, 1>>, et |-> <<>>, pen |-> <<>>],
             [goals |-> <<1, 1>>, et |-> <<0, 1>>, pen |-> <<>>],
             [goals |-> <<1, 1>>, et |-> <<0, 0>>, pen |-> <<4, 3>>],
             [goals |-> <<0, 0>>, et |-> <<0, 0>>, pen |-> <<>>],
             [goals |-> <<0, 0>>, et |-> <<>>, pen |-> <<>>],
             [goals |-> <<1, 1>>, et |-> <<0, 0>>, pen |-> <<3, 3>>],
             [goals |-> <<2, 1>>, et |-> <<>>, pen |-> <<1, 0>>] }

\* Two matches of the round of 32, one of them with a best third, one of a later
\* round and the final.
MCPlayable == {<<1, 1>>, <<1, 16>>, <<2, 1>>, <<5, 1>>}
=============================================================================
