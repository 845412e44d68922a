---------------------------- MODULE MCGroupTable ----------------------------
(* Group A of deploy/postgres/seed_fixture.sql with its six fixtures.      *)
EXTENDS GroupTable

CONSTANTS ARG, SCO, POL, MAR, Outsider

MCTeams == <<ARG, SCO, POL, MAR>>
Fixtures == <<<<ARG, SCO>>, <<POL, MAR>>, <<ARG, POL>>, <<SCO, MAR>>,
              <<ARG, MAR>>, <<SCO, POL>>>>

MCResult(m, teams, score) ==
  [match |-> m, home |-> teams[1], away |-> teams[2],
   homeGoals |-> score[1], awayGoals |-> score[2]]

\* Every fixture can end level or be won by either side by one goal, the
\* last one also with a negative score or with a team of another group.
MCReport ==
  {MCResult(m, Fixtures[m], score) :
     m \in Match, score \in {<<1, 0>>, <<1, 2>>, <<0, 0>>}}
  \cup {MCResult(MatchesPerGroup, <<SCO, Outsider>>, <<1, 0>>),
        MCResult(MatchesPerGroup, <<SCO, POL>>, <<-1, 0>>)}
=============================================================================
