----------------------------- MODULE GroupTable -----------------------------
(***************************************************************************)
(* The league table of one group: what Group.applyResult computes from the *)
(* results, and what upsertStandings can store of it. FixtureService runs  *)
(* this computation under concurrency and counts only which results a      *)
(* table includes; here one command runs at a time, and the table has its  *)
(* scores, its tie-breaks and its order.                                   *)
(*                                                                         *)
(* The slots of the matches are taken as resolved and their rows as read   *)
(* back, which as built they are not (SlotsDecoded, PhaseScanned and       *)
(* ResultScanned of FixtureService); the fourth defect, PositionsSwap, is  *)
(* the variable swappable here.                                            *)
(*                                                                         *)
(* Teams are reported in the command and never compared with the slots of  *)
(* the match. Cards are never written, so the fourth criterion             *)
(* (FairPlayPoints) is always level and is left out.                       *)
(***************************************************************************)
EXTENDS Integers, Sequences, FiniteSets, SequencesExt

CONSTANTS
  Teams,           \* the group's teams as a sequence, by seeding pot
  MatchesPerGroup, \* 6 in production; matches are 1.. in match_number order
  Report,          \* the results the callers send
  NoReport

Team == ToSet(Teams)
Match == 1..MatchesPerGroup

ASSUME TeamsAssumption ==
  /\ Teams \in Seq(Team)
  /\ \A i, j \in DOMAIN Teams : Teams[i] = Teams[j] => i = j
ASSUME ReportAssumption ==
  /\ MatchesPerGroup \in Nat \ {0}
  /\ \A r \in Report : /\ r.match \in Match /\ r.home # r.away
                       /\ r.homeGoals \in Int /\ r.awayGoals \in Int
  /\ NoReport \notin Report

VARIABLES
  swappable, \* is UNIQUE(group_id, position) deferred? (as built: FALSE)
  result,    \* the match_results row of each match
  table,     \* the group_standings rows in order of position
  announced  \* the tables that GroupStageCompleted events carried

vars == <<swappable, result, table, announced>>

-----------------------------------------------------------------------------
(* The table in memory *)

\* A GroupStanding; its Position is its index in the table.
Blank(t) == [team |-> t, played |-> 0, won |-> 0, drawn |-> 0, lost |-> 0,
             goalsFor |-> 0, goalsAgainst |-> 0]
Points(s) == 3 * s.won + s.drawn
GoalDifference(s) == s.goalsFor - s.goalsAgainst

\* Mutants of StandingLess: ties swap; the second criterion is skipped.
StandingLessOrLevel(a, b) ==
  \/ Points(a) > Points(b)
  \/ /\ Points(a) = Points(b)
     /\ \/ GoalDifference(a) > GoalDifference(b)
        \/ /\ GoalDifference(a) = GoalDifference(b)
           /\ a.goalsFor >= b.goalsFor
StandingLessSkipsDifference(a, b) ==
  \/ Points(a) > Points(b)
  \/ Points(a) = Points(b) /\ a.goalsFor > b.goalsFor

\* Cascade of points, goal difference and goals scored.
StandingLess(a, b) ==
  \/ Points(a) > Points(b)
  \/ /\ Points(a) = Points(b)
     /\ \/ GoalDifference(a) > GoalDifference(b)
        \/ /\ GoalDifference(a) = GoalDifference(b)
           /\ a.goalsFor > b.goalsFor

\* One round of the insertion sort: s moves up past every row it beats.
InsertStanding(sorted, s) ==
  InsertAt(sorted,
           SelectLastInSeq(sorted, LAMBDA t : ~StandingLess(s, t)) + 1, s)

\* The outer loop: sorted[n] has the first n rows.
SortStandings(standings) ==
  LET sorted[n \in 0..Len(standings)] ==
        IF n = 0 THEN <<>> ELSE InsertStanding(sorted[n - 1], standings[n])
  IN sorted[Len(standings)]

ApplyResultToStanding(s, goalsFor, goalsAgainst) ==
  [team |-> s.team,
   played |-> s.played + 1,
   won |-> IF goalsFor > goalsAgainst THEN s.won + 1 ELSE s.won,
   drawn |-> IF goalsFor = goalsAgainst THEN s.drawn + 1 ELSE s.drawn,
   lost |-> IF goalsFor < goalsAgainst THEN s.lost + 1 ELSE s.lost,
   goalsFor |-> s.goalsFor + goalsFor,
   goalsAgainst |-> s.goalsAgainst + goalsAgainst]

\* Mutant of ApplyMatchToStandings: the away team gets the home team's score.
AwayGoalsAsHome(standings, r) ==
  SortStandings(
    [i \in DOMAIN standings |->
       LET s == standings[i] IN
       IF s.team \in {r.home, r.away}
       THEN ApplyResultToStanding(s, r.homeGoals, r.awayGoals)
       ELSE s])

ApplyMatchToStandings(standings, r) ==
  SortStandings(
    [i \in DOMAIN standings |->
       LET s == standings[i] IN
       CASE s.team = r.home -> ApplyResultToStanding(s, r.homeGoals, r.awayGoals)
         [] s.team = r.away -> ApplyResultToStanding(s, r.awayGoals, r.homeGoals)
         [] OTHER           -> s])

SeededTable == [i \in DOMAIN Teams |-> Blank(Teams[i])]

\* The tables of the replay, from scratch: after[m] counts the results of the
\* first m matches.
StandingsAfter(results) ==
  LET after[m \in 0..MatchesPerGroup] ==
        IF m = 0 THEN SeededTable
        ELSE IF results[m] = NoReport THEN after[m - 1]
        ELSE ApplyMatchToStandings(after[m - 1], results[m])
  IN after
RecalculateStandings(results) == StandingsAfter(results)[MatchesPerGroup]

\* Mutant of IsComplete: five of the six matches are enough.
IsAlmostComplete(results) ==
  \E n \in Match : \A m \in Match \ {n} : results[m] # NoReport

IsComplete(results) == \A m \in Match : results[m] # NoReport

-----------------------------------------------------------------------------
(* The table in fixture_db *)

Order(standings) == [i \in DOMAIN standings |-> standings[i].team]

\* Mutant of PositionTaken: the constraint is deferred to the commit.
NeverTaken(old, new, i) == FALSE

\* The upsert writes the rows in their new order and the constraint is
\* checked after each. Row i fails when the team that held position i is
\* another one and has not been moved by an earlier row; the rows already
\* written hold positions before i.
PositionTaken(old, new, i) ==
  old[i] # new[i] /\ old[i] \notin {new[j] : j \in 1..(i - 1)}
UpsertRefused(old, new) == \E i \in DOMAIN new : PositionTaken(old, new, i)

-----------------------------------------------------------------------------
(* RegisterMatchResult: applyResult and Save *)

Init ==
  /\ swappable \in BOOLEAN
  /\ result = [m \in Match |-> NoReport]
  /\ table = SeededTable
  /\ announced = {}

\* Mutant of ValidResult: negative goals pass.
SignUnchecked(r) == result[r.match] = NoReport

\* validateResult: not completed, no negative goals.
ValidResult(r) ==
  /\ result[r.match] = NoReport
  /\ r.homeGoals >= 0 /\ r.awayGoals >= 0

Storable(new) == swappable \/ ~UpsertRefused(Order(table), Order(new))

RegisterMatchResult(r) ==
  LET results == [result EXCEPT ![r.match] = r]
      standings == RecalculateStandings(results)
  IN /\ ValidResult(r)
     /\ Storable(standings)
     /\ result' = results
     /\ table' = standings
     /\ announced' = IF IsComplete(results) THEN announced \cup {standings}
                                            ELSE announced
     /\ UNCHANGED swappable

\* Save rolls the transaction back; the caller gets a 500.
SaveFails(r) ==
  /\ ValidResult(r)
  /\ ~Storable(RecalculateStandings([result EXCEPT ![r.match] = r]))
  /\ UNCHANGED vars

RejectResult(r) ==
  /\ ~ValidResult(r)
  /\ UNCHANGED vars

Next == \E r \in Report :
          RegisterMatchResult(r) \/ SaveFails(r) \/ RejectResult(r)

Spec == Init /\ [][Next]_vars

-----------------------------------------------------------------------------
(* Properties *)

Standing == [team: Team, played: Nat, won: Nat, drawn: Nat, lost: Nat,
             goalsFor: Nat, goalsAgainst: Nat]
TypeOK ==
  /\ swappable \in BOOLEAN
  /\ result \in [Match -> Report \cup {NoReport}]
  /\ table \in Seq(Standing)
  /\ \A t \in announced : t \in Seq(Standing)

\* The results that name team t, and its goals in result r.
Named(t) == {m \in Match : result[m] # NoReport
                           /\ t \in {result[m].home, result[m].away}}
Scored(t, r) == IF t = r.home THEN r.homeGoals ELSE r.awayGoals
Conceded(t, r) == IF t = r.home THEN r.awayGoals ELSE r.homeGoals

\* The sums of the first values of f, a number for each match.
Sums(f) ==
  LET sum[m \in 0..MatchesPerGroup] == IF m = 0 THEN 0 ELSE sum[m - 1] + f[m]
  IN sum
SumOver(matches, f) ==
  Sums([m \in Match |-> IF m \in matches THEN f[m] ELSE 0])[MatchesPerGroup]
Tally(t) ==
  LET scored   == [m \in Named(t) |-> Scored(t, result[m])]
      conceded == [m \in Named(t) |-> Conceded(t, result[m])]
  IN [team |-> t,
      played |-> Cardinality(Named(t)),
      won |-> Cardinality({m \in Named(t) : scored[m] > conceded[m]}),
      drawn |-> Cardinality({m \in Named(t) : scored[m] = conceded[m]}),
      lost |-> Cardinality({m \in Named(t) : scored[m] < conceded[m]}),
      goalsFor |-> SumOver(Named(t), scored),
      goalsAgainst |-> SumOver(Named(t), conceded)]

\* The stored table has one row for every team of the group, and the row
\* says what the stored results that name the team add up to, whatever the
\* order they were registered in (recalculateStandings, group.go:120).
TableMatchesResults ==
  /\ Len(table) = Len(Teams)
  /\ {table[i] : i \in DOMAIN table} = {Tally(t) : t \in Team}

\* No team stands above one that beats it on points, then goal difference,
\* then goals scored: the insertion sort that runs after every match on the
\* order left by the match before ends in FIFA's order (standing.go:40-50).
TableIsRanked ==
  \A i, j \in DOMAIN table :
    i < j =>
      LET a == table[i]
          b == table[j]
          rank == <<Points(a) - Points(b),
                    GoalDifference(a) - GoalDifference(b),
                    a.goalsFor - b.goalsFor>>
      IN \A k \in 1..3 : rank[k] < 0 => \E l \in 1..(k - 1) : rank[l] > 0

\* A GroupStageCompleted event carries the group's last table: nothing that
\* is registered afterwards changes the standings that were announced.
AnnouncedTableIsFinal ==
  announced \subseteq {table}

Above(standings, s, t) ==
  \E i, j \in DOMAIN standings :
    i < j /\ standings[i].team = s /\ standings[j].team = t

\* A result never changes the order of two teams that it does not name: the
\* replay of all the results breaks ties by the order they left before, so
\* the sort must be stable (SortStandings, standing.go:66).
BystandersKeepOrder ==
  [][\A r \in Report :
       (result[r.match] = NoReport /\ result'[r.match] = r) =>
         \A s, t \in Team \ {r.home, r.away} :
           Above(table, s, t) <=> Above(table', s, t)]_vars

\* With the constraint as built Save refuses exactly the results that change
\* the order of the table: a team that overtakes another is never stored.
RefusedIffReordered ==
  \A r \in Report :
    ValidResult(r) =>
      LET new == RecalculateStandings([result EXCEPT ![r.match] = r])
      IN UpsertRefused(Order(table), Order(new)) <=> Order(new) # Order(table)
=============================================================================
