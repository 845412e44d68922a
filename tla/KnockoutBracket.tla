--------------------------- MODULE KnockoutBracket ---------------------------
(***************************************************************************)
(* The end of the group stage and what comes after it in fixture-core: the *)
(* result that completes the last group makes the aggregate rank the best  *)
(* thirds and draw the bracket, knockout results advance it, and the       *)
(* administration commands (initialise, generate, close) save what they    *)
(* loaded. The race of two results is FixtureService's subject: here a     *)
(* result is one step, and an administration command two.                  *)
(*                                                                         *)
(* A team is the group and the place it finished in; a group's table is    *)
(* reduced to whether a match is still to be played and to the standing of *)
(* its third. A result is reported for the teams of its match.             *)
(*                                                                         *)
(* Three defects keep fixture_db out of the knockout stage. `repaired`,    *)
(* chosen once, says which of them are taken as mended; {} is the code as  *)
(* built.                                                                  *)
(***************************************************************************)
EXTENDS Integers, Sequences, FiniteSets

CONSTANTS
  Standing,         \* <<points, goal difference, goals for, fair play>>
  InitialThirds,    \* the tables from which the stage's last matches start
  Open,             \* the groups with one match still to be played
  Score,            \* reported results of knockout matches
  Playable,         \* the knockout matches results are reported for
  NoScore

Letters == <<"A", "B", "C", "D", "E", "F", "G", "H", "I", "J", "K", "L">>
Group == {Letters[i] : i \in DOMAIN Letters}

\* groupStatus: Save writes groups.status. matchNumbers: the bracket does not
\* reuse the numbers of group matches. knockoutScan: loadKnockoutRounds has a
\* destination for each column it selects.
Defects == {"groupStatus", "matchNumbers", "knockoutScan"}

GroupMatches == 72   \* twelve groups of six, numbered from 1

ASSUME KnockoutAssumption ==
  /\ Standing \subseteq Int \X Int \X Int \X Int
  /\ InitialThirds \subseteq [Group -> Standing]
  /\ Open \subseteq Group /\ Open # {}
  /\ NoScore \notin Score

VARIABLES
  stored,      \* the rows of fixture_db, as the aggregate Save writes
  admin,       \* the administration command under way
  announced,   \* history: the events of every committed command
  repaired     \* the defects taken as mended

vars == <<stored, admin, announced, repaired>>

BlankStanding == <<0, 0, 0, 0>>
Team == Group \X (1..3)
Unresolved == <<"WINNER_OF", 0>>
Nobody == <<"nil", 0>>
Slot == Team \cup {Unresolved, Nobody}
NoMatch == <<0, 0>>

KnockoutMatch == [number: Nat, home: Slot, away: Slot, score: Score \cup {NoScore},
                  parentHome: {NoMatch}, parentAway: {NoMatch}]
Phases == <<"ROUND_OF_32", "QUARTERFINAL", "SEMIFINAL", "THIRD_PLACE", "FINAL">>

GroupRow == [status: {"PENDING", "IN_PROGRESS", "COMPLETED"}, open: BOOLEAN,
             third: Standing \cup {BlankStanding}]
Fixture == [version: Nat,
            status: {"GROUP_STAGE", "KNOCKOUT", "FINISHED"},
            groups: [Group -> GroupRow],
            rounds: Seq(Seq(KnockoutMatch))]

KnockoutBracketGeneratedPayload ==
  [type: {"KnockoutBracketGenerated"}, round: Seq(KnockoutMatch)]
KnockoutMatchAdvancedPayload ==
  [type: {"KnockoutMatchAdvanced"}, of: Nat \X Nat, winner: Slot, loser: Slot]
TournamentFinishedPayload == [type: {"TournamentFinished"}, champion: Slot]

-----------------------------------------------------------------------------
(* Best thirds.                                                            *)

\* Mutant: goals for are compared before goal difference.
StandingLessByGoals(a, b) ==
  \/ a[1] > b[1]
  \/ a[1] = b[1] /\ a[3] > b[3]
  \/ a[1] = b[1] /\ a[3] = b[3] /\ a[2] > b[2]
  \/ a[1] = b[1] /\ a[2] = b[2] /\ a[3] = b[3] /\ a[4] < b[4]

\* Points, goal difference, goals for, and the fewer cards.
StandingLess(a, b) ==
  \/ a[1] > b[1]
  \/ a[1] = b[1] /\ a[2] > b[2]
  \/ a[1] = b[1] /\ a[2] = b[2] /\ a[3] > b[3]
  \/ a[1] = b[1] /\ a[2] = b[2] /\ a[3] = b[3] /\ a[4] < b[4]

\* Where a stable sort by StandingLess puts the i-th candidate.
RankOf(thirds, i) ==
  1 + Cardinality({j \in DOMAIN thirds :
        \/ StandingLess(thirds[j].standing, thirds[i].standing)
        \/ j < i /\ ~ StandingLess(thirds[i].standing, thirds[j].standing)})

\* Mutant: the candidates are taken in the order of their groups.
ClassifyUnsorted(thirds) ==
  [k \in 1..(IF Len(thirds) < 8 THEN Len(thirds) ELSE 8) |-> thirds[k].team]

Classify(thirds) ==
  IF Len(thirds) < 8
  THEN [i \in DOMAIN thirds |-> thirds[i].team]
  ELSE [k \in 1..8 |->
          thirds[CHOOSE i \in DOMAIN thirds : RankOf(thirds, i) = k].team]

\* Mutant: the last of each group, off by one.
BestFourthCandidates(f) ==
  [i \in DOMAIN Letters |-> [team     |-> <<Letters[i], 4>>,
                             standing |-> f.groups[Letters[i]].third]]

BestThirdCandidates(f) ==
  [i \in DOMAIN Letters |-> [team     |-> <<Letters[i], 3>>,
                             standing |-> f.groups[Letters[i]].third]]

\* GetBestThirds: ROW_NUMBER numbers the rows of position 3 in some order that
\* agrees with the ORDER BY, and classifies the first eight. Every such set is
\* a possible answer; nothing asks whether the group stage is over.
SqlBefore(a, b) ==
  \/ a[1] > b[1]
  \/ a[1] = b[1] /\ a[2] > b[2]
  \/ a[1] = b[1] /\ a[2] = b[2] /\ a[3] > b[3]
  \/ a[1] = b[1] /\ a[2] = b[2] /\ a[3] = b[3] /\ a[4] < b[4]
GetBestThirds(f, S) ==
  /\ Cardinality(S) = 8
  /\ \A g \in S, h \in Group \ S : ~ SqlBefore(f.groups[h].third, f.groups[g].third)

-----------------------------------------------------------------------------
(* The bracket.                                                            *)

BestThirdsOrNil(best, i) == IF i <= Len(best) THEN best[i] ELSE Nobody

\* Mutant: one group's second is entered where another's belongs.
RoundOf32Misprint(best) ==
  LET third(k) == BestThirdsOrNil(best, k)
  IN << <<<<"A", 1>>, <<"B", 2>>>>, <<<<"C", 1>>, <<"D", 2>>>>,
        <<<<"E", 1>>, <<"F", 2>>>>, <<<<"G", 1>>, <<"H", 2>>>>,
        <<<<"I", 1>>, <<"J", 2>>>>, <<<<"K", 1>>, <<"L", 2>>>>,
        <<<<"B", 1>>, <<"A", 2>>>>, <<<<"D", 1>>, <<"C", 2>>>>,
        <<<<"F", 1>>, third(1)>>, <<<<"H", 1>>, third(2)>>,
        <<<<"J", 1>>, third(3)>>, <<<<"L", 1>>, third(4)>>,
        <<<<"E", 2>>, third(5)>>, <<<<"G", 2>>, third(6)>>,
        <<<<"I", 2>>, third(7)>>, <<<<"I", 2>>, third(8)>> >>

\* The sixteen pairings, in the order of match numbers.
RoundOf32Slots(best) ==
  LET third(k) == BestThirdsOrNil(best, k)
  IN << <<<<"A", 1>>, <<"B", 2>>>>, <<<<"C", 1>>, <<"D", 2>>>>,
        <<<<"E", 1>>, <<"F", 2>>>>, <<<<"G", 1>>, <<"H", 2>>>>,
        <<<<"I", 1>>, <<"J", 2>>>>, <<<<"K", 1>>, <<"L", 2>>>>,
        <<<<"B", 1>>, <<"A", 2>>>>, <<<<"D", 1>>, <<"C", 2>>>>,
        <<<<"F", 1>>, third(1)>>, <<<<"H", 1>>, third(2)>>,
        <<<<"J", 1>>, third(3)>>, <<<<"L", 1>>, third(4)>>,
        <<<<"E", 2>>, third(5)>>, <<<<"G", 2>>, third(6)>>,
        <<<<"I", 2>>, third(7)>>, <<<<"K", 2>>, third(8)>> >>

BuildRoundOf32(best) ==
  LET slots == RoundOf32Slots(best)
  IN [i \in 1..16 |-> [number |-> 48 + i, home |-> slots[i][1], away |-> slots[i][2],
                       score |-> NoScore,
                       parentHome |-> NoMatch, parentAway |-> NoMatch]]

\* Neither the slots nor the matches say which matches they depend on.
BuildEmptyRound(count, start) ==
  [i \in 1..count |-> [number |-> start + i - 1, home |-> Unresolved,
                       away |-> Unresolved, score |-> NoScore,
                       parentHome |-> NoMatch, parentAway |-> NoMatch]]

GenerateKnockoutBracket(f) ==
  << BuildRoundOf32(Classify(BestThirdCandidates(f))),
     BuildEmptyRound(8, 65), BuildEmptyRound(4, 73),
     BuildEmptyRound(1, 77), BuildEmptyRound(1, 78) >>

\* Mutant: the last group in the list is not looked at.
AllButLastComplete(f) ==
  \A g \in Group \ {"L"} : f.groups[g].status = "COMPLETED"

AllGroupsComplete(f) == \A g \in Group : f.groups[g].status = "COMPLETED"

-----------------------------------------------------------------------------
(* Results of knockout matches.                                            *)

Side(goals, i) == IF goals = <<>> THEN 0 ELSE goals[i]
Total(s, i) == s.goals[i] + Side(s.et, i) + Side(s.pen, i)

\* Goals of regular time, extra time and penalties are added up.
Winner(match, s) ==
  IF Total(s, 1) > Total(s, 2) THEN match.home
  ELSE IF Total(s, 2) > Total(s, 1) THEN match.away ELSE Nobody
Loser(match, s) ==
  IF Winner(match, s) = Nobody THEN Nobody
  ELSE IF Winner(match, s) = match.home THEN match.away ELSE match.home

IsResolved(slot) == slot # Unresolved

\* Mutant: a knockout match can be played twice.
AcceptsReplay(match, s) ==
  /\ IsResolved(match.home) /\ IsResolved(match.away)
  /\ s.goals[1] >= 0 /\ s.goals[2] >= 0
  /\ s.goals[1] = s.goals[2] => s.et # <<>>

ValidResult(match, s) ==
  /\ match.score = NoScore
  /\ IsResolved(match.home) /\ IsResolved(match.away)
  /\ s.goals[1] >= 0 /\ s.goals[2] >= 0
  /\ s.goals[1] = s.goals[2] => s.et # <<>>

\* The CHECKs on match_results. Of penalties AdvanceKnockoutMatch asks nothing.
RowAccepted(s) ==
  /\ \A i \in 1..2 : Side(s.et, i) >= 0 /\ Side(s.pen, i) >= 0
  /\ s.pen # <<>> => s.et # <<>> /\ s.pen[1] # s.pen[2]

\* Where findKnockoutMatch looks.
Positions(rounds) == UNION {{r} \X DOMAIN rounds[r] : r \in DOMAIN rounds}

\* The first match that names m as a parent, if one does.
FindNextMatch(rounds, m) ==
  LET next == {n \in Positions(rounds) :
                 m \in {rounds[n[1]][n[2]].parentHome, rounds[n[1]][n[2]].parentAway}}
  IN IF next = {} THEN NoMatch
     ELSE CHOOSE n \in next : \A o \in next : rounds[n[1]][n[2]].number
                                             <= rounds[o[1]][o[2]].number

\* The winner goes to the next match: to its home slot if the completed match is
\* its own parent, else to the away slot.
WithWinner(next, match, m, s) ==
  IF match.parentHome = m THEN [next EXCEPT !.home = Winner(match, s)]
                          ELSE [next EXCEPT !.away = Winner(match, s)]

\* The loser of semifinal m goes to the slot of the match for third place that
\* names m.
AssignThirdPlaceSlot(next, match, m, s) ==
  CASE next.parentHome = m -> [next EXCEPT !.home = Loser(match, s)]
    [] next.parentHome # m /\ next.parentAway = m
         -> [next EXCEPT !.away = Loser(match, s)]
    [] OTHER -> next

WithScore(match, s) == [match EXCEPT !.score = s]

\* The result, the winner's slot and the third place, one after the other.
AdvanceKnockoutBracket(rounds, m, s) ==
  LET match == rounds[m[1]][m[2]]
      next  == FindNextMatch(rounds, m)
      scored(r, i)   == IF <<r, i>> = m THEN WithScore(match, s) ELSE rounds[r][i]
      resolved(r, i) == IF <<r, i>> = next THEN WithWinner(scored(r, i), match, m, s)
                                           ELSE scored(r, i)
  IN [r \in DOMAIN rounds |-> [i \in DOMAIN rounds[r] |->
        IF Phases[m[1]] = "SEMIFINAL" /\ Phases[r] = "THIRD_PLACE"
        THEN AssignThirdPlaceSlot(resolved(r, i), match, m, s)
        ELSE resolved(r, i)]]

BracketGenerated(rounds) ==
  [type |-> "KnockoutBracketGenerated", round |-> rounds[1]]
KnockoutMatchAdvanced(m, match, s) ==
  [type |-> "KnockoutMatchAdvanced", of |-> m, winner |-> Winner(match, s),
   loser |-> Loser(match, s)]
TournamentFinished(match, s) ==
  [type |-> "TournamentFinished", champion |-> Winner(match, s)]
ResultEvents(m, match, s) ==
  {KnockoutMatchAdvanced(m, match, s)}
    \cup (IF Phases[m[1]] = "FINAL" THEN {TournamentFinished(match, s)} ELSE {})

-----------------------------------------------------------------------------
(* The commands.                                                           *)

\* In the knockout stage the rounds are loaded too, and the scan fails.
Loads == stored.status = "GROUP_STAGE" \/ "knockoutScan" \in repaired

\* Mutant: an aggregate older than the rows is saved too.
LockHeldLoosely(f) == f.version - 1 <= stored.version

\* UPDATE tournaments ... WHERE version = f.Version - 1.
LockHeld(f) == stored.version = f.version - 1

\* UNIQUE (tournament_id, match_number).
NumbersFree(f) ==
  \/ "matchNumbers" \in repaired
  \/ \A r \in DOMAIN f.rounds : \A i \in DOMAIN f.rounds[r] :
       f.rounds[r][i].number > GroupMatches

\* Save: all of the aggregate or nothing. The groups table is not written.
Save(f, events) ==
  IF LockHeld(f) /\ NumbersFree(f)
  THEN /\ stored' = [f EXCEPT !.groups = [g \in Group |->
                       [f.groups[g] EXCEPT !.status =
                          IF "groupStatus" \in repaired THEN @
                          ELSE stored.groups[g].status]]]
       /\ announced' = announced \cup events
  ELSE UNCHANGED <<stored, announced>>

\* The outstanding match of group g, after which its third has standing t.
CompleteGroup(f, g, t) ==
  LET groups == [f.groups EXCEPT ![g] = [status |-> "COMPLETED", open |-> FALSE,
                                         third |-> t]]
      played == [f EXCEPT !.groups = groups, !.version = @ + 1]
  IN IF AllGroupsComplete(played)
     THEN [played EXCEPT !.rounds = GenerateKnockoutBracket(played),
                         !.status = "KNOCKOUT"]
     ELSE played

RegisterGroupResult(g, t) ==
  /\ Loads
  /\ stored.groups[g].open
  /\ LET f == CompleteGroup(stored, g, t)
     IN Save(f, IF f.status = "KNOCKOUT" THEN {BracketGenerated(f.rounds)} ELSE {})
  /\ UNCHANGED <<admin, repaired>>

\* The aggregate with result s of knockout match m.
AdvancedFixture(f, m, s) ==
  [f EXCEPT !.version = @ + 1,
            !.status = IF Phases[m[1]] = "FINAL" THEN "FINISHED" ELSE @,
            !.rounds = AdvanceKnockoutBracket(@, m, s)]

\* RegisterMatchResult and AdvanceKnockoutMatch on knockout match m.
RegisterKnockoutResult(m, s) ==
  /\ Loads
  /\ stored.status # "FINISHED"
  /\ m \in Positions(stored.rounds)
  /\ LET match == stored.rounds[m[1]][m[2]]
     IN /\ ValidResult(match, s)
        /\ RowAccepted(s)
        /\ Save(AdvancedFixture(stored, m, s), ResultEvents(m, match, s))
  /\ UNCHANGED <<admin, repaired>>

\* What buildFixture makes of the command: a new aggregate of version 0.
BuiltFixture ==
  [version |-> 0, status |-> "GROUP_STAGE", rounds |-> <<>>,
   groups  |-> [g \in Group |-> [status |-> "PENDING", open |-> TRUE,
                                 third |-> BlankStanding]]]

InitializeTournament ==
  /\ admin.pc = "idle"
  /\ admin' = [pc |-> "save", f |-> BuiltFixture]
  /\ UNCHANGED <<stored, announced, repaired>>

\* The refusals (Conflict, or nil once the bracket exists) change nothing.
GenerateProceeds == AllGroupsComplete(stored) /\ stored.status = "GROUP_STAGE"
CloseProceeds(force) == AllGroupsComplete(stored) \/ force

\* GenerateKnockoutBracket and CloseGroupStage change nothing of what they load.
AdminLoad(force) ==
  /\ admin.pc = "idle"
  /\ Loads
  /\ GenerateProceeds \/ CloseProceeds(force)
  /\ admin' = [pc |-> "save", f |-> stored]
  /\ UNCHANGED <<stored, announced, repaired>>

AdminSave ==
  /\ admin.pc = "save"
  /\ Save(admin.f, {})
  /\ admin' = [pc |-> "idle", f |-> BuiltFixture]
  /\ UNCHANGED repaired

-----------------------------------------------------------------------------
Init ==
  /\ repaired \in SUBSET Defects
  /\ \E thirds \in InitialThirds :
       stored = [version |-> 66, status |-> "GROUP_STAGE", rounds |-> <<>>,
                 groups  |-> [g \in Group |->
                   [status |-> IF "groupStatus" \notin repaired THEN "PENDING"
                               ELSE IF g \in Open THEN "IN_PROGRESS"
                               ELSE "COMPLETED",
                    open   |-> g \in Open,
                    third  |-> thirds[g]]]]
  /\ admin = [pc |-> "idle", f |-> BuiltFixture]
  /\ announced = {}

Next ==
  \/ \E g \in Group, t \in Standing : RegisterGroupResult(g, t)
  \/ \E m \in Playable, s \in Score : RegisterKnockoutResult(m, s)
  \/ InitializeTournament
  \/ \E force \in BOOLEAN : AdminLoad(force)
  \/ AdminSave

Spec == Init /\ [][Next]_vars

-----------------------------------------------------------------------------
TypeOK ==
  /\ stored \in Fixture
  /\ admin \in [pc: {"idle", "save"}, f: Fixture]
  /\ announced \subseteq KnockoutBracketGeneratedPayload \cup KnockoutMatchAdvancedPayload
                             \cup TournamentFinishedPayload
  /\ repaired \in SUBSET Defects

\* The thirds that have a place in the round of 32.
ThirdsDrawn(round) ==
  {g \in Group : \E i \in DOMAIN round : <<g, 3>> \in {round[i].home, round[i].away}}

\* The round of 32 has a place, and one only, for each first and second of the
\* twelve groups and for eight thirds, and no third left out ranks before one
\* of these: the eight are a set that GET best-thirds, which ranks the stored
\* tables by a query of its own, may show as classified.
BracketHoldsTheQualified ==
  stored.rounds # <<>> =>
    LET round  == stored.rounds[1]
        places == [i \in 1..32 |-> IF i <= 16 THEN round[i].home
                                            ELSE round[i - 16].away]
    IN /\ \A i, j \in 1..32 : places[i] = places[j] => i = j
       /\ Group \X {1, 2} \subseteq {places[i] : i \in 1..32}
       /\ GetBestThirds(stored, ThirdsDrawn(round))

\* Once group statuses are stored, the last group result and the bracket are
\* saved together or not at all, whatever the administration commands save.
BracketClosesTheStage ==
  "groupStatus" \in repaired =>
    /\ (\A g \in Group : ~ stored.groups[g].open) <=> stored.rounds # <<>>
    /\ stored.rounds # <<>> <=> stored.status # "GROUP_STAGE"

\* What was announced of the knockout stage is what is stored: the bracket with
\* the teams it still has, and for each match with a result, once, the winner
\* and loser of that result.
AnnouncedIsStored ==
  /\ \A e \in announced :
       e.type = "KnockoutBracketGenerated" =>
         /\ stored.rounds # <<>>
         /\ \A i \in DOMAIN e.round :
              [e.round[i] EXCEPT !.score = NoScore]
                = [stored.rounds[1][i] EXCEPT !.score = NoScore]
  /\ \A e \in announced :
       e.type = "KnockoutMatchAdvanced" =>
         LET match == stored.rounds[e.of[1]][e.of[2]]
         IN match.score # NoScore /\ e = KnockoutMatchAdvanced(e.of, match, match.score)

\* No step undoes what is stored: a closed group keeps its table, a bracket stays
\* drawn and a knockout match keeps its result. An administration command holds
\* the rows as they were when it loaded them, and would put them back over the
\* results stored since if the optimistic lock let its Save through.
ResultsAreNeverUndone ==
  [][/\ \A g \in Group : ~ stored.groups[g].open =>
          /\ ~ stored'.groups[g].open
          /\ stored'.groups[g].third = stored.groups[g].third
     /\ stored.status # "GROUP_STAGE" => stored'.status # "GROUP_STAGE"
     /\ \A m \in Positions(stored.rounds) :
          stored.rounds[m[1]][m[2]].score # NoScore =>
            /\ m \in Positions(stored'.rounds)
            /\ stored'.rounds[m[1]][m[2]] = stored.rounds[m[1]][m[2]]]_vars

-----------------------------------------------------------------------------
(* What comments of the code say and the code does not do.                 *)

\* close_group_stage.go: CloseGroupStage closes the group stage and generates the
\* bracket, with force before the groups are complete. It saves what it loaded, so
\* the stage stays open, also when nothing was stored meanwhile and the three
\* defects are mended.
CloseGroupStageCloses ==
  [][/\ repaired = Defects
     /\ admin.pc = "save" /\ admin'.pc = "idle" /\ admin.f = stored
     => stored'.status # "GROUP_STAGE"]_vars

\* fixture.go: a knockout result resolves the slot of the next match. No match
\* of the bracket names its parents, so no winner gets anywhere.
WinnersAdvance ==
  \A m \in Positions(stored.rounds) :
    LET match == stored.rounds[m[1]][m[2]]
    IN match.score # NoScore /\ Phases[m[1]] # "FINAL" =>
         \E n \in Positions(stored.rounds) :
           /\ n[1] > m[1]
           /\ Winner(match, match.score)
                \in {stored.rounds[n[1]][n[2]].home, stored.rounds[n[1]][n[2]].away}
=============================================================================
