------------------------- MODULE FixtureReadsProofs -------------------------
(***************************************************************************)
(* For any groups, matches and page sizes, and however many commands       *)
(* commit between the queries of a reader:                                 *)
(* - what is torn in the answer of GET /fixture was committed while it was *)
(*   put together: what each query finds only grows, and what a later      *)
(*   query finds is stored no later than what an earlier one does;         *)
(* - a walk through the pages shows a match again only for one that came   *)
(*   into the listing, and skips one only for one that left it or came in  *)
(*   behind a count: a row passes the border of the pages already read     *)
(*   only if another crosses it.                                           *)
(***************************************************************************)
EXTENDS FixtureReads, FiniteSetTheorems, WellFoundedInduction, TLAPS

\* The rows agree with each other: a completed group has all its results, and the
\* knockout stage has every group completed and its bracket.
RowsAgree ==
  /\ groupStatus \in [Group -> GroupStatuses]
  /\ results \subseteq Match
  /\ status \in {"GROUP_STAGE", "KNOCKOUT"} /\ bracket \in BOOLEAN
  /\ \A g \in Group : groupStatus[g] = "COMPLETED" => MatchesOf(g) \subseteq results
  /\ "groupStatus" \notin repaired => \A g \in Group : groupStatus[g] # "COMPLETED"
  /\ "groupStatus" \in repaired =>
       /\ \A g \in Group : MatchesOf(g) \subseteq results => groupStatus[g] = "COMPLETED"
       /\ (\A g \in Group : groupStatus[g] = "COMPLETED") => status = "KNOCKOUT"
  /\ status = "KNOCKOUT" => bracket /\ \A g \in Group : groupStatus[g] = "COMPLETED"

HasStatus == view.pc \in {"groups", "standings", "matches", "knockout", "done"}
HasGroups == view.pc \in {"standings", "matches", "knockout", "done"}
HasStandings == view.pc \in {"matches", "knockout", "done"}
HasMatches == view.pc \in {"knockout", "done"}

\* What an answer under way has is still true of the rows.
AnswerAgrees ==
  /\ view.kind \in {"none", "fixture", "groups", "standings", "knockout", "round"}
  /\ view.pc \in {"idle", "tournament", "groups", "standings", "matches", "knockout", "done"}
  /\ view.kind = "none" => view.pc = "idle"
  /\ view.kind # "fixture" => view.status = "" /\ view.pc # "tournament"
  /\ view.since \subseteq results
  /\ view.kind = "fixture" /\ HasStatus =>
       /\ view.status \in {"GROUP_STAGE", "KNOCKOUT"}
       /\ view.status = "KNOCKOUT" => status = "KNOCKOUT"
       /\ "groupStatus" \in repaired /\ GroupMatch \subseteq view.since =>
            view.status = "KNOCKOUT"
  /\ view.kind \in {"fixture", "groups"} /\ HasGroups =>
       /\ \A g \in Group : view.groups[g] = "COMPLETED" => MatchesOf(g) \subseteq results
       /\ view.kind = "fixture" /\ view.status = "KNOCKOUT" =>
            \A g \in Group : view.groups[g] = "COMPLETED"
       /\ "groupStatus" \in repaired =>
            \A g \in Group : MatchesOf(g) \subseteq view.since =>
                             view.groups[g] = "COMPLETED"
  /\ view.kind \in {"fixture", "groups"} /\ HasStandings =>
       \A g \in Group : /\ view.standings[g] \subseteq results \cap MatchesOf(g)
                        /\ view.since \cap MatchesOf(g) \subseteq view.standings[g]
                        /\ view.groups[g] = "COMPLETED" =>
                             view.standings[g] = MatchesOf(g)
  /\ view.kind \in {"fixture", "groups"} /\ HasMatches =>
       \A g \in Group : view.standings[g] \subseteq view.matches
  /\ view.kind = "fixture" /\ view.pc = "done" /\ view.status = "KNOCKOUT" =>
       view.knockout = Knockout

IInv == RowsAgree /\ AnswerAgrees

-----------------------------------------------------------------------------

\* The strengthening holds before anything was registered or asked.
LEMMA ReadsInit == Init => IInv
<1> SUFFICES ASSUME Init PROVE RowsAgree /\ AnswerAgrees
  BY DEF IInv
<1>1. RowsAgree
  BY ReadsAssumption DEF Init, RowsAgree, GroupStatuses
<1>2. view.kind = "none" /\ view.pc = "idle" /\ view.status = "" /\ view.since = {}
  BY DEF Init, NoView
<1>3. AnswerAgrees
  BY <1>2 DEF AnswerAgrees, HasStatus, HasGroups, HasStandings, HasMatches
<1> QED
  BY <1>1, <1>3

\* A command changes nothing of the answer under way, adds to the results, and never
\* leaves the knockout stage.
LEMMA CommandsGrow ==
  ASSUME RowsAgree, NEW m \in Match,
         \/ RegisterGroupResult(m)
         \/ RegisterKnockoutResult(m)
         \/ \E day \in Day : Reschedule(m, day)
  PROVE  /\ view' = view /\ results \subseteq results' /\ repaired' = repaired
         /\ status = "KNOCKOUT" => status' = "KNOCKOUT"
  BY DEF RowsAgree, RegisterGroupResult, RegisterKnockoutResult, Reschedule, StatusAfter

\* A group result keeps the rows in agreement: a group completes with its last
\* result, the stage with its last group.
LEMMA GroupResultAgrees ==
  ASSUME RowsAgree, NEW m \in Match, RegisterGroupResult(m)
  PROVE  RowsAgree'
<1> DEFINE played == results \cup {m}
           inMemory == [groupStatus EXCEPT ![GroupOf[m]] =
                          IF MatchesOf(GroupOf[m]) \subseteq played THEN "COMPLETED"
                                                                    ELSE "IN_PROGRESS"]
           closes == \A g \in Group : inMemory[g] = "COMPLETED"
<1>1. /\ results' = played
      /\ groupStatus' = IF "groupStatus" \in repaired THEN inMemory ELSE groupStatus
      /\ repaired' = repaired
      /\ m \in GroupMatch
  BY DEF RegisterGroupResult
<1>2. bracket' = (bracket \/ closes) /\ status' = IF closes THEN "KNOCKOUT" ELSE status
  BY DEF RegisterGroupResult, StatusAfter
<1>3. GroupOf[m] \in Group
  BY <1>1, ReadsAssumption
<1>4. /\ inMemory \in [Group -> GroupStatuses]
      /\ \A g \in Group : inMemory[g] = "COMPLETED" => MatchesOf(g) \subseteq played
  BY <1>3 DEF RowsAgree, GroupStatuses
<1>5. closes => "groupStatus" \in repaired
  <2> SUFFICES ASSUME closes, "groupStatus" \notin repaired PROVE FALSE
    OBVIOUS
  <2>1. PICK g \in Group : g # GroupOf[m]
    BY ReadsAssumption
  <2>2. inMemory[g] = groupStatus[g]
    BY <2>1, <1>3 DEF RowsAgree
  <2> QED
    BY <2>1, <2>2 DEF RowsAgree
<1>6. closes => \A g \in Group : inMemory[g] = "COMPLETED"
  OBVIOUS
<1>14. "groupStatus" \in repaired => \A g \in Group :
         MatchesOf(g) \subseteq results' => groupStatus'[g] = "COMPLETED"
  <2> SUFFICES ASSUME "groupStatus" \in repaired, NEW g \in Group,
                      MatchesOf(g) \subseteq played
               PROVE  inMemory[g] = "COMPLETED"
    BY <1>1
  <2>1. CASE g = GroupOf[m]
    BY <1>3, <2>1 DEF RowsAgree
  <2>2. CASE g # GroupOf[m]
    <3>1. m \notin MatchesOf(g)
      BY <2>2 DEF MatchesOf
    <3>2. groupStatus[g] = "COMPLETED"
      BY <3>1 DEF RowsAgree
    <3> QED
      BY <1>3, <2>2, <3>2 DEF RowsAgree
  <2> QED
    BY <2>1, <2>2
<1>15. "groupStatus" \in repaired /\ (\A g \in Group : groupStatus'[g] = "COMPLETED")
         => status' = "KNOCKOUT"
  BY <1>1, <1>2
<1>7. status = "KNOCKOUT" => closes \/ \A g \in Group : groupStatus'[g] = "COMPLETED"
  <2> SUFFICES ASSUME status = "KNOCKOUT", NEW g \in Group
               PROVE  inMemory[g] = "COMPLETED" /\ groupStatus[g] = "COMPLETED"
    BY <1>1
  <2>1. groupStatus[g] = "COMPLETED" /\ groupStatus[GroupOf[m]] = "COMPLETED"
    BY <1>3 DEF RowsAgree
  <2>2. MatchesOf(GroupOf[m]) \subseteq played
    BY <2>1, <1>3 DEF RowsAgree
  <2> QED
    BY <2>1, <2>2, <1>3 DEF RowsAgree
<1> HIDE DEF inMemory, closes
<1>8. groupStatus' \in [Group -> GroupStatuses]
  BY <1>1, <1>4 DEF RowsAgree
<1>9. \A g \in Group : groupStatus'[g] = "COMPLETED" => MatchesOf(g) \subseteq results'
  BY <1>1, <1>4 DEF RowsAgree
<1>10. results' \subseteq Match
  BY <1>1 DEF RowsAgree
<1>11. /\ status' \in {"GROUP_STAGE", "KNOCKOUT"} /\ bracket' \in BOOLEAN
       /\ status' = "KNOCKOUT" => bracket'
  BY <1>2 DEF RowsAgree
<1>12. "groupStatus" \notin repaired' => \A g \in Group : groupStatus'[g] # "COMPLETED"
  BY <1>1 DEF RowsAgree
<1>13. status' = "KNOCKOUT" => \A g \in Group : groupStatus'[g] = "COMPLETED"
  BY <1>1, <1>2, <1>5, <1>6, <1>7
<1> QED
  BY <1>1, <1>8, <1>9, <1>10, <1>11, <1>12, <1>13, <1>14, <1>15 DEF RowsAgree

\* The rows stay in agreement with every step.
LEMMA RowsAgreeStep == RowsAgree /\ [Next]_vars => RowsAgree'
<1> SUFFICES ASSUME RowsAgree, [Next]_vars PROVE RowsAgree'
  OBVIOUS
<1>1. ASSUME NEW m \in Match, RegisterGroupResult(m) PROVE RowsAgree'
  BY <1>1, GroupResultAgrees
<1>2. ASSUME NEW m \in Match, RegisterKnockoutResult(m) PROVE RowsAgree'
  <2>1. m \notin GroupMatch
    BY <1>2, ReadsAssumption DEF RegisterKnockoutResult, Match
  <2>2. \A g \in Group : MatchesOf(g) \subseteq results' => MatchesOf(g) \subseteq results
    BY <1>2, <2>1 DEF RegisterKnockoutResult, MatchesOf
  <2> QED
    BY <1>2, <2>2 DEF RegisterKnockoutResult, RowsAgree
<1>3. ASSUME NEW m \in Match, NEW day \in Day, Reschedule(m, day) PROVE RowsAgree'
  BY <1>3 DEF Reschedule, RowsAgree
<1>4. CASE UNCHANGED db
  BY <1>4 DEF db, RowsAgree
<1> QED
  BY <1>1, <1>2, <1>3, <1>4 DEF Next, vars, GetFixture, ListGroups, GetStandings,
     GetKnockout, GetKnockoutRound, Request, Query, ListMatches, Count, FetchPage

\* An answer stays true of the rows when they grow.
LEMMA AnswerOutlives ==
  ASSUME AnswerAgrees, view' = view, results \subseteq results', repaired' = repaired,
         status = "KNOCKOUT" => status' = "KNOCKOUT"
  PROVE  AnswerAgrees'
  BY DEF AnswerAgrees, HasStatus, HasGroups, HasStandings, HasMatches

\* A query adds to the answer what the rows say.
LEMMA QueryAgrees ==
  ASSUME RowsAgree, AnswerAgrees, Query
  PROVE  AnswerAgrees'
<1> USE DEF HasStatus, HasGroups, HasStandings, HasMatches
<1>1. view.pc \in {"tournament", "groups", "standings", "matches", "knockout"}
  BY DEF Query, AnswerAgrees
<1>2. UNCHANGED <<results, status, groupStatus, bracket, repaired>>
  BY DEF Query, db
<1>3. view'.kind = view.kind /\ view'.pc = NextQuery(view) /\ view'.since = view.since
  BY DEF Query
<1>4. CASE view.pc = "tournament"
  <2>1. /\ view'.pc = "groups" /\ view'.status = status
    BY <1>3, <1>4 DEF Query, NextQuery
  <2>2. "groupStatus" \in repaired /\ GroupMatch \subseteq view.since => status = "KNOCKOUT"
    <3>1. GroupMatch \subseteq view.since => \A g \in Group : MatchesOf(g) \subseteq results
      BY DEF AnswerAgrees, MatchesOf
    <3> QED
      BY <3>1 DEF RowsAgree
  <2> QED
    BY <1>2, <1>3, <1>4, <2>1, <2>2 DEF AnswerAgrees, RowsAgree
<1>5. CASE view.pc = "groups"
  <2>1. view'.pc = "standings" /\ view'.status = view.status /\ view'.groups = groupStatus
    BY <1>3, <1>5 DEF Query, NextQuery, GroupRows
  <2>2. "groupStatus" \in repaired =>
          \A g \in Group : MatchesOf(g) \subseteq view.since => groupStatus[g] = "COMPLETED"
    BY DEF AnswerAgrees, RowsAgree
  <2> QED
    BY <1>2, <1>3, <1>5, <2>1, <2>2 DEF AnswerAgrees, RowsAgree
<1>6. CASE view.pc = "standings"
  <2>1. /\ view'.pc = IF view.kind = "standings" THEN "done" ELSE "matches"
        /\ view'.status = view.status /\ view'.groups = view.groups
        /\ view'.standings = [g \in Group |-> results \cap MatchesOf(g)]
    BY <1>3, <1>6 DEF Query, NextQuery, StandingRows
  <2>2. \A g \in Group : view'.standings[g] = results \cap MatchesOf(g)
    BY <2>1
  <2>3. \A g \in Group : view.since \cap MatchesOf(g) \subseteq results \cap MatchesOf(g)
    BY DEF AnswerAgrees
  <2>4. view.kind \in {"fixture", "groups"} =>
          \A g \in Group : view.groups[g] = "COMPLETED" => MatchesOf(g) \subseteq results
    BY <1>6 DEF AnswerAgrees
  <2> QED
    BY <1>2, <1>3, <1>6, <2>1, <2>2, <2>3, <2>4 DEF AnswerAgrees
<1>7. CASE view.pc = "matches"
  <2>1. /\ view'.pc = IF view.status \in {"KNOCKOUT", "FINISHED"} THEN "knockout" ELSE "done"
        /\ view'.status = view.status /\ view'.groups = view.groups
        /\ view'.standings = view.standings /\ view'.matches = results \cap GroupMatch
    BY <1>3, <1>7 DEF Query, NextQuery, MatchRows
  <2>2. \A g \in Group : MatchesOf(g) \subseteq GroupMatch
    BY DEF MatchesOf
  <2> QED
    BY <1>2, <1>3, <1>7, <2>1, <2>2 DEF AnswerAgrees, RowsAgree
<1>8. CASE view.pc = "knockout"
  <2>1. /\ view'.pc = "done"
        /\ view'.status = view.status /\ view'.groups = view.groups
        /\ view'.standings = view.standings /\ view'.matches = view.matches
        /\ view'.knockout = Rows \cap Knockout
    BY <1>3, <1>8 DEF Query, NextQuery, KnockoutRows
  <2>2. status = "KNOCKOUT" => Rows \cap Knockout = Knockout
    BY DEF RowsAgree, Rows
  <2> QED
    BY <1>2, <1>3, <1>8, <2>1, <2>2 DEF AnswerAgrees
<1> QED
  BY <1>1, <1>4, <1>5, <1>6, <1>7, <1>8

\* The answer under way agrees with the rows after every step.
LEMMA AnswerAgreesStep ==
  ASSUME RowsAgree, AnswerAgrees, [Next]_vars
  PROVE  AnswerAgrees'
<1>1. ASSUME NEW m \in Match,
             \/ RegisterGroupResult(m)
             \/ RegisterKnockoutResult(m)
             \/ \E day \in Day : Reschedule(m, day)
      PROVE  AnswerAgrees'
  BY <1>1, CommandsGrow, AnswerOutlives
<1>2. CASE GetFixture \/ ListGroups \/ GetStandings \/ GetKnockout \/ GetKnockoutRound
  <2>1. /\ view'.status = "" /\ view'.since = results /\ results' = results
        /\ <<view'.kind, view'.pc>> \in {<<"fixture", "tournament">>, <<"groups", "groups">>,
             <<"standings", "standings">>, <<"knockout", "knockout">>,
             <<"round", "knockout">>}
    BY <1>2 DEF GetFixture, ListGroups, GetStandings, GetKnockout, GetKnockoutRound,
                 Request, NoView, db
  <2> QED
    BY <2>1 DEF AnswerAgrees, HasStatus, HasGroups, HasStandings, HasMatches
<1>3. CASE Query
  BY <1>3, QueryAgrees
<1>4. ASSUME NEW filter \in Filters, ListMatches(filter)
      PROVE  AnswerAgrees'
  BY <1>4 DEF ListMatches, NoView, AnswerAgrees, HasStatus, HasGroups, HasStandings,
              HasMatches
<1>5. ASSUME UNCHANGED <<db, view>> PROVE AnswerAgrees'
  BY <1>5, AnswerOutlives DEF db
<1> QED
  BY <1>1, <1>2, <1>3, <1>4, <1>5 DEF Next, vars, Count, FetchPage

\* The parts of an answer put together from several queries are of states in the
\* order of the queries, and none is older than the request: what is torn in it was
\* committed while it was put together.
THEOREM TornOnlyByCommitsMeanwhile == Spec => []AnswersRunForward
<1>1. IInv /\ [Next]_vars => IInv'
  BY RowsAgreeStep, AnswerAgreesStep DEF IInv
<1>2. IInv => AnswersRunForward
  BY DEF IInv, AnswerAgrees, AnswersRunForward, LaterQueriesAreNewer, NothingOldIsMissing,
         HasStatus, HasGroups, HasStandings, HasMatches
<1> QED
  BY ReadsInit, <1>1, <1>2, PTL DEF Spec

-----------------------------------------------------------------------------
(* Positions in a listing.                                                 *)

\* How many rows of F come before m.
Pos(F, m) == Cardinality({n \in F : n < m})

\* The first k rows of F.
Early(F, k) == {m \in F : Pos(F, m) < k}

\* A set of naturals that is not empty has a least one.
LEMMA LeastNatural ==
  ASSUME NEW S \in SUBSET Nat, S # {}
  PROVE  \E n \in S : \A m \in S : n <= m
<1> DEFINE R == OpToRel(<, Nat)
<1>1. IsWellFoundedOn(R, Nat)
  BY NatLessThanWellFounded
<1> HIDE DEF R
<1>2. PICK n \in S : \A m \in S : ~ (<<m, n>> \in R)
  BY <1>1, WFMin
<1>3. ASSUME NEW m \in S PROVE n <= m
  <2>1. m \in Nat /\ n \in Nat
    OBVIOUS
  <2>2. m < n => <<m, n>> \in R
    BY <2>1 DEF R, OpToRel
  <2> QED
    BY <1>2, <2>1, <2>2
<1> QED
  BY <1>3

\* Positions are numbers, grow with the rows, and are below the number of rows.
LEMMA Positions ==
  ASSUME NEW F \in SUBSET Nat, IsFiniteSet(F)
  PROVE  /\ Cardinality(F) \in Nat
         /\ \A m : IsFiniteSet({n \in F : n < m}) /\ Pos(F, m) \in Nat
         /\ \A m, n \in Nat : m <= n => Pos(F, m) <= Pos(F, n)
         /\ \A m \in F, n \in Nat : m < n => Pos(F, m) < Pos(F, n)
         /\ \A m \in F : Pos(F, m) < Cardinality(F)
<1> DEFINE Before(m) == {n \in F : n < m}
<1>1. \A m : Before(m) \in SUBSET F
  OBVIOUS
<1>2. \A m : IsFiniteSet(Before(m)) /\ Pos(F, m) \in Nat
  <2> TAKE m
  <2>1. IsFiniteSet(Before(m))
    BY <1>1, FS_Subset
  <2> QED
    BY <2>1, FS_CardinalityType DEF Pos
<1>3. Cardinality(F) \in Nat
  BY FS_CardinalityType
<1>4. \A m : \A T \in SUBSET F :
        Before(m) \subseteq T => Pos(F, m) <= Cardinality(T)
  <2> TAKE m
  <2> TAKE T \in SUBSET F
  <2> HAVE Before(m) \subseteq T
  <2>1. IsFiniteSet(T)
    BY FS_Subset
  <2> QED
    BY <2>1, FS_Subset DEF Pos
<1>5. \A m \in F : \A T \in SUBSET F :
        Before(m) \cup {m} \subseteq T => Pos(F, m) < Cardinality(T)
  <2> TAKE m \in F
  <2> TAKE T \in SUBSET F
  <2> HAVE Before(m) \cup {m} \subseteq T
  <2>1. IsFiniteSet(T) /\ Cardinality(T) \in Nat
    BY FS_Subset, FS_CardinalityType
  <2>2. m \notin Before(m)
    OBVIOUS
  <2>3. Cardinality(Before(m) \cup {m}) = Cardinality(Before(m)) + 1
    BY <1>2, <2>2, FS_AddElement
  <2>4. Cardinality(Before(m) \cup {m}) <= Cardinality(T)
    BY <2>1, FS_Subset
  <2> QED
    BY <1>2, <2>1, <2>3, <2>4 DEF Pos
<1>6. ASSUME NEW m \in Nat, NEW n \in Nat, m <= n
      PROVE  Before(m) \subseteq Before(n)
  <2> SUFFICES ASSUME NEW x \in F, x < m PROVE x < n
    OBVIOUS
  <2>1. x \in Nat
    OBVIOUS
  <2> QED
    BY <1>6, <2>1
<1>7. ASSUME NEW m \in F, NEW n \in Nat, m < n
      PROVE  Before(m) \cup {m} \subseteq Before(n)
  <2>1. m \in Nat
    OBVIOUS
  <2>2. Before(m) \subseteq Before(n)
    BY <1>6, <1>7, <2>1
  <2> QED
    BY <1>7, <2>2
<1>8. \A m, n \in Nat : m <= n => Pos(F, m) <= Pos(F, n)
  BY <1>1, <1>4, <1>6 DEF Pos
<1>9. \A m \in F, n \in Nat : m < n => Pos(F, m) < Pos(F, n)
  BY <1>1, <1>5, <1>7 DEF Pos
<1>10. \A m \in F : Pos(F, m) < Cardinality(F)
  BY <1>1, <1>5
<1> QED
  BY <1>2, <1>3, <1>8, <1>9, <1>10

\* The first k rows are at most k, and k if there are more.
LEMMA EarlyRows ==
  ASSUME NEW F \in SUBSET Nat, IsFiniteSet(F), NEW k \in Nat
  PROVE  /\ IsFiniteSet(Early(F, k)) /\ Cardinality(Early(F, k)) \in Nat
         /\ Cardinality(Early(F, k)) <= k
         /\ (\E m \in F : Pos(F, m) >= k) => Cardinality(Early(F, k)) = k
<1> DEFINE A == Early(F, k)
<1>1. A \in SUBSET F /\ A \in SUBSET Nat
  BY DEF Early
<1>2. IsFiniteSet(A) /\ Cardinality(A) \in Nat
  BY <1>1, FS_Subset, FS_CardinalityType
<1>3. \A m \in F : Pos(F, m) \in Nat
  BY Positions
<1>4. \A m \in A : Pos(F, m) < k
  BY DEF Early
<1>5. Cardinality(A) <= k
  <2>1. CASE A = {}
    <3>1. Cardinality(A) = 0
      BY <2>1, FS_EmptySet, Zenon
    <3> QED
      BY <3>1
  <2>2. CASE A # {}
    <3> DEFINE rest == {k - Pos(F, m) : m \in A}
    <3>1. rest \in SUBSET Nat
      BY <1>1, <1>3, <1>4
    <3>2. rest # {}
      BY <2>2
    <3>3. PICK r \in rest : \A q \in rest : r <= q
      BY <3>1, <3>2, LeastNatural
    <3>4. PICK b \in A : r = k - Pos(F, b)
      OBVIOUS
    <3>5. ASSUME NEW m \in A PROVE Pos(F, m) <= Pos(F, b)
      <4>1. k - Pos(F, b) <= k - Pos(F, m)
        BY <3>3, <3>4
      <4> HIDE DEF A
      <4> QED
        BY <1>1, <1>3, <4>1
    <3>6. A \subseteq {n \in F : n < b} \cup {b}
      <4> SUFFICES ASSUME NEW m \in A, m # b PROVE m < b
        BY <1>1
      <4>1. m \in Nat /\ b \in Nat /\ m \in F /\ b \in F
        BY <1>1
      <4>2. b < m => Pos(F, b) < Pos(F, m)
        BY <4>1, Positions
      <4> QED
        BY <1>3, <3>5, <4>1, <4>2
    <3>7. /\ IsFiniteSet({n \in F : n < b}) /\ b \notin {n \in F : n < b}
      BY <1>1, Positions
    <3>8. /\ IsFiniteSet({n \in F : n < b} \cup {b})
          /\ Cardinality({n \in F : n < b} \cup {b}) = Pos(F, b) + 1
      BY <3>7, FS_AddElement DEF Pos
    <3>9. Cardinality(A) <= Pos(F, b) + 1
      BY <3>6, <3>8, FS_Subset
    <3> QED
      BY <1>1, <1>2, <1>3, <1>4, <3>9
  <2> QED
    BY <2>1, <2>2
<1>6. ASSUME NEW m \in F, Pos(F, m) >= k PROVE Cardinality(A) >= k
  <2> DEFINE Late == {n \in F : Pos(F, n) >= k}
  <2>1. Late \in SUBSET Nat /\ Late # {}
    BY <1>6
  <2>2. PICK a \in Late : \A n \in Late : a <= n
    BY <2>1, LeastNatural
  <2>3. {n \in F : n < a} \subseteq A
    <3> SUFFICES ASSUME NEW n \in F, n < a PROVE Pos(F, n) < k
      BY DEF Early
    <3>1. n \in Nat /\ a \in Nat /\ Pos(F, n) \in Nat
      BY <1>3
    <3> QED
      BY <2>2, <3>1
  <2>4. Pos(F, a) <= Cardinality(A)
    BY <1>2, <2>3, FS_Subset DEF Pos
  <2> QED
    BY <1>2, <1>3, <2>4
<1> QED
  BY <1>2, <1>5, <1>6

\* Rows move past the first k only for rows that came in among the first k.
LEMMA Crossing ==
  ASSUME NEW F \in SUBSET Nat, IsFiniteSet(F), NEW G \in SUBSET Nat, IsFiniteSet(G),
         NEW k \in Nat
  PROVE  LET X == {m \in F \cap G : Pos(F, m) < k /\ Pos(G, m) >= k}
             A == Early(G, k) \ F
         IN  /\ IsFiniteSet(X) /\ IsFiniteSet(A)
             /\ Cardinality(X) <= Cardinality(A)
<1> DEFINE X == {m \in F \cap G : Pos(F, m) < k /\ Pos(G, m) >= k}
           A == Early(G, k) \ F
<1>1. X \in SUBSET Early(F, k) /\ A \in SUBSET Early(G, k)
  BY DEF Early
<1>2. /\ IsFiniteSet(Early(F, k)) /\ IsFiniteSet(Early(G, k))
      /\ Cardinality(Early(F, k)) \in Nat /\ Cardinality(Early(F, k)) <= k
  BY EarlyRows
<1>3. /\ IsFiniteSet(X) /\ IsFiniteSet(A)
      /\ Cardinality(X) \in Nat /\ Cardinality(A) \in Nat
  BY <1>1, <1>2, FS_Subset, FS_CardinalityType
<1>4. CASE X = {}
  <2>1. Cardinality(X) = 0
    BY <1>4, FS_EmptySet, Zenon
  <2> QED
    BY <1>3, <2>1
<1>5. CASE X # {}
  <2>1. PICK x \in X : TRUE
    BY <1>5
  <2> DEFINE B == Early(F, k) \ X
  <2>2. Early(G, k) \subseteq A \cup B
    <3> SUFFICES ASSUME NEW t \in Early(G, k), t \in F
                 PROVE  t \in B
      OBVIOUS
    <3>1. /\ t \in Nat /\ x \in Nat /\ x \in F /\ x \in G /\ t \in G
          /\ Pos(F, x) < k /\ Pos(G, x) >= k /\ Pos(G, t) < k
      BY DEF Early
    <3>2. /\ Pos(F, x) \in Nat /\ Pos(G, x) \in Nat
          /\ Pos(F, t) \in Nat /\ Pos(G, t) \in Nat
      BY Positions
    <3>3. x <= t => Pos(G, x) <= Pos(G, t)
      BY <3>1, Positions
    <3>4. t < x
      BY <3>1, <3>2, <3>3
    <3>5. Pos(F, t) < Pos(F, x)
      BY <3>1, <3>4, Positions
    <3>6. Pos(F, t) < k /\ ~ (Pos(G, t) >= k)
      BY <3>1, <3>2, <3>5
    <3> QED
      BY <3>6 DEF Early
  <2>3. Cardinality(Early(G, k)) = k
    BY <2>1, EarlyRows
  <2>4. IsFiniteSet(B) /\ Cardinality(B) = Cardinality(Early(F, k)) - Cardinality(X)
    <3>1. Early(F, k) \cap X = X
      BY <1>1
    <3> QED
      BY <1>2, <3>1, FS_Difference
  <2>5. A \cap B = {}
    BY DEF Early
  <2>6. /\ IsFiniteSet(A \cup B)
        /\ Cardinality(A \cup B) = Cardinality(A) + Cardinality(B) - Cardinality(A \cap B)
    BY <1>3, <2>4, FS_Union
  <2>7. Cardinality(A \cap B) = 0
    BY <2>5, FS_EmptySet, Zenon
  <2>8. k <= Cardinality(A \cup B)
    BY <2>2, <2>3, <2>6, FS_Subset
  <2>9. Cardinality(X) <= Cardinality(A)
    <3> HIDE DEF A, B, X
    <3> QED
      BY <1>2, <1>3, <2>4, <2>6, <2>7, <2>8
  <2> QED
    BY <1>3, <2>9
<1> QED
  BY <1>4, <1>5

-----------------------------------------------------------------------------
(* Types.                                                                  *)

\* A listing is cut from matches, before and after a step.
LEMMA FilteredRows ==
  \A filter :
    /\ Filtered(filter) \in SUBSET Match /\ IsFiniteSet(Filtered(filter))
    /\ Filtered(filter) \in SUBSET Nat /\ Filtered(filter) \subseteq Rows
    /\ Filtered(filter)' \in SUBSET Match /\ IsFiniteSet(Filtered(filter)')
    /\ Filtered(filter)' \in SUBSET Nat /\ Filtered(filter)' \subseteq Rows'
<1> TAKE filter
<1>1. Filtered(filter) \in SUBSET Match /\ Filtered(filter) \subseteq Rows
  BY DEF Filtered, Rows, Match
<1>2. Filtered(filter)' \in SUBSET Match /\ Filtered(filter)' \subseteq Rows'
  BY DEF Filtered, Rows, Match
<1>3. Match \in SUBSET Nat /\ IsFiniteSet(Match)
  BY ReadsAssumption
<1> QED
  BY <1>1, <1>2, <1>3, FS_Subset

\* A command leaves the walk under way as it is, but for its history.
LEMMA CommitListing ==
  ASSUME listing \in Listing, Commit
  PROVE  /\ listing' \in Listing
         /\ listing'.pc = listing.pc /\ listing'.filter = listing.filter
         /\ listing'.page = listing.page /\ listing'.total = listing.total
         /\ listing'.start = listing.start /\ listing'.seen = listing.seen
         /\ listing'.again = listing.again
         /\ listing.pc \notin {"count", "page"} => listing' = listing
         /\ listing.pc \in {"count", "page"} =>
              \A filter : filter = listing.filter =>
                /\ listing'.entered = listing.entered
                                        + Cardinality(Filtered(filter)' \ Filtered(filter))
                /\ listing'.left = listing.left
                                     + Cardinality(Filtered(filter) \ Filtered(filter)')
<1>1. PICK filter : /\ filter = listing.filter
                    /\ listing' =
                         IF listing.pc \in {"count", "page"}
                         THEN [listing EXCEPT
                                 !.entered = @ + Cardinality(Filtered(filter)' \ Filtered(filter)),
                                 !.left    = @ + Cardinality(Filtered(filter) \ Filtered(filter)')]
                         ELSE listing
  BY DEF Commit
<1> DEFINE a == Cardinality(Filtered(filter)' \ Filtered(filter))
           b == Cardinality(Filtered(filter) \ Filtered(filter)')
<1>2. a \in Nat /\ b \in Nat
  BY FilteredRows, FS_Difference, FS_CardinalityType
<1>3. listing.pc \in {"count", "page"} =>
        listing' = [listing EXCEPT !.entered = @ + a, !.left = @ + b]
  BY <1>1
<1>4. listing.pc \notin {"count", "page"} => listing' = listing
  BY <1>1
<1> HIDE DEF a, b
<1>5. CASE listing.pc \notin {"count", "page"}
  BY <1>4, <1>5
<1>6. CASE listing.pc \in {"count", "page"}
  <2>1. listing' = [listing EXCEPT !.entered = @ + a, !.left = @ + b]
    BY <1>3, <1>6
  <2> DEFINE entered == listing.entered + a
             left == listing.left + b
  <2>2. listing' \in Listing
    <3>1. entered \in Nat /\ left \in Nat
      BY <1>2 DEF Listing
    <3>2. listing' = [listing EXCEPT !.entered = entered, !.left = left]
      BY <2>1
    <3> HIDE DEF entered, left
    <3> QED
      BY <3>1, <3>2 DEF Listing
  <2>3. listing'.entered = listing.entered + a /\ listing'.left = listing.left + b
    BY <2>1 DEF Listing
  <2>4. \A g : g = listing.filter =>
          /\ listing'.entered = listing.entered + Cardinality(Filtered(g)' \ Filtered(g))
          /\ listing'.left = listing.left + Cardinality(Filtered(g) \ Filtered(g)')
    BY <1>1, <2>3 DEF a, b
  <2>5. /\ listing'.pc = listing.pc /\ listing'.filter = listing.filter
        /\ listing'.page = listing.page /\ listing'.total = listing.total
        /\ listing'.start = listing.start /\ listing'.seen = listing.seen
        /\ listing'.again = listing.again
    BY <2>1 DEF Listing
  <2> QED
    BY <1>6, <2>2, <2>4, <2>5
<1> QED
  BY <1>5, <1>6

\* A page is of the listing's matches.
LEMMA PageRows ==
  ASSUME listing \in Listing
  PROVE  LET F == Filtered(listing.filter)
             O == Offset(listing.page)
         IN  /\ O \in Nat
             /\ PageOf(listing.filter, listing.page)
                  = {m \in F : Pos(F, m) >= O /\ Pos(F, m) < O + PerPage}
<1>1. listing.page \in Nat \ {0} /\ PerPage \in Nat
  BY ReadsAssumption DEF Listing
<1>2. Offset(listing.page) \in Nat
  BY <1>1 DEF Offset
<1> QED
  BY <1>2 DEF PageOf, Pos, OrderedBefore

\* Fetching a page fails, or shows its rows and goes on or stops.
LEMMA FetchListing ==
  ASSUME listing \in Listing, FetchPage
  PROVE  LET rows == PageOf(listing.filter, listing.page)
             more == listing.page < TotalPages(listing.total)
         IN  /\ listing' \in Listing /\ listing.pc = "page" /\ UNCHANGED <<db, view>>
             /\ listing'.filter = listing.filter /\ listing'.total = listing.total
             /\ listing'.start = listing.start
             /\ listing'.entered = listing.entered /\ listing'.left = listing.left
             /\ \/ /\ listing'.pc = "failed" /\ listing'.page = listing.page
                   /\ listing'.seen = listing.seen /\ listing'.again = listing.again
                \/ /\ listing'.pc = IF more THEN "count" ELSE "done"
                   /\ listing'.page = IF more THEN listing.page + 1 ELSE listing.page
                   /\ listing'.seen = listing.seen \cup rows
                   /\ listing'.again = listing.again \cup (rows \cap listing.seen)
<1> DEFINE rows == PageOf(listing.filter, listing.page)
           more == listing.page < TotalPages(listing.total)
<1>1. rows \in SUBSET Match
  BY FilteredRows DEF PageOf
<1>2. listing.pc = "page" /\ UNCHANGED <<db, view>>
  BY DEF FetchPage
<1>3. \/ listing' = [listing EXCEPT !.pc = "failed"]
      \/ listing' = [listing EXCEPT
           !.pc    = IF more THEN "count" ELSE "done",
           !.page  = IF more THEN @ + 1 ELSE @,
           !.seen  = @ \cup rows,
           !.again = @ \cup (rows \cap listing.seen)]
  BY DEF FetchPage
<1> HIDE DEF rows, more
<1>4. CASE listing' = [listing EXCEPT !.pc = "failed"]
  BY <1>2, <1>4 DEF Listing
<1>5. CASE listing' = [listing EXCEPT
             !.pc    = IF more THEN "count" ELSE "done",
             !.page  = IF more THEN @ + 1 ELSE @,
             !.seen  = @ \cup rows,
             !.again = @ \cup (rows \cap listing.seen)]
  <2> DEFINE pc == IF more THEN "count" ELSE "done"
             page == IF more THEN listing.page + 1 ELSE listing.page
             seen == listing.seen \cup rows
             again == listing.again \cup (rows \cap listing.seen)
  <2>1. listing' \in Listing
    <3>1. pc \in {"count", "done"} /\ page \in Nat \ {0}
      BY DEF Listing
    <3>2. seen \in SUBSET Match /\ again \in SUBSET Match
      BY <1>1 DEF Listing
    <3>3. listing' = [listing EXCEPT !.pc = pc, !.page = page, !.seen = seen,
                                     !.again = again]
      BY <1>5
    <3> HIDE DEF pc, page, seen, again
    <3> QED
      BY <3>1, <3>2, <3>3 DEF Listing
  <2>2. /\ listing'.filter = listing.filter /\ listing'.total = listing.total
        /\ listing'.start = listing.start
        /\ listing'.entered = listing.entered /\ listing'.left = listing.left
        /\ listing'.pc = IF more THEN "count" ELSE "done"
        /\ listing'.page = IF more THEN listing.page + 1 ELSE listing.page
        /\ listing'.seen = listing.seen \cup rows
        /\ listing'.again = listing.again \cup (rows \cap listing.seen)
    BY <1>5 DEF Listing
  <2> QED
    BY <1>2, <2>1, <2>2 DEF rows, more
<1> QED
  BY <1>3, <1>4, <1>5

\* Counting keeps what the client has seen.
LEMMA CountListing ==
  ASSUME listing \in Listing, Count
  PROVE  /\ listing' \in Listing /\ listing.pc = "count" /\ UNCHANGED <<db, view>>
         /\ listing'.pc = "page" /\ listing'.total = Cardinality(Filtered(listing.filter))
         /\ listing'.filter = listing.filter /\ listing'.page = listing.page
         /\ listing'.start = listing.start /\ listing'.seen = listing.seen
         /\ listing'.again = listing.again
         /\ listing'.entered = listing.entered /\ listing'.left = listing.left
<1> DEFINE n == Cardinality(Filtered(listing.filter))
<1>1. n \in Nat
  BY FilteredRows, FS_CardinalityType
<1>2. listing' = [listing EXCEPT !.pc = "page", !.total = n]
  BY DEF Count
<1>3. listing.pc = "count" /\ UNCHANGED <<db, view>>
  BY DEF Count
<1> HIDE DEF n
<1>4. /\ listing' \in Listing
      /\ listing'.pc = "page" /\ listing'.total = n
      /\ listing'.filter = listing.filter /\ listing'.page = listing.page
      /\ listing'.start = listing.start /\ listing'.seen = listing.seen
      /\ listing'.again = listing.again
      /\ listing'.entered = listing.entered /\ listing'.left = listing.left
  BY <1>1, <1>2 DEF Listing
<1> QED
  BY <1>3, <1>4 DEF n

\* A new walk starts with nothing seen, on the first page.
LEMMA NewListing ==
  ASSUME NEW filter \in Filters, ListMatches(filter)
  PROVE  /\ listing' \in Listing /\ UNCHANGED db /\ view' = NoView
         /\ listing'.pc = "count" /\ listing'.filter = filter /\ listing'.page = 1
         /\ listing'.start = Filtered(filter)
         /\ listing'.seen = {} /\ listing'.again = {}
         /\ listing'.entered = 0 /\ listing'.left = 0
<1> DEFINE start == Filtered(filter)
<1>1. start \in SUBSET Match
  BY FilteredRows
<1>2. listing' = [pc |-> "count", filter |-> filter, page |-> 1, total |-> 0,
                  start |-> start, seen |-> {}, again |-> {}, entered |-> 0, left |-> 0]
  <2>1. listing' = [NoListing EXCEPT !.pc = "count", !.filter = filter, !.start = start]
    BY DEF ListMatches
  <2> HIDE DEF start
  <2> QED
    BY <2>1 DEF NoListing, FirstPage
<1>3. UNCHANGED db /\ view' = NoView
  BY DEF ListMatches
<1> HIDE DEF start
<1>4. /\ listing' \in Listing
      /\ listing'.pc = "count" /\ listing'.filter = filter /\ listing'.page = 1
      /\ listing'.start = start
      /\ listing'.seen = {} /\ listing'.again = {}
      /\ listing'.entered = 0 /\ listing'.left = 0
  BY <1>1, <1>2 DEF Listing
<1> QED
  BY <1>3, <1>4 DEF start

\* Between two walks there is none.
LEMMA NoListingTyped ==
  /\ NoListing \in Listing
  /\ NoListing.pc = "idle" /\ NoListing.seen = {} /\ NoListing.again = {}
  /\ NoListing.start = {} /\ NoListing.entered = 0
  BY DEF NoListing, Listing, Filters, FirstPage

\* No answer.
LEMMA NoViewTyped == NoView \in View
<1> DEFINE groups == [g \in Group |-> ""]
           standings == [g \in Group |-> {}]
<1>1. groups \in [Group -> {""} \cup GroupStatuses]
  OBVIOUS
<1>2. standings \in [Group -> SUBSET GroupMatch]
  OBVIOUS
<1>3. NoView = [kind |-> "none", pc |-> "idle", since |-> {}, status |-> "",
                groups |-> groups, standings |-> standings, matches |-> {}, knockout |-> {}]
  BY DEF NoView
<1> HIDE DEF groups, standings
<1> QED
  BY <1>1, <1>2, <1>3 DEF View

\* An answer that has nothing yet.
LEMMA NewViewTyped ==
  ASSUME NEW kind \in {"fixture", "groups", "standings", "knockout", "round"},
         NEW pc \in {"tournament", "groups", "standings", "knockout"},
         NEW since \in SUBSET Match,
         NEW none \in View,
         NEW v, v = [none EXCEPT !.kind = kind, !.pc = pc, !.since = since]
  PROVE  v \in View
<1> DEFINE fields == {"kind", "pc", "since", "status", "groups", "standings", "matches",
                      "knockout"}
<1>1. v = [x \in fields |-> v[x]]
  BY DEF View
<1>2. /\ v.kind = kind /\ v.pc = pc /\ v.since = since /\ v.status = none.status
      /\ v.groups = none.groups /\ v.standings = none.standings
      /\ v.matches = none.matches /\ v.knockout = none.knockout
  BY DEF View
<1>3. v = [kind |-> kind, pc |-> pc, since |-> since, status |-> none.status,
           groups |-> none.groups, standings |-> none.standings,
           matches |-> none.matches, knockout |-> none.knockout]
  BY ONLY <1>1, <1>2
<1> QED
  BY <1>3 DEF View

\* What a command does to the rows, and that it commits.
LEMMA CommandTypes ==
  ASSUME TypeOK, NEW m \in Match,
         \/ RegisterGroupResult(m)
         \/ RegisterKnockoutResult(m)
         \/ \E day \in Day : Reschedule(m, day)
  PROVE  /\ Commit /\ UNCHANGED <<view, repaired>>
         /\ Rows \subseteq Rows' /\ results \subseteq results' /\ results' \subseteq Rows'
         /\ groupStatus' \in [Group -> GroupStatuses]
         /\ status' \in {"GROUP_STAGE", "KNOCKOUT"} /\ bracket' \in BOOLEAN
         /\ bracket' <=> status' = "KNOCKOUT"
         /\ scheduled_at' \in [Match -> Day] /\ moves' \in 0..MaxMoves
<1> USE DEF TypeOK
<1>1. CASE RegisterGroupResult(m)
  <2> DEFINE played == results \cup {m}
             inMemory == [groupStatus EXCEPT ![GroupOf[m]] =
                            IF MatchesOf(GroupOf[m]) \subseteq played
                            THEN "COMPLETED" ELSE "IN_PROGRESS"]
             closes == \A g \in Group : inMemory[g] = "COMPLETED"
  <2>1. /\ m \in GroupMatch /\ results' = played
        /\ groupStatus' = IF "groupStatus" \in repaired THEN inMemory ELSE groupStatus
        /\ bracket' = (bracket \/ closes) /\ status' = IF closes THEN "KNOCKOUT" ELSE status
        /\ Commit /\ UNCHANGED <<scheduled_at, moves, view, repaired>>
    BY <1>1 DEF RegisterGroupResult, StatusAfter
  <2>2. inMemory \in [Group -> GroupStatuses]
    BY DEF GroupStatuses
  <2>3. closes \in BOOLEAN
    OBVIOUS
  <2> HIDE DEF inMemory, closes
  <2>4. /\ status' \in {"GROUP_STAGE", "KNOCKOUT"} /\ bracket' \in BOOLEAN
        /\ bracket' <=> status' = "KNOCKOUT"
    BY <2>1, <2>3
  <2>5. Rows \subseteq Rows'
    BY <2>1 DEF Rows
  <2>6. results \subseteq results' /\ results' \subseteq Rows'
    BY <2>1, <2>5 DEF Rows
  <2> QED
    BY <2>1, <2>2, <2>4, <2>5, <2>6
<1>2. CASE RegisterKnockoutResult(m)
  BY <1>2 DEF RegisterKnockoutResult, Rows
<1>3. CASE \E day \in Day : Reschedule(m, day)
  <2>1. PICK day \in Day : Reschedule(m, day)
    BY <1>3
  <2>2. moves' \in 0..MaxMoves
    BY <2>1, ReadsAssumption DEF Reschedule
  <2> QED
    BY <2>1, <2>2 DEF Reschedule, Rows
<1> QED
  BY <1>1, <1>2, <1>3

\* The types hold before anything was registered or asked.
LEMMA ReadsTypeInit == Init => TypeOK
<1> SUFFICES ASSUME Init PROVE TypeOK
  OBVIOUS
<1>1. view \in View
  BY NoViewTyped DEF Init
<1>2. listing \in Listing
  BY NoListingTyped DEF Init
<1>3. groupStatus \in [Group -> GroupStatuses]
  BY DEF Init, GroupStatuses
<1>4. scheduled_at \in [Match -> Day] /\ moves \in 0..MaxMoves
  BY ReadsAssumption DEF Init
<1>5. /\ status = "GROUP_STAGE" /\ bracket = FALSE
      /\ repaired \in SUBSET Defects /\ results \subseteq Rows
  BY DEF Init
<1>6. bracket \in BOOLEAN /\ (bracket <=> status = "KNOCKOUT")
  BY <1>5
<1> QED
  BY <1>1, <1>2, <1>3, <1>4, <1>5, <1>6 DEF TypeOK

\* Every step keeps the types.
LEMMA ReadsTypeStep == TypeOK /\ [Next]_vars => TypeOK'
<1> SUFFICES ASSUME TypeOK, [Next]_vars PROVE TypeOK'
  OBVIOUS
<1>1. ASSUME UNCHANGED db, view' \in View, listing' \in Listing
      PROVE  TypeOK'
  BY <1>1 DEF TypeOK, db, Rows
<1>2. listing \in Listing /\ view \in View
  BY DEF TypeOK
<1>3. ASSUME NEW m \in Match,
             \/ RegisterGroupResult(m)
             \/ RegisterKnockoutResult(m)
             \/ \E day \in Day : Reschedule(m, day)
      PROVE  TypeOK'
  <2>1. listing' \in Listing
    BY <1>2, <1>3, CommandTypes, CommitListing
  <2> QED
    BY <1>3, <2>1, CommandTypes DEF TypeOK
<1>4. CASE GetFixture \/ ListGroups \/ GetStandings \/ GetKnockout \/ GetKnockoutRound
  <2>1. /\ UNCHANGED db /\ listing' = NoListing
        /\ \E kind \in {"fixture", "groups", "standings", "knockout", "round"},
              pc \in {"tournament", "groups", "standings", "knockout"} :
             view' = [NoView EXCEPT !.kind = kind, !.pc = pc, !.since = results]
    BY <1>4 DEF GetFixture, ListGroups, GetStandings, GetKnockout, GetKnockoutRound, Request
  <2>2. results \in SUBSET Match
    BY DEF TypeOK, Rows, Match
  <2>3. view' \in View
    <3>1. PICK none : none = NoView
      OBVIOUS
    <3>2. none \in View
      BY <3>1, NoViewTyped
    <3>3. PICK kind \in {"fixture", "groups", "standings", "knockout", "round"},
               pc \in {"tournament", "groups", "standings", "knockout"} :
            view' = [none EXCEPT !.kind = kind, !.pc = pc, !.since = results]
      BY <2>1, <3>1
    <3> QED
      BY <2>2, <3>2, <3>3, NewViewTyped
  <2> QED
    BY <1>1, <2>1, <2>3, NoListingTyped
<1>5. CASE Query
  <2> DEFINE standings == [g \in Group |-> results \cap MatchesOf(g)]
  <2>1. /\ standings \in [Group -> SUBSET GroupMatch]
        /\ results \cap GroupMatch \in SUBSET GroupMatch
        /\ Rows \cap Knockout \in SUBSET Knockout
        /\ groupStatus \in [Group -> {""} \cup GroupStatuses]
        /\ status \in {"", "GROUP_STAGE", "KNOCKOUT"}
    BY DEF TypeOK, MatchesOf
  <2>2. NextQuery(view) \in {"groups", "standings", "matches", "knockout", "done"}
    BY <1>2, <1>5 DEF Query, NextQuery, View
  <2> DEFINE s == IF view.pc = "tournament" THEN status ELSE view.status
             g == IF view.pc = "groups" THEN groupStatus ELSE view.groups
             t == IF view.pc = "standings" THEN standings ELSE view.standings
             m == IF view.pc = "matches" THEN results \cap GroupMatch ELSE view.matches
             k == IF view.pc = "knockout" THEN Rows \cap Knockout ELSE view.knockout
  <2>3. view' = [kind |-> view.kind, pc |-> NextQuery(view), since |-> view.since,
                 status |-> s, groups |-> g, standings |-> t, matches |-> m, knockout |-> k]
    BY <1>5 DEF Query, GroupRows, StandingRows, MatchRows, KnockoutRows
  <2> HIDE DEF standings
  <2>4. /\ s \in {"", "GROUP_STAGE", "KNOCKOUT"} /\ g \in [Group -> {""} \cup GroupStatuses]
        /\ t \in [Group -> SUBSET GroupMatch] /\ m \in SUBSET GroupMatch
        /\ k \in SUBSET Knockout
        /\ view.kind \in {"none", "fixture", "groups", "standings", "knockout", "round"}
        /\ view.since \in SUBSET Match
    BY <1>2, <2>1 DEF View
  <2> HIDE DEF s, g, t, m, k
  <2>5. view' \in View
    BY <2>2, <2>3, <2>4 DEF View
  <2> QED
    BY <1>1, <1>2, <1>5, <2>5 DEF Query
<1>6. ASSUME NEW filter \in Filters, ListMatches(filter) PROVE TypeOK'
  BY <1>1, <1>6, NewListing, NoViewTyped
<1>7. CASE Count
  BY <1>1, <1>2, <1>7, CountListing
<1>8. CASE FetchPage
  BY <1>1, <1>2, <1>8, FetchListing
<1>9. CASE UNCHANGED vars
  BY <1>1, <1>2, <1>9 DEF vars
<1> QED
  BY <1>3, <1>4, <1>5, <1>6, <1>7, <1>8, <1>9 DEF Next

\* The rows and the answers are of their types for any groups, matches and pages, and
\* the knockout stage is exactly when there is a bracket.
THEOREM ReadsTypeCorrectness == Spec => []TypeOK
BY ReadsTypeInit, ReadsTypeStep, PTL DEF Spec

-----------------------------------------------------------------------------
(* The walk.                                                               *)

\* What was shown twice, and what is going to be if nothing changes: matches seen
\* that have moved back to pages still to come.
AgainSoon(F, l) ==
  l.again \cup {m \in l.seen \cap F : Pos(F, m) >= Offset(l.page)}

\* What the walk will not show if nothing changes: matches that have gone, or moved
\* forward to pages already fetched, or back behind the last page counted.
Missed(F, l) ==
  {m \in l.start \ l.seen : \/ m \notin F
                            \/ Pos(F, m) < Offset(l.page)
                            \/ l.pc = "page" /\ Pos(F, m) >= l.total}

\* What a walk may miss.
Allowance(l) == l.left + (IF l.filter = "day" THEN l.entered ELSE 0)

\* A walk under way, over the rows F.
UnderWay(F, l) ==
  /\ Cardinality(AgainSoon(F, l)) <= l.entered
  /\ Cardinality(Missed(F, l)) <= Allowance(l)
  /\ l.filter # "day" =>
       /\ AgainSoon(F, l) = {}
       /\ l.pc = "page" => \A m \in l.start \cap F : Pos(F, m) < l.total

\* The strengthening: each command can add only as many repeats and misses as rows
\* that it brings into the listing or takes from it.
WalkInv ==
  /\ listing.start \cup listing.seen \subseteq Rows
  /\ Cardinality(listing.again) <= listing.entered
  /\ listing.filter # "day" => listing.again = {}
  /\ listing.pc \in {"count", "page"} => UnderWay(Filtered(listing.filter), listing)
  /\ listing.pc = "done" => Cardinality(listing.start \ listing.seen) <= Allowance(listing)

\* The union of two finite sets has no more elements than both.
LEMMA UnionBound ==
  ASSUME NEW S, IsFiniteSet(S), NEW T, IsFiniteSet(T)
  PROVE  /\ IsFiniteSet(S \cup T) /\ Cardinality(S \cup T) \in Nat
         /\ Cardinality(S \cup T) <= Cardinality(S) + Cardinality(T)
<1>1. Cardinality(S) \in Nat /\ Cardinality(T) \in Nat
  BY FS_CardinalityType
<1>2. IsFiniteSet(S \cap T) /\ Cardinality(S \cap T) \in Nat
  BY FS_Intersection, FS_CardinalityType
<1>3. /\ IsFiniteSet(S \cup T)
      /\ Cardinality(S \cup T) = Cardinality(S) + Cardinality(T) - Cardinality(S \cap T)
  BY FS_Union
<1>4. \A a, b, c, d \in Nat : d = a + b - c => d <= a + b
  OBVIOUS
<1>5. Cardinality(S \cup T) \in Nat
  BY <1>3, FS_CardinalityType
<1> QED
  BY <1>1, <1>2, <1>3, <1>4, <1>5

\* The rows that came in, without the first k of them.
LEMMA SplitEntered ==
  ASSUME NEW F, NEW G, NEW E, IsFiniteSet(G), E \subseteq G
  PROVE  /\ IsFiniteSet(G \ F) /\ Cardinality(G \ F) \in Nat
         /\ IsFiniteSet(E \ F) /\ Cardinality(E \ F) \in Nat
         /\ IsFiniteSet((G \ F) \ E) /\ Cardinality((G \ F) \ E) \in Nat
         /\ Cardinality((G \ F) \ E) = Cardinality(G \ F) - Cardinality(E \ F)
<1>1. (G \ F) \cap E = E \ F
  OBVIOUS
<1>2. IsFiniteSet(G \ F)
  BY FS_Difference
<1>3. /\ IsFiniteSet((G \ F) \ E) /\ IsFiniteSet((G \ F) \cap E)
      /\ Cardinality((G \ F) \ E) = Cardinality(G \ F) - Cardinality((G \ F) \cap E)
  BY <1>2, FS_Difference, FS_Intersection
<1> QED
  BY <1>1, <1>2, <1>3, FS_CardinalityType

\* Repeats grow by no more than the rows that came in.
LEMMA RepeatsGrow ==
  ASSUME NEW l \in Listing,
         NEW F \in SUBSET Match, NEW G \in SUBSET Match
  PROVE  /\ Cardinality(AgainSoon(F, l)) \in Nat /\ Cardinality(AgainSoon(G, l)) \in Nat
         /\ Cardinality(AgainSoon(G, l))
              <= Cardinality(AgainSoon(F, l)) + Cardinality(G \ F)
<1> DEFINE k == Offset(l.page)
           A == Early(G, k) \ F
           X == {m \in F \cap G : Pos(F, m) < k /\ Pos(G, m) >= k}
           B == (G \ F) \ Early(G, k)
           W == AgainSoon(F, l)
           V == AgainSoon(G, l)
<1>1. /\ F \in SUBSET Nat /\ IsFiniteSet(F) /\ G \in SUBSET Nat /\ IsFiniteSet(G)
      /\ Match \in SUBSET Nat /\ IsFiniteSet(Match)
  BY ReadsAssumption, FS_Subset
<1>2. k \in Nat
  <2>1. l.page \in Nat \ {0} /\ PerPage \in Nat
    BY ReadsAssumption DEF Listing
  <2> QED
    BY <2>1 DEF Offset
<1>3. W \in SUBSET Match /\ V \in SUBSET Match
  BY DEF AgainSoon, Listing
<1>4. IsFiniteSet(W) /\ IsFiniteSet(V) /\ Cardinality(W) \in Nat /\ Cardinality(V) \in Nat
  BY <1>1, <1>3, FS_Subset, FS_CardinalityType
<1>5. /\ \A m : Pos(F, m) \in Nat /\ Pos(G, m) \in Nat
  BY <1>1, Positions
<1> HIDE DEF k
<1>6. V \subseteq W \cup (X \cup B)
  <2> SUFFICES ASSUME NEW m \in V, m \notin W PROVE m \in X \cup B
    OBVIOUS
  <2>1. /\ m \in l.seen /\ m \in G /\ Pos(G, m) >= k
        /\ m \in F => ~ (Pos(F, m) >= k)
    BY DEF AgainSoon, k
  <2>2. m \in F => Pos(F, m) < k
    BY <1>2, <1>5, <2>1
  <2>3. m \notin Early(G, k)
    BY <1>2, <1>5, <2>1 DEF Early
  <2> QED
    BY <2>1, <2>2, <2>3
<1>7. IsFiniteSet(X) /\ IsFiniteSet(A) /\ Cardinality(X) <= Cardinality(A)
  BY <1>1, <1>2, Crossing
<1>8. /\ IsFiniteSet(B) /\ Cardinality(B) \in Nat /\ Cardinality(A) \in Nat
      /\ Cardinality(G \ F) \in Nat
      /\ Cardinality(B) = Cardinality(G \ F) - Cardinality(A)
  <2>1. Early(G, k) \subseteq G
    BY DEF Early
  <2> QED
    BY <1>1, <2>1, SplitEntered
<1>9. Cardinality(X) \in Nat
  BY <1>7, FS_CardinalityType
<1> HIDE DEF A, B, X, V, W
<1>10. /\ IsFiniteSet(X \cup B) /\ Cardinality(X \cup B) \in Nat
       /\ Cardinality(X \cup B) <= Cardinality(X) + Cardinality(B)
  BY <1>7, <1>8, UnionBound
<1>11. /\ IsFiniteSet(W \cup (X \cup B)) /\ Cardinality(W \cup (X \cup B)) \in Nat
       /\ Cardinality(W \cup (X \cup B)) <= Cardinality(W) + Cardinality(X \cup B)
  BY <1>4, <1>10, UnionBound
<1>12. Cardinality(V) <= Cardinality(W \cup (X \cup B))
  BY <1>6, <1>11, FS_Subset
<1>13. Cardinality(V) <= Cardinality(W) + Cardinality(G \ F)
  BY <1>4, <1>7, <1>8, <1>9, <1>10, <1>11, <1>12
<1> QED
  BY <1>4, <1>13 DEF V, W

\* Misses grow by no more than the rows that went or came; by those that went alone
\* if no row moves back.
LEMMA MissesGrow ==
  ASSUME NEW l \in Listing,
         NEW F \in SUBSET Match, NEW G \in SUBSET Match
  PROVE  /\ Cardinality(Missed(F, l)) \in Nat /\ Cardinality(Missed(G, l)) \in Nat
         /\ Cardinality(Missed(G, l)) <= Cardinality(Missed(F, l))
                                           + Cardinality(F \ G) + Cardinality(G \ F)
         /\ (\A m \in F \cap G : Pos(G, m) <= Pos(F, m)) =>
              Cardinality(Missed(G, l)) <= Cardinality(Missed(F, l)) + Cardinality(F \ G)
<1> DEFINE k == Offset(l.page)
           A == Early(F, k) \ G
           Y == {m \in G \cap F : Pos(G, m) < k /\ Pos(F, m) >= k}
           B == (F \ G) \ Early(F, k)
           X == {m \in F \cap G : Pos(F, m) < l.total /\ Pos(G, m) >= l.total}
           M == Missed(F, l)
           N == Missed(G, l)
<1>1. /\ F \in SUBSET Nat /\ IsFiniteSet(F) /\ G \in SUBSET Nat /\ IsFiniteSet(G)
      /\ Match \in SUBSET Nat /\ IsFiniteSet(Match)
  BY ReadsAssumption, FS_Subset
<1>2. k \in Nat /\ l.total \in Nat
  <2>1. l.page \in Nat \ {0} /\ PerPage \in Nat /\ l.total \in Nat
    BY ReadsAssumption DEF Listing
  <2> QED
    BY <2>1 DEF Offset
<1>3. M \in SUBSET Match /\ N \in SUBSET Match
  BY DEF Missed, Listing
<1>4. IsFiniteSet(M) /\ IsFiniteSet(N) /\ Cardinality(M) \in Nat /\ Cardinality(N) \in Nat
  BY <1>1, <1>3, FS_Subset, FS_CardinalityType
<1>5. \A m : Pos(F, m) \in Nat /\ Pos(G, m) \in Nat
  BY <1>1, Positions
<1> HIDE DEF k
<1>6. N \subseteq (M \cup (Y \cup B)) \cup X
  <2> SUFFICES ASSUME NEW m \in N, m \notin M PROVE m \in Y \cup B \cup X
    OBVIOUS
  <2>1. /\ m \in F /\ ~ (Pos(F, m) < k)
        /\ ~ (l.pc = "page" /\ Pos(F, m) >= l.total)
        /\ \/ m \notin G
           \/ Pos(G, m) < k
           \/ l.pc = "page" /\ Pos(G, m) >= l.total
    BY DEF Missed, k
  <2>2. CASE m \notin G
    BY <2>1, <2>2 DEF Early
  <2>3. CASE m \in G /\ Pos(G, m) < k
    BY <1>2, <1>5, <2>1, <2>3
  <2>4. CASE m \in G /\ l.pc = "page" /\ Pos(G, m) >= l.total
    BY <1>2, <1>5, <2>1, <2>4
  <2> QED
    BY <2>1, <2>2, <2>3, <2>4
<1>7. IsFiniteSet(Y) /\ IsFiniteSet(A) /\ Cardinality(Y) <= Cardinality(A)
  BY <1>1, <1>2, Crossing
<1>8. /\ IsFiniteSet(B) /\ Cardinality(B) \in Nat /\ Cardinality(A) \in Nat
      /\ Cardinality(F \ G) \in Nat
      /\ Cardinality(B) = Cardinality(F \ G) - Cardinality(A)
  <2>1. Early(F, k) \subseteq F
    BY DEF Early
  <2> QED
    BY <1>1, <2>1, SplitEntered
<1>9. IsFiniteSet(X) /\ Cardinality(X) <= Cardinality(Early(G, l.total) \ F)
  BY <1>1, <1>2, Crossing
<1>10. /\ Cardinality(G \ F) \in Nat
       /\ Cardinality(Early(G, l.total) \ F) \in Nat
       /\ Cardinality(Early(G, l.total) \ F) <= Cardinality(G \ F)
  <2>1. IsFiniteSet(G \ F) /\ Early(G, l.total) \ F \in SUBSET (G \ F)
    BY <1>1, FS_Difference DEF Early
  <2> QED
    BY <2>1, FS_Subset, FS_CardinalityType
<1>11. Cardinality(Y) \in Nat /\ Cardinality(X) \in Nat
  BY <1>7, <1>9, FS_CardinalityType
<1>12. (\A m \in F \cap G : Pos(G, m) <= Pos(F, m)) => X = {}
  BY <1>2, <1>5
<1>13. X = {} => Cardinality(X) = 0
  BY FS_EmptySet, Zenon
<1> HIDE DEF A, B, X, Y, M, N
<1>14. /\ IsFiniteSet(Y \cup B) /\ Cardinality(Y \cup B) \in Nat
       /\ Cardinality(Y \cup B) <= Cardinality(Y) + Cardinality(B)
  BY <1>7, <1>8, UnionBound
<1>15. /\ IsFiniteSet(M \cup (Y \cup B)) /\ Cardinality(M \cup (Y \cup B)) \in Nat
       /\ Cardinality(M \cup (Y \cup B)) <= Cardinality(M) + Cardinality(Y \cup B)
  BY <1>4, <1>14, UnionBound
<1>16. /\ IsFiniteSet((M \cup (Y \cup B)) \cup X)
       /\ Cardinality((M \cup (Y \cup B)) \cup X) \in Nat
       /\ Cardinality((M \cup (Y \cup B)) \cup X)
            <= Cardinality(M \cup (Y \cup B)) + Cardinality(X)
  BY <1>9, <1>15, UnionBound
<1>17. Cardinality(N) <= Cardinality((M \cup (Y \cup B)) \cup X)
  BY <1>6, <1>16, FS_Subset
<1>18. Cardinality(N) <= Cardinality(M) + Cardinality(F \ G) + Cardinality(X)
  BY <1>4, <1>7, <1>8, <1>11, <1>14, <1>15, <1>16, <1>17
<1>19. Cardinality(N) <= Cardinality(M) + Cardinality(F \ G) + Cardinality(G \ F)
  BY <1>4, <1>8, <1>9, <1>10, <1>11, <1>18
<1>20. X = {} => Cardinality(N) <= Cardinality(M) + Cardinality(F \ G)
  BY <1>4, <1>8, <1>13, <1>18
<1>21. (\A m \in F \cap G : Pos(G, m) <= Pos(F, m)) =>
         Cardinality(N) <= Cardinality(M) + Cardinality(F \ G)
  BY <1>12, <1>20
<1> QED
  BY <1>4, <1>19, <1>21 DEF M, N

\* In a listing of all matches, or of those still to be played, no row moves back:
\* what a command brings in is the bracket, which comes after the groups' matches.
LEMMA NoRowMovesBack ==
  ASSUME TypeOK, NEW m \in Match,
         \/ RegisterGroupResult(m)
         \/ RegisterKnockoutResult(m)
         \/ \E day \in Day : Reschedule(m, day),
         NEW filter \in Filters, filter # "day"
  PROVE  LET F == Filtered(filter)
             G == Filtered(filter)'
         IN  /\ \A n \in G : n \in Rows => n \in F
             /\ \A n \in F \cap G : Pos(G, n) <= Pos(F, n)
<1> DEFINE F == Filtered(filter)
           G == Filtered(filter)'
<1>1. /\ results \subseteq results' /\ Rows \subseteq Rows' /\ bracket \in BOOLEAN
      /\ bracket' \in BOOLEAN
  BY CommandTypes DEF TypeOK
<1>2. filter \in {"all", "scheduled"}
  BY DEF Filters
<1>3. /\ F = {n \in Rows : filter = "scheduled" => n \notin results}
      /\ G = {n \in Rows' : filter = "scheduled" => n \notin results'}
  BY <1>2 DEF Filtered
<1>4. \A n \in G : n \in Rows => n \in F
  BY <1>1, <1>3
<1>5. \A n \in G \ F : \A j \in F : j < n
  <2> SUFFICES ASSUME NEW n \in G \ F, NEW j \in F PROVE j < n
    OBVIOUS
  <2>1. n \in Rows' /\ n \notin Rows /\ j \in Rows
    BY <1>3, <1>4
  <2>2. n \in Knockout /\ j \in GroupMatch
    BY <1>1, <2>1 DEF Rows
  <2> QED
    BY <2>2, ReadsAssumption
<1>6. F \in SUBSET Nat /\ IsFiniteSet(F) /\ G \in SUBSET Nat /\ IsFiniteSet(G)
  BY FilteredRows
<1> HIDE DEF F, G
<1>7. ASSUME NEW n \in F PROVE Pos(G, n) <= Pos(F, n)
  <2>1. {j \in G : j < n} \subseteq {j \in F : j < n}
    <3> SUFFICES ASSUME NEW j \in G, j < n, j \notin F PROVE FALSE
      OBVIOUS
    <3>1. j \in Nat /\ n \in Nat /\ n < j
      BY <1>5, <1>6, <1>7
    <3> QED
      BY <3>1
  <2>2. IsFiniteSet({j \in F : j < n})
    BY <1>6, FS_Subset
  <2> QED
    BY <2>1, <2>2, FS_Subset DEF Pos
<1> QED
  BY <1>4, <1>7 DEF F, G

\* A command leaves a walk under way within its allowance.
LEMMA CommandWalk ==
  ASSUME NEW l \in Listing, NEW n \in Listing,
         NEW F \in SUBSET Match, NEW G \in SUBSET Match, UnderWay(F, l),
         n.pc = l.pc, n.filter = l.filter, n.page = l.page, n.total = l.total,
         n.start = l.start, n.seen = l.seen, n.again = l.again,
         n.entered = l.entered + Cardinality(G \ F),
         n.left = l.left + Cardinality(F \ G),
         l.filter # "day" =>
           /\ \A m \in F \cap G : Pos(G, m) <= Pos(F, m)
           /\ (l.start \cup l.seen) \cap G \subseteq F
  PROVE  UnderWay(G, n)
<1>1. AgainSoon(G, n) = AgainSoon(G, l) /\ Missed(G, n) = Missed(G, l)
  BY DEF AgainSoon, Missed
<1>2. /\ F \in SUBSET Nat /\ IsFiniteSet(F) /\ G \in SUBSET Nat /\ IsFiniteSet(G)
  BY ReadsAssumption, FS_Subset
<1>3. \A m : Pos(F, m) \in Nat /\ Pos(G, m) \in Nat
  BY <1>2, Positions
<1>4. /\ Cardinality(AgainSoon(F, l)) \in Nat /\ Cardinality(AgainSoon(G, l)) \in Nat
      /\ Cardinality(AgainSoon(G, l)) <= Cardinality(AgainSoon(F, l)) + Cardinality(G \ F)
  BY RepeatsGrow
<1>5. /\ Cardinality(Missed(F, l)) \in Nat /\ Cardinality(Missed(G, l)) \in Nat
      /\ Cardinality(Missed(G, l)) <= Cardinality(Missed(F, l))
                                        + Cardinality(F \ G) + Cardinality(G \ F)
      /\ (\A m \in F \cap G : Pos(G, m) <= Pos(F, m)) =>
           Cardinality(Missed(G, l)) <= Cardinality(Missed(F, l)) + Cardinality(F \ G)
  BY MissesGrow
<1> DEFINE a == Cardinality(G \ F)
           b == Cardinality(F \ G)
           w == Cardinality(AgainSoon(F, l))
           v == Cardinality(AgainSoon(G, l))
           s == Cardinality(Missed(F, l))
           t == Cardinality(Missed(G, l))
<1>6. a \in Nat /\ b \in Nat
  BY <1>2, FS_Difference, FS_CardinalityType
<1>7. /\ w <= l.entered /\ s <= Allowance(l)
      /\ l.filter # "day" =>
           /\ AgainSoon(F, l) = {}
           /\ l.pc = "page" => \A m \in l.start \cap F : Pos(F, m) < l.total
  BY DEF UnderWay
<1>8. l.entered \in Nat /\ l.left \in Nat /\ l.total \in Nat
  BY DEF Listing
<1>9. /\ w \in Nat /\ v \in Nat /\ s \in Nat /\ t \in Nat
      /\ v <= w + a /\ t <= s + b + a
      /\ l.filter # "day" => t <= s + b
      /\ n.entered = l.entered + a /\ n.left = l.left + b
  BY <1>4, <1>5
<1>10. Cardinality(AgainSoon(G, n)) = v /\ Cardinality(Missed(G, n)) = t
  BY <1>1
<1> HIDE DEF a, b, w, v, s, t
<1>11. v <= n.entered
  BY <1>6, <1>7, <1>8, <1>9
<1>12. t <= Allowance(n)
  BY <1>6, <1>7, <1>8, <1>9 DEF Allowance
<1>13. ASSUME l.filter # "day" PROVE AgainSoon(G, n) = {}
  <2>1. l.again = {}
    BY <1>7, <1>13 DEF AgainSoon
  <2> SUFFICES ASSUME NEW m \in l.seen \cap G, Pos(G, m) >= Offset(l.page) PROVE FALSE
    BY <1>1, <2>1 DEF AgainSoon
  <2>2. m \in F \cap G /\ Pos(G, m) <= Pos(F, m)
    BY <1>13
  <2>3. Offset(l.page) \in Int
    BY ReadsAssumption DEF Offset, Listing
  <2>4. Pos(F, m) >= Offset(l.page)
    BY <1>3, <2>2, <2>3
  <2>5. m \in AgainSoon(F, l)
    BY <2>2, <2>4 DEF AgainSoon
  <2> QED
    BY <1>7, <1>13, <2>5
<1>14. ASSUME l.filter # "day", l.pc = "page", NEW m \in l.start \cap G
       PROVE  Pos(G, m) < l.total
  <2>1. m \in F \cap G /\ Pos(G, m) <= Pos(F, m) /\ Pos(F, m) < l.total
    BY <1>7, <1>14
  <2> QED
    BY <1>3, <1>8, <2>1
<1> QED
  BY <1>10, <1>11, <1>12, <1>13, <1>14 DEF UnderWay

\* The page after a page begins where it ends, and after the last one that the
\* metadata announces there is no row of those counted.
LEMMA LastPage ==
  ASSUME NEW page \in Nat \ {0}, NEW total \in Nat
  PROVE  /\ Offset(page) \in Nat /\ Offset(page + 1) = Offset(page) + PerPage
         /\ ~ (page < TotalPages(total)) => total <= Offset(page) + PerPage
<1> DEFINE q == total \div PerPage
           r == total % PerPage
<1>1. PerPage \in Nat /\ PerPage > 0
  BY ReadsAssumption
<1>2. /\ q \in Nat /\ r \in Nat /\ r < PerPage /\ total = PerPage * q + r
  BY <1>1
<1>3. TotalPages(total) = q + (IF r # 0 THEN 1 ELSE 0)
  BY DEF TotalPages
<1> HIDE DEF q, r
<1>4. Offset(page) = (page - 1) * PerPage /\ Offset(page + 1) = page * PerPage
  BY DEF Offset
<1>5. page * PerPage = (page - 1) * PerPage + PerPage
  BY <1>1
<1>6. ASSUME ~ (page < TotalPages(total)) PROVE total <= page * PerPage
  <2>1. CASE r = 0
    <3>1. q <= page
      BY <1>2, <1>3, <1>6, <2>1
    <3>2. PerPage * q <= page * PerPage
      BY <1>1, <1>2, <3>1
    <3> QED
      BY <1>1, <1>2, <2>1, <3>2
  <2>2. CASE r # 0
    <3>1. q + 1 <= page
      BY <1>2, <1>3, <1>6, <2>2
    <3>2. PerPage * (q + 1) <= page * PerPage
      BY <1>1, <1>2, <3>1
    <3>3. PerPage * (q + 1) = PerPage * q + PerPage
      BY <1>1, <1>2
    <3> QED
      BY <1>1, <1>2, <3>2, <3>3
  <2> QED
    BY <2>1, <2>2
<1>7. (page - 1) * PerPage \in Nat
  BY <1>1
<1> QED
  BY <1>4, <1>5, <1>6, <1>7

\* A new walk has shown and missed nothing.
LEMMA NewWalk ==
  ASSUME NEW n \in Listing, NEW F \in SUBSET Match,
         n.pc = "count", n.page = 1, n.start = F, n.seen = {}, n.again = {},
         n.entered = 0, n.left = 0
  PROVE  UnderWay(F, n)
<1>1. F \in SUBSET Nat /\ IsFiniteSet(F) /\ PerPage \in Nat
  BY ReadsAssumption, FS_Subset
<1>2. Offset(n.page) = 0
  BY <1>1 DEF Offset
<1>3. \A m : Pos(F, m) \in Nat
  BY <1>1, Positions
<1>4. AgainSoon(F, n) = {}
  BY DEF AgainSoon
<1>5. Missed(F, n) = {}
  BY <1>2, <1>3 DEF Missed
<1>6. Cardinality(AgainSoon(F, n)) = 0 /\ Cardinality(Missed(F, n)) = 0
  BY <1>4, <1>5, FS_EmptySet, Zenon
<1>7. Allowance(n) = 0
  BY DEF Allowance
<1> QED
  BY <1>4, <1>6, <1>7 DEF UnderWay

\* Counting changes neither what is shown again nor what is missed: every row of the
\* listing is before the end of the last page.
LEMMA CountWalk ==
  ASSUME NEW l \in Listing, NEW n \in Listing, NEW F \in SUBSET Match, UnderWay(F, l),
         l.pc = "count", n.pc = "page", n.total = Cardinality(F),
         n.filter = l.filter, n.page = l.page, n.start = l.start, n.seen = l.seen,
         n.again = l.again, n.entered = l.entered, n.left = l.left
  PROVE  UnderWay(F, n)
<1>1. F \in SUBSET Nat /\ IsFiniteSet(F)
  BY ReadsAssumption, FS_Subset
<1>2. \A m \in F : Pos(F, m) < n.total /\ Pos(F, m) \in Nat
  BY <1>1, Positions
<1>3. n.total \in Nat
  BY DEF Listing
<1>4. AgainSoon(F, n) = AgainSoon(F, l)
  BY DEF AgainSoon
<1>5. Missed(F, n) = Missed(F, l)
  BY <1>2, <1>3 DEF Missed
<1>6. Allowance(n) = Allowance(l)
  BY DEF Allowance
<1> QED
  BY <1>2, <1>4, <1>5, <1>6 DEF UnderWay

\* A page that is not the last shows again what was going to be, and leaves what was
\* going to be missed.
LEMMA PageWalk ==
  ASSUME NEW l \in Listing, NEW n \in Listing, NEW F \in SUBSET Match, UnderWay(F, l),
         l.pc = "page", n.pc = "count", n.page = l.page + 1,
         n.filter = l.filter, n.start = l.start, n.entered = l.entered, n.left = l.left,
         NEW rows, rows = {m \in F : /\ Pos(F, m) >= Offset(l.page)
                                     /\ Pos(F, m) < Offset(l.page) + PerPage},
         n.seen = l.seen \cup rows, n.again = l.again \cup (rows \cap l.seen)
  PROVE  UnderWay(F, n)
<1>1. F \in SUBSET Nat /\ IsFiniteSet(F) /\ PerPage \in Nat
  BY ReadsAssumption, FS_Subset
<1>2. \A m : Pos(F, m) \in Nat
  BY <1>1, Positions
<1>3. l.page \in Nat \ {0}
  BY DEF Listing
<1>4. Offset(l.page) \in Nat /\ Offset(n.page) = Offset(l.page) + PerPage
  BY <1>3, LastPage
<1>5. AgainSoon(F, n) \subseteq AgainSoon(F, l)
  BY <1>1, <1>2, <1>4 DEF AgainSoon
<1>6. Missed(F, n) \subseteq Missed(F, l)
  BY <1>1, <1>2, <1>4 DEF Missed
<1>7. /\ Cardinality(AgainSoon(F, n)) <= Cardinality(AgainSoon(F, l))
      /\ Cardinality(Missed(F, n)) <= Cardinality(Missed(F, l))
  <2>1. AgainSoon(F, l) \in SUBSET Match /\ Missed(F, l) \in SUBSET Match
    BY DEF AgainSoon, Missed, Listing
  <2>2. IsFiniteSet(AgainSoon(F, l)) /\ IsFiniteSet(Missed(F, l))
    BY <2>1, ReadsAssumption, FS_Subset
  <2> QED
    BY <1>5, <1>6, <2>2, FS_Subset
<1>8. /\ Cardinality(AgainSoon(F, n)) \in Nat /\ Cardinality(Missed(F, n)) \in Nat
      /\ Cardinality(AgainSoon(F, l)) \in Nat /\ Cardinality(Missed(F, l)) \in Nat
  BY RepeatsGrow, MissesGrow
<1>9. Allowance(n) = Allowance(l) /\ Allowance(l) \in Nat /\ l.entered \in Nat
  BY DEF Allowance, Listing
<1>10. /\ Cardinality(AgainSoon(F, l)) <= l.entered
       /\ Cardinality(Missed(F, l)) <= Allowance(l)
       /\ l.filter # "day" => AgainSoon(F, l) = {}
  BY DEF UnderWay
<1>11. Cardinality(AgainSoon(F, n)) <= n.entered
  BY <1>7, <1>8, <1>9, <1>10
<1>12. Cardinality(Missed(F, n)) <= Allowance(n)
  BY <1>7, <1>8, <1>9, <1>10
<1> QED
  BY <1>5, <1>10, <1>11, <1>12 DEF UnderWay

\* After the last page, what was going to be missed has been.
LEMMA LastPageWalk ==
  ASSUME NEW l \in Listing, NEW n \in Listing, NEW F \in SUBSET Match, UnderWay(F, l),
         l.pc = "page", ~ (l.page < TotalPages(l.total)),
         n.filter = l.filter, n.start = l.start, n.entered = l.entered, n.left = l.left,
         NEW rows, rows = {m \in F : /\ Pos(F, m) >= Offset(l.page)
                                     /\ Pos(F, m) < Offset(l.page) + PerPage},
         n.seen = l.seen \cup rows
  PROVE  Cardinality(n.start \ n.seen) <= Allowance(n)
<1>1. F \in SUBSET Nat /\ IsFiniteSet(F) /\ PerPage \in Nat
  BY ReadsAssumption, FS_Subset
<1>2. \A m : Pos(F, m) \in Nat
  BY <1>1, Positions
<1>3. l.page \in Nat \ {0} /\ l.total \in Nat
  BY DEF Listing
<1>4. Offset(l.page) \in Nat /\ l.total <= Offset(l.page) + PerPage
  BY <1>3, LastPage
<1>5. n.start \ n.seen \subseteq Missed(F, l)
  BY <1>1, <1>2, <1>3, <1>4 DEF Missed
<1>6. Missed(F, l) \in SUBSET Match
  BY DEF Missed, Listing
<1>7. IsFiniteSet(Missed(F, l))
  BY <1>6, ReadsAssumption, FS_Subset
<1>8. IsFiniteSet(n.start \ n.seen) /\ Cardinality(n.start \ n.seen) <= Cardinality(Missed(F, l))
  BY <1>5, <1>7, FS_Subset
<1>9. Cardinality(n.start \ n.seen) \in Nat /\ Cardinality(Missed(F, l)) \in Nat
  BY <1>7, <1>8, FS_CardinalityType
<1>10. Cardinality(Missed(F, l)) <= Allowance(l)
  BY DEF UnderWay
<1>11. Allowance(n) = Allowance(l) /\ Allowance(l) \in Nat
  BY DEF Allowance, Listing
<1> QED
  BY <1>8, <1>9, <1>10, <1>11

\* The rows of a listing depend on its filter, and move with the database only.
LEMMA RowsByFilter ==
  \A filter : /\ filter = listing'.filter => Filtered(filter)' = Filtered(listing.filter)'
              /\ UNCHANGED db => Filtered(filter)' = Filtered(filter) /\ Rows' = Rows
<1> TAKE filter
<1>1. ASSUME filter = listing'.filter
      PROVE  Filtered(filter)' = Filtered(listing.filter)'
  BY <1>1 DEF Filtered
<1>2. ASSUME UNCHANGED db PROVE Rows' = Rows
  BY <1>2 DEF db, Rows
<1>3. ASSUME UNCHANGED db PROVE Filtered(filter)' = Filtered(filter)
  <2>1. Rows' = Rows /\ results' = results /\ scheduled_at' = scheduled_at
    BY <1>2, <1>3 DEF db
  <2> QED
    BY <2>1 DEF Filtered
<1> QED
  BY <1>1, <1>2, <1>3

\* No walk has begun, or one that shows nothing.
LEMMA IdleWalk == listing = NoListing => WalkInv
<1> SUFFICES ASSUME listing = NoListing PROVE WalkInv
  OBVIOUS
<1>1. /\ listing.pc = "idle" /\ listing.start = {} /\ listing.seen = {}
      /\ listing.again = {} /\ listing.entered = 0
  BY DEF NoListing
<1>2. Cardinality(listing.again) = 0
  BY <1>1, FS_EmptySet, Zenon
<1> QED
  BY <1>1, <1>2 DEF WalkInv

\* What a walk under way says of the matches it has shown.
LEMMA ShownAgain ==
  ASSUME NEW l \in Listing, NEW F \in SUBSET Match, UnderWay(F, l)
  PROVE  \A A \in SUBSET AgainSoon(F, l) :
           /\ Cardinality(A) <= l.entered
           /\ l.filter # "day" => A = {}
<1> TAKE A \in SUBSET AgainSoon(F, l)
<1>1. AgainSoon(F, l) \in SUBSET Match
  BY DEF AgainSoon, Listing
<1>2. IsFiniteSet(AgainSoon(F, l))
  BY <1>1, ReadsAssumption, FS_Subset
<1>3. IsFiniteSet(A) /\ Cardinality(A) <= Cardinality(AgainSoon(F, l))
  BY <1>2, FS_Subset
<1>4. Cardinality(A) \in Nat /\ Cardinality(AgainSoon(F, l)) \in Nat
  BY <1>2, <1>3, FS_CardinalityType
<1>5. /\ Cardinality(AgainSoon(F, l)) <= l.entered /\ l.entered \in Nat
      /\ l.filter # "day" => AgainSoon(F, l) = {}
  BY DEF UnderWay, Listing
<1>6. Cardinality(A) <= l.entered
  BY <1>3, <1>4, <1>5
<1> QED
  BY <1>5, <1>6

\* A command keeps the walk within its allowance.
LEMMA WalkOutlivesCommand ==
  ASSUME TypeOK, TypeOK', WalkInv, NEW m \in Match,
         \/ RegisterGroupResult(m)
         \/ RegisterKnockoutResult(m)
         \/ \E day \in Day : Reschedule(m, day)
  PROVE  WalkInv'
<1>1. listing \in Listing /\ listing' \in Listing
  BY DEF TypeOK
<1>2. Commit /\ Rows \subseteq Rows'
  BY CommandTypes
<1>3. /\ listing'.pc = listing.pc /\ listing'.filter = listing.filter
      /\ listing'.page = listing.page /\ listing'.total = listing.total
      /\ listing'.start = listing.start /\ listing'.seen = listing.seen
      /\ listing'.again = listing.again
      /\ listing.pc \notin {"count", "page"} => listing' = listing
  BY <1>1, <1>2, CommitListing
<1>4. CASE listing.pc \notin {"count", "page"}
  BY <1>2, <1>3, <1>4 DEF WalkInv, Allowance
<1>5. CASE listing.pc \in {"count", "page"}
  <2>1. PICK filter : filter = listing.filter /\ filter \in Filters
    BY <1>1 DEF Listing
  <2> DEFINE F == Filtered(filter)
             G == Filtered(filter)'
  <2>2. /\ listing'.entered = listing.entered + Cardinality(G \ F)
        /\ listing'.left = listing.left + Cardinality(F \ G)
    BY <1>1, <1>2, <1>5, <2>1, CommitListing
  <2>3. filter # "day" => /\ \A n \in G : n \in Rows => n \in F
                          /\ \A n \in F \cap G : Pos(G, n) <= Pos(F, n)
    BY <2>1, NoRowMovesBack
  <2>4. F \in SUBSET Match /\ G \in SUBSET Match
    BY FilteredRows
  <2>5. UnderWay(F, listing) /\ listing.start \cup listing.seen \subseteq Rows
    BY <1>5, <2>1 DEF WalkInv
  <2>6. Filtered(listing.filter)' = G
    BY <1>3, <2>1, RowsByFilter
  <2> HIDE DEF F, G
  <2>7. listing.filter # "day" => (listing.start \cup listing.seen) \cap G \subseteq F
    BY <2>1, <2>3, <2>5
  <2>8. UnderWay(G, listing')
    BY <1>1, <1>3, <2>1, <2>2, <2>3, <2>4, <2>5, <2>7, CommandWalk
  <2>9. UnderWay(Filtered(listing.filter), listing)'
    BY <2>6, <2>8
  <2>10. \A A \in SUBSET AgainSoon(G, listing') :
           /\ Cardinality(A) <= listing'.entered
           /\ listing'.filter # "day" => A = {}
    BY <1>1, <2>4, <2>8, ShownAgain
  <2>11. listing'.again \in SUBSET AgainSoon(G, listing')
    BY DEF AgainSoon
  <2> QED
    BY <1>2, <1>3, <1>5, <2>5, <2>9, <2>10, <2>11 DEF WalkInv
<1> QED
  BY <1>4, <1>5

\* Fetching a page keeps the walk within its allowance.
LEMMA WalkOutlivesFetch ==
  ASSUME TypeOK, TypeOK', WalkInv, FetchPage
  PROVE  WalkInv'
<1> DEFINE rows == PageOf(listing.filter, listing.page)
           more == listing.page < TotalPages(listing.total)
           F == Filtered(listing.filter)
<1>1. listing \in Listing /\ listing' \in Listing
  BY DEF TypeOK
<1>2. /\ listing.pc = "page" /\ UNCHANGED <<db, view>>
      /\ listing'.filter = listing.filter /\ listing'.total = listing.total
      /\ listing'.start = listing.start
      /\ listing'.entered = listing.entered /\ listing'.left = listing.left
      /\ \/ /\ listing'.pc = "failed" /\ listing'.page = listing.page
            /\ listing'.seen = listing.seen /\ listing'.again = listing.again
         \/ /\ listing'.pc = IF more THEN "count" ELSE "done"
            /\ listing'.page = IF more THEN listing.page + 1 ELSE listing.page
            /\ listing'.seen = listing.seen \cup rows
            /\ listing'.again = listing.again \cup (rows \cap listing.seen)
  BY <1>1, FetchListing
<1>3. /\ F \in SUBSET Match /\ F \subseteq Rows /\ Rows' = Rows
      /\ Filtered(listing.filter)' = F
  <2>1. PICK filter : filter = listing'.filter
    OBVIOUS
  <2>2. Filtered(filter)' = Filtered(listing.filter)' /\ Filtered(filter)' = Filtered(filter)
    BY <1>2, <2>1, RowsByFilter
  <2> QED
    BY <1>2, <2>1, <2>2, FilteredRows, RowsByFilter
<1>4. rows = {m \in F : /\ Pos(F, m) >= Offset(listing.page)
                        /\ Pos(F, m) < Offset(listing.page) + PerPage}
  BY <1>1, PageRows
<1>5. UnderWay(F, listing) /\ listing.start \cup listing.seen \subseteq Rows
  BY <1>2 DEF WalkInv
<1>6. \A A \in SUBSET AgainSoon(F, listing) :
        /\ Cardinality(A) <= listing.entered
        /\ listing.filter # "day" => A = {}
  BY <1>1, <1>3, <1>5, ShownAgain
<1>7. rows \subseteq F /\ \A m \in rows : Pos(F, m) >= Offset(listing.page)
  BY <1>4
<1> HIDE DEF rows, more, F
<1>8. CASE /\ listing'.pc = "failed"
           /\ listing'.seen = listing.seen /\ listing'.again = listing.again
  BY <1>2, <1>3, <1>8 DEF WalkInv
<1>9. CASE /\ listing'.pc = IF more THEN "count" ELSE "done"
           /\ listing'.page = IF more THEN listing.page + 1 ELSE listing.page
           /\ listing'.seen = listing.seen \cup rows
           /\ listing'.again = listing.again \cup (rows \cap listing.seen)
  <2>1. listing'.again \in SUBSET AgainSoon(F, listing)
    BY <1>7, <1>9 DEF AgainSoon
  <2>2. /\ Cardinality(listing'.again) <= listing'.entered
        /\ listing'.filter # "day" => listing'.again = {}
    BY <1>2, <1>6, <2>1
  <2>3. (listing.start \cup listing.seen)' \subseteq Rows'
    BY <1>2, <1>3, <1>5, <1>7, <1>9
  <2>4. CASE more
    <3>1. listing'.pc = "count" /\ listing'.page = listing.page + 1
      BY <1>9, <2>4
    <3>2. UnderWay(F, listing')
      BY <1>1, <1>2, <1>3, <1>4, <1>5, <1>9, <3>1, PageWalk
    <3> QED
      BY <1>3, <2>2, <2>3, <3>1, <3>2 DEF WalkInv
  <2>5. CASE ~ more
    <3>1. listing'.pc = "done"
      BY <1>9, <2>5
    <3>2. Cardinality(listing'.start \ listing'.seen) <= Allowance(listing')
      BY <1>1, <1>2, <1>3, <1>4, <1>5, <1>9, <2>5, LastPageWalk DEF more
    <3> QED
      BY <2>2, <2>3, <3>1, <3>2 DEF WalkInv
  <2> QED
    BY <2>4, <2>5
<1> QED
  BY <1>2, <1>8, <1>9

\* Every step keeps the walk within its allowance.
LEMMA WalkStep == TypeOK /\ TypeOK' /\ WalkInv /\ [Next]_vars => WalkInv'
<1> SUFFICES ASSUME TypeOK, TypeOK', WalkInv, [Next]_vars PROVE WalkInv'
  OBVIOUS
<1>1. listing \in Listing /\ listing' \in Listing
  BY DEF TypeOK
<1>2. ASSUME NEW m \in Match,
             \/ RegisterGroupResult(m)
             \/ RegisterKnockoutResult(m)
             \/ \E day \in Day : Reschedule(m, day)
      PROVE  WalkInv'
  BY <1>2, WalkOutlivesCommand
<1>3. CASE GetFixture \/ ListGroups \/ GetStandings \/ GetKnockout \/ GetKnockoutRound
  <2>1. listing' = NoListing
    BY <1>3 DEF GetFixture, ListGroups, GetStandings, GetKnockout, GetKnockoutRound, Request
  <2>2. /\ listing'.pc = "idle" /\ listing'.start = {} /\ listing'.seen = {}
        /\ listing'.again = {} /\ listing'.entered = 0
    BY <2>1 DEF NoListing
  <2>3. Cardinality(listing'.again) = 0
    BY <2>2, FS_EmptySet, Zenon
  <2> QED
    BY <2>2, <2>3 DEF WalkInv
<1>4. ASSUME UNCHANGED <<db, listing>> PROVE WalkInv'
  <2>1. PICK filter : filter = listing'.filter
    OBVIOUS
  <2>2. /\ Filtered(filter)' = Filtered(listing.filter)'
        /\ Filtered(filter)' = Filtered(filter) /\ Rows' = Rows
    BY <1>4, <2>1, RowsByFilter
  <2>3. Filtered(listing.filter)' = Filtered(listing.filter)
    BY <1>4, <2>1, <2>2
  <2> QED
    BY <1>4, <2>2, <2>3 DEF WalkInv
<1>5. ASSUME NEW filter \in Filters, ListMatches(filter) PROVE WalkInv'
  <2>1. /\ UNCHANGED db
        /\ listing'.pc = "count" /\ listing'.filter = filter /\ listing'.page = 1
        /\ listing'.start = Filtered(filter)
        /\ listing'.seen = {} /\ listing'.again = {}
        /\ listing'.entered = 0 /\ listing'.left = 0
    BY <1>5, NewListing
  <2>2. /\ Filtered(listing.filter)' = Filtered(filter) /\ Rows' = Rows
        /\ Filtered(filter) \in SUBSET Match /\ Filtered(filter) \subseteq Rows
    BY <2>1, RowsByFilter, FilteredRows
  <2>3. UnderWay(Filtered(filter), listing')
    BY <1>1, <2>1, <2>2, NewWalk
  <2>4. UnderWay(Filtered(listing.filter), listing)'
    BY <2>2, <2>3
  <2>5. Cardinality(listing'.again) = 0
    BY <2>1, FS_EmptySet, Zenon
  <2> QED
    BY <2>1, <2>2, <2>4, <2>5 DEF WalkInv
<1>6. CASE Count
  <2> DEFINE F == Filtered(listing.filter)
  <2>1. /\ listing.pc = "count" /\ UNCHANGED <<db, view>>
        /\ listing'.pc = "page" /\ listing'.total = Cardinality(F)
        /\ listing'.filter = listing.filter /\ listing'.page = listing.page
        /\ listing'.start = listing.start /\ listing'.seen = listing.seen
        /\ listing'.again = listing.again
        /\ listing'.entered = listing.entered /\ listing'.left = listing.left
    BY <1>1, <1>6, CountListing
  <2>2. PICK filter : filter = listing'.filter
    OBVIOUS
  <2>3. Filtered(listing.filter)' = F /\ Rows' = Rows /\ F \in SUBSET Match
    BY <2>1, <2>2, RowsByFilter, FilteredRows
  <2>4. UnderWay(F, listing)
    BY <2>1 DEF WalkInv
  <2> HIDE DEF F
  <2>5. UnderWay(F, listing')
    BY <1>1, <2>1, <2>3, <2>4, CountWalk
  <2>6. UnderWay(Filtered(listing.filter), listing)'
    BY <2>3, <2>5
  <2> QED
    BY <2>1, <2>3, <2>6 DEF WalkInv
<1>7. CASE FetchPage
  BY <1>7, WalkOutlivesFetch
<1> QED
  BY <1>2, <1>3, <1>4, <1>5, <1>6, <1>7 DEF Next, vars, Query

\* What a walk has missed at its end is within its allowance: those of its first rows
\* that still belong to the listing are among those it has not shown.
LEMMA WalkEnds == TypeOK /\ WalkInv => ShownAgainOnlyIfEntered /\ SkippedOnlyIfShifted
<1> SUFFICES ASSUME TypeOK, WalkInv PROVE ShownAgainOnlyIfEntered /\ SkippedOnlyIfShifted
  OBVIOUS
<1>1. listing \in Listing
  BY DEF TypeOK
<1>2. ShownAgainOnlyIfEntered
  BY DEF WalkInv, ShownAgainOnlyIfEntered
<1>3. ASSUME listing.pc = "done"
      PROVE  Cardinality((listing.start \cap Filtered(listing.filter)) \ listing.seen)
               <= Allowance(listing)
  <2> DEFINE S == listing.start \ listing.seen
             T == (listing.start \cap Filtered(listing.filter)) \ listing.seen
  <2>1. S \in SUBSET Match /\ T \subseteq S
    BY <1>1 DEF Listing
  <2>2. IsFiniteSet(S)
    BY <2>1, ReadsAssumption, FS_Subset
  <2>3. IsFiniteSet(T) /\ Cardinality(T) <= Cardinality(S)
    BY <2>1, <2>2, FS_Subset
  <2>4. Cardinality(T) \in Nat /\ Cardinality(S) \in Nat
    BY <2>2, <2>3, FS_CardinalityType
  <2>5. Cardinality(S) <= Allowance(listing)
    BY <1>3 DEF WalkInv
  <2>6. Allowance(listing) \in Nat
    BY <1>1 DEF Allowance, Listing
  <2> HIDE DEF S, T
  <2>7. Cardinality(T) <= Allowance(listing)
    BY <2>3, <2>4, <2>5, <2>6
  <2> QED
    BY <2>7 DEF T
<1> QED
  BY <1>2, <1>3 DEF SkippedOnlyIfShifted, Allowance

\* Before the first step there is no walk, and every step keeps its allowance.
LEMMA WalkInvariance == Spec => [](TypeOK /\ WalkInv)
<1>1. Init => WalkInv
  BY IdleWalk DEF Init
<1> QED
  BY <1>1, ReadsTypeInit, ReadsTypeStep, WalkStep, PTL DEF Spec

\* However many commands commit during a walk through the pages, it shows matches a
\* second time only for as many as came into the listing, and none in a listing of all
\* matches or of those still to be played.
THEOREM RepeatsAreEntered == Spec => []ShownAgainOnlyIfEntered
BY WalkInvariance, WalkEnds, PTL

\* A walk that reaches its last page has skipped no more matches of the listing than
\* left it, or moved for one that came in, during the walk.
THEOREM SkipsAreShifts == Spec => []SkippedOnlyIfShifted
BY WalkInvariance, WalkEnds, PTL
=============================================================================
