---------------------------- MODULE FixtureReads ----------------------------
(***************************************************************************)
(* The read models of fixture-core beside its writer. GET /fixture and GET *)
(* /groups put an answer together from up to five queries, and GET         *)
(* /matches counts and then fetches a page; no transaction spans them, so  *)
(* commands commit in between. A command is one step, its transaction; a   *)
(* query is one step. Reads change nothing, so one client with one request *)
(* at a time is enough.                                                    *)
(*                                                                         *)
(* A match is its number. A group's table is the set of results it counts, *)
(* which is what GroupTable is about.                                      *)
(*                                                                         *)
(* `repaired`, chosen once, says which of four defects are taken as        *)
(* mended. The writer's other defects, which FixtureService is about, are  *)
(* taken as mended: with them no command commits and nothing moves here.   *)
(***************************************************************************)
EXTENDS Integers, FiniteSets

CONSTANTS
  Group, GroupOf,      \* the groups, and the group of each group match
  Knockout,            \* the numbers of the round of 32
  Day,                 \* dates of kick-off
  InitialDay,
  FilterDay,           \* the date a listing may ask for
  PerPage,
  MaxMoves             \* bound: reschedules

GroupMatch == DOMAIN GroupOf
Match == GroupMatch \cup Knockout
MatchesOf(g) == {m \in GroupMatch : GroupOf[m] = g}

\* The bracket's numbers follow those of the groups: with others it is not stored.
ASSUME ReadsAssumption ==
  /\ Match \subseteq Nat /\ IsFiniteSet(Match)
  /\ \A m \in GroupMatch, n \in Knockout : m < n
  /\ GroupOf \in [GroupMatch -> Group] /\ \E g, h \in Group : g # h
  /\ \A g \in Group : MatchesOf(g) # {}
  /\ InitialDay \in [Match -> Day] /\ FilterDay \in Day
  /\ PerPage \in Nat \ {0} /\ MaxMoves \in Nat

\* groupStatus: Save writes groups.status. matchNumbers: the bracket does not
\* reuse the numbers of group matches. knockoutScan: loadKnockoutRounds has a
\* destination for each column it selects. resultScan: scanMatchDTO has one for
\* completed_at.
Defects == {"groupStatus", "matchNumbers", "knockoutScan", "resultScan"}

VARIABLES
  status,        \* tournaments.status
  groupStatus,   \* groups.status
  results,       \* the matches with a result
  bracket,       \* whether the rows of Knockout are there
  scheduled_at,
  moves,         \* how often a match was rescheduled
  repaired,
  view,          \* a request for the fixture, the groups, a table or the bracket
  listing        \* a client that walks through the pages of GET /matches

db == <<status, groupStatus, results, bracket, scheduled_at, moves, repaired>>
vars == <<db, view, listing>>

Rows == GroupMatch \cup (IF bracket THEN Knockout ELSE {})

-----------------------------------------------------------------------------
(* GET /matches: the rows a listing is cut from.                           *)

\* What a listing may ask for; other filters are as these.
Filters == {"all", "scheduled", "day"}

\* buildMatchWhereClause: all matches, those still to be played, or a date.
Filtered(filter) ==
  {m \in Rows : CASE filter = "all"       -> TRUE
                  [] filter = "scheduled" -> m \notin results
                  [] filter = "day"       -> scheduled_at[m] = FilterDay}

\* Mutant: ORDER BY scheduled_at.
OrderedBeforeByDate(m, n) ==
  \/ scheduled_at[m] < scheduled_at[n]
  \/ scheduled_at[m] = scheduled_at[n] /\ m < n

\* ORDER BY match_number.
OrderedBefore(m, n) == m < n

\* ParsePagination, of a request that names no page.
FirstPage == 1

Offset(page) == (page - 1) * PerPage

\* The rows of a page, by their position in the order.
PageOf(filter, page) ==
  LET rows == Filtered(filter)
      position(m) == Cardinality({n \in rows : OrderedBefore(n, m)})
  IN {m \in rows : position(m) >= Offset(page) /\ position(m) < Offset(page) + PerPage}

\* Mutant: the last page is not counted when it is not full.
TotalPagesFull(total) == total \div PerPage

\* NewPageMeta.
TotalPages(total) == (total \div PerPage) + (IF total % PerPage # 0 THEN 1 ELSE 0)

\* scanMatchDTO scans completed_at into the result: a row that has one fails.
PageScans(rows) == "resultScan" \in repaired \/ rows \cap results = {}

NoListing == [pc |-> "idle", filter |-> "all", page |-> FirstPage, total |-> 0,
              start |-> {}, seen |-> {}, again |-> {}, entered |-> 0, left |-> 0]

\* The history of a walk under way: how many rows came into its listing, and how
\* many went, with the command that leads to the primed rows.
Commit ==
  \E filter \in {listing.filter} :
    LET before == Filtered(filter)
        after  == Filtered(filter)'
    IN listing' = IF listing.pc \in {"count", "page"}
                  THEN [listing EXCEPT
                          !.entered = @ + Cardinality(after \ before),
                          !.left    = @ + Cardinality(before \ after)]
                  ELSE listing

-----------------------------------------------------------------------------
(* The writer.                                                             *)

\* In the knockout stage the rounds are loaded too, and the scan fails.
Loads == status = "GROUP_STAGE" \/ "knockoutScan" \in repaired

\* Mutant: the stage is left open when the bracket is drawn.
StatusAfterForgotten(closes) == status

StatusAfter(closes) == IF closes THEN "KNOCKOUT" ELSE status

\* A group result, with what the aggregate does after it: the group completes, and
\* with the last group the bracket is drawn.
RegisterGroupResult(m) ==
  LET played == results \cup {m}
      inMemory == [groupStatus EXCEPT ![GroupOf[m]] =
                     IF MatchesOf(GroupOf[m]) \subseteq played THEN "COMPLETED"
                                                               ELSE "IN_PROGRESS"]
      closes == \A g \in Group : inMemory[g] = "COMPLETED"
  IN /\ Loads
     /\ m \in GroupMatch \ results
     /\ closes => "matchNumbers" \in repaired
     /\ results' = played
     /\ groupStatus' = IF "groupStatus" \in repaired THEN inMemory ELSE groupStatus
     /\ bracket' = (bracket \/ closes)
     /\ status' = StatusAfter(closes)
     /\ UNCHANGED <<scheduled_at, moves, repaired, view>>
     /\ Commit

RegisterKnockoutResult(m) ==
  /\ Loads
  /\ bracket
  /\ m \in Knockout \ results
  /\ results' = results \cup {m}
  /\ UNCHANGED <<status, groupStatus, bracket, scheduled_at, moves, repaired, view>>
  /\ Commit

\* UpdateMatchSchedule.
Reschedule(m, day) ==
  /\ Loads
  /\ m \in Rows \ results
  /\ moves < MaxMoves
  /\ scheduled_at' = [scheduled_at EXCEPT ![m] = day]
  /\ moves' = moves + 1
  /\ UNCHANGED <<status, groupStatus, results, bracket, repaired, view>>
  /\ Commit

-----------------------------------------------------------------------------
(* The requests made of several queries.                                   *)

\* since: history, the matches that had a result when the request began.
NoView == [kind |-> "none", pc |-> "idle", since |-> {}, status |-> "",
           groups |-> [g \in Group |-> ""], standings |-> [g \in Group |-> {}],
           matches |-> {}, knockout |-> {}]

\* Mutant: the matches are read before the tables.
NextQueryMatchesFirst(v) ==
  CASE v.pc = "tournament" -> "groups"
    [] v.pc = "groups"     -> "matches"
    [] v.pc = "matches"    -> "standings"
    [] v.pc = "standings"  -> IF v.status = "KNOCKOUT" THEN "knockout" ELSE "done"
    [] v.pc = "knockout"   -> "done"

\* GetFixture, loadGroupDTOs: the bracket only if the status that was read first
\* says so.
NextQuery(v) ==
  CASE v.pc = "tournament" -> "groups"
    [] v.pc = "groups"     -> "standings"
    [] v.pc = "standings"  -> IF v.kind = "standings" THEN "done" ELSE "matches"
    [] v.pc = "matches"    -> IF v.status \in {"KNOCKOUT", "FINISHED"} THEN "knockout"
                                                                       ELSE "done"
    [] v.pc = "knockout"   -> "done"

Request(kind, first) ==
  /\ view.pc \in {"idle", "done"} /\ listing.pc \in {"idle", "done", "failed"}
  /\ view' = [NoView EXCEPT !.kind = kind, !.pc = first, !.since = results]
  /\ listing' = NoListing
  /\ UNCHANGED db

GetFixture == Request("fixture", "tournament")

\* And GetGroup, which picks one group of the answer.
ListGroups == Request("groups", "groups")

GetStandings == Request("standings", "standings")

\* "Not found" when there are no rows.
GetKnockout == Request("knockout", "knockout")

\* The matches of one phase, here the round of 32.
GetKnockoutRound == Request("round", "knockout")

\* The queries of loadGroupDTOs and loadKnockoutDTO.
GroupRows == groupStatus
StandingRows == [g \in Group |-> results \cap MatchesOf(g)]
MatchRows == results \cap GroupMatch
KnockoutRows == Rows \cap Knockout

Query ==
  /\ view.pc \notin {"idle", "done"}
  /\ view' = [
       kind      |-> view.kind,
       pc        |-> NextQuery(view),
       since     |-> view.since,
       status    |-> IF view.pc = "tournament" THEN status ELSE view.status,
       groups    |-> IF view.pc = "groups" THEN GroupRows ELSE view.groups,
       standings |-> IF view.pc = "standings" THEN StandingRows ELSE view.standings,
       matches   |-> IF view.pc = "matches" THEN MatchRows ELSE view.matches,
       knockout  |-> IF view.pc = "knockout" THEN KnockoutRows ELSE view.knockout]
  /\ UNCHANGED <<db, listing>>

-----------------------------------------------------------------------------
(* The walk through the pages.                                             *)

ListMatches(filter) ==
  /\ view.pc \in {"idle", "done"} /\ listing.pc \in {"idle", "done", "failed"}
  /\ listing' = [NoListing EXCEPT !.pc = "count", !.filter = filter,
                                  !.start = Filtered(filter)]
  /\ view' = NoView
  /\ UNCHANGED db

Count ==
  /\ listing.pc = "count"
  /\ listing' = [listing EXCEPT !.pc = "page",
                                !.total = Cardinality(Filtered(listing.filter))]
  /\ UNCHANGED <<db, view>>

\* The page; the client asks for the next one while the metadata says there is one.
FetchPage ==
  LET rows == PageOf(listing.filter, listing.page)
  IN /\ listing.pc = "page"
     /\ listing' =
          IF ~ PageScans(rows) THEN [listing EXCEPT !.pc = "failed"]
          ELSE [listing EXCEPT
                  !.pc    = IF listing.page < TotalPages(listing.total) THEN "count"
                                                                        ELSE "done",
                  !.page  = IF listing.page < TotalPages(listing.total) THEN @ + 1 ELSE @,
                  !.seen  = @ \cup rows,
                  !.again = @ \cup (rows \cap listing.seen)]
     /\ UNCHANGED <<db, view>>

-----------------------------------------------------------------------------
Init ==
  /\ repaired \in SUBSET Defects
  /\ status = "GROUP_STAGE"
  /\ groupStatus = [g \in Group |-> "PENDING"]
  /\ results = {}
  /\ bracket = FALSE
  /\ scheduled_at = InitialDay
  /\ moves = 0
  /\ view = NoView
  /\ listing = NoListing

Next ==
  \/ \E m \in Match :
       \/ RegisterGroupResult(m)
       \/ RegisterKnockoutResult(m)
       \/ \E day \in Day : Reschedule(m, day)
  \/ GetFixture \/ ListGroups \/ GetStandings
  \/ GetKnockout \/ GetKnockoutRound
  \/ Query
  \/ \E filter \in Filters : ListMatches(filter)
  \/ Count
  \/ FetchPage

Spec == Init /\ [][Next]_vars

-----------------------------------------------------------------------------
(* Properties.                                                             *)

GroupStatuses == {"PENDING", "IN_PROGRESS", "COMPLETED"}
Listing == [pc: {"idle", "count", "page", "done", "failed"},
            filter: Filters, page: Nat \ {0}, total: Nat,
            start: SUBSET Match, seen: SUBSET Match, again: SUBSET Match,
            entered: Nat, left: Nat]
View == [kind: {"none", "fixture", "groups", "standings", "knockout", "round"},
         pc: {"idle", "tournament", "groups", "standings", "matches", "knockout", "done"},
         since: SUBSET Match,
         status: {"", "GROUP_STAGE", "KNOCKOUT"},
         groups: [Group -> {""} \cup GroupStatuses],
         standings: [Group -> SUBSET GroupMatch],
         matches: SUBSET GroupMatch, knockout: SUBSET Knockout]

\* The variables hold values of the columns and of the answers, a result only for
\* a row, and the tournament is in the knockout stage when there is a bracket.
TypeOK ==
  /\ groupStatus \in [Group -> GroupStatuses]
  /\ results \subseteq Rows
  /\ status \in {"GROUP_STAGE", "KNOCKOUT"} /\ bracket \in BOOLEAN
  /\ bracket <=> status = "KNOCKOUT"
  /\ scheduled_at \in [Match -> Day] /\ moves \in 0..MaxMoves
  /\ repaired \in SUBSET Defects
  /\ view \in View
  /\ listing \in Listing

\* What an earlier query of the answer shows is not missing in a later one: a table
\* counts only matches shown as played, a group shown as completed has a table of
\* all its matches, and a tournament shown in the knockout stage has every group
\* completed and its bracket.
LaterQueriesAreNewer ==
  /\ view.kind \in {"fixture", "groups"} =>
       \A g \in Group : /\ view.standings[g] \subseteq view.matches
                        /\ view.groups[g] = "COMPLETED" =>
                             view.standings[g] = MatchesOf(g)
  /\ view.kind = "fixture" /\ view.status # "GROUP_STAGE" =>
       /\ \A g \in Group : view.groups[g] = "COMPLETED"
       /\ view.knockout = Knockout

\* What was stored before the request is missing in no part of the answer: the
\* tables count it, and the groups and the stage it completed are shown so, if
\* statuses are stored at all.
NothingOldIsMissing ==
  /\ view.kind \in {"fixture", "groups"} =>
       \A g \in Group :
         /\ view.since \cap MatchesOf(g) \subseteq view.standings[g]
         /\ "groupStatus" \in repaired /\ MatchesOf(g) \subseteq view.since =>
              view.groups[g] = "COMPLETED"
  /\ view.kind = "fixture" /\ "groupStatus" \in repaired /\ GroupMatch \subseteq view.since =>
       view.status = "KNOCKOUT"

\* An answer of several queries, between which results are committed, need not show
\* one state of the tournament: it may show a match as played that its table does
\* not count, or all groups completed in a tournament still in its group stage. It
\* runs forward: its parts are of states in the order of the queries, none of them
\* older than the request, so all that is torn was committed during the request.
AnswersRunForward ==
  view.pc = "done" => LaterQueriesAreNewer /\ NothingOldIsMissing

\* A walk through the pages shows a match a second time only for a match that came
\* into the listing meanwhile; so never in a listing of all matches or of those
\* still to be played, whatever is registered or rescheduled during the walk.
ShownAgainOnlyIfEntered ==
  /\ Cardinality(listing.again) <= listing.entered
  /\ listing.filter \in {"all", "scheduled"} => listing.again = {}

\* A walk that reaches its last page has skipped no more matches that belong to the
\* listing from its start to its end than left it meanwhile, or, where matches can
\* come in before others, than left it or entered it after a count; so none in a
\* listing of all matches.
SkippedOnlyIfShifted ==
  listing.pc = "done" =>
    Cardinality((listing.start \cap Filtered(listing.filter)) \ listing.seen)
      <= listing.left + (IF listing.filter = "day" THEN listing.entered ELSE 0)
=============================================================================
